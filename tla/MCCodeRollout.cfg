\* Three turns with two failures anywhere.
SPECIFICATION Spec
CONSTANTS
  MaxTurns = 3
  Codes = {"right", "half"}
  NoCode = "none"
  Garbage = "garbage"
  Suites = {"biased", "fair"}
  NoSuite = "nosuite"
  Full = 2
  Score <- MCScore
  Agree <- MCAgree
  MaxFaults = 2
INVARIANTS
  StopsOnAgreement
  RewardSource
  SuccessSource
PROPERTIES
  Terminates
