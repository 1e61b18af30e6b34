\* Four turns, three answers besides none, three failures anywhere.
SPECIFICATION Spec
CONSTANTS
  MaxTurns = 4
  Answers <- MCAnswers
  Nothing = "nothing"
  Truth = "right"
  Equal <- MCEqual
  MaxFaults = 3
INVARIANTS
  StopsOnAgreement
  PayIsEarned
