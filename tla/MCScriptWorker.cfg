\* Three calls, a timeout of one poll.
SPECIFICATION Spec
CONSTANTS
  Calls = {c1, c2, c3}
  Limit = 1
INVARIANTS
  ReturnsInTime
  NothingIsLeft
PROPERTIES
  EveryCallReturns
CHECK_DEADLOCK FALSE
