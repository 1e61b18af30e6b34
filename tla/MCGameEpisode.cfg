CONSTANTS
  Levels <- SmallLevels
  MaxTurns = 2
  MaxMoves = 2
  MaxLate = 1
SPECIFICATION Spec
INVARIANTS
  BoardsArePlayable
  EndsAtGoalOrLimit
  SameMovesSamePay
CHECK_DEADLOCK FALSE
