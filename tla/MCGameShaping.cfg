\* One board of the path game, with detours before the goal.
CONSTANTS
  Levels <- Corridor
  MaxTurns = 2
  MaxMoves = 3
  MaxLate = 0
SPECIFICATION Spec
INVARIANTS
  ShapingIsNeutral
CHECK_DEADLOCK FALSE
