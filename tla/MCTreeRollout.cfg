\* Two siblings, two agents (the second adds to its agent_reward), two turns, one failure anywhere.
SPECIFICATION Spec
CONSTANTS
  N = 2
  NumAgents = 2
  MaxTurns = 2
  Qualities = {0, 1}
  Parallel = TRUE
  IfGreedy = TRUE
  MaxFaults = 1
  Pays <- MCPays
  Adding = {2}
  Score <- MCScore
INVARIANTS
  TypeOK
  RewardsCollapse
  StopsFirstOrLast
  BestIsKept
  RowsAreTheAnswers
PROPERTIES
  Terminates
