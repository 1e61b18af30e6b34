\* One task per rollout: three rollouts of one problem over two turns.
SPECIFICATION Spec
CONSTANTS
  NumProblems = 1
  SampleNum = 3
  MaxTurns = 2
  NumAgents = 1
  Rewards = {0, 1}
  Tree = FALSE
  Methods <- AllMethods
  Percents = {0, 50}
  Untrained = {}
  LoraDiffer = FALSE
  WorldSize = 2
  MaxRows = 2
INVARIANTS
  FilterLeavesRows
