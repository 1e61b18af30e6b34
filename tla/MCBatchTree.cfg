\* Three agents with a LoRA adapter each, the last one not trained; two problems of two samples.
SPECIFICATION Spec
CONSTANTS
  NumProblems = 2
  SampleNum = 2
  MaxTurns = 1
  NumAgents = 3
  Rewards = {0, 1}
  Tree = TRUE
  Methods <- AllMethods
  Percents = {0, 50}
  Untrained = {2}
  LoraDiffer = TRUE
  WorldSize = 2
  MaxRows = 2
INVARIANTS
  TypeOK
  CollectedOnce
  WholeGroups
  SignalRemains
  WorldDivides
  UpdatesAreTheKept
