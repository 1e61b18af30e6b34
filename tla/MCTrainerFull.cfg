\* Two fully trained models, validated every step; two crashes and resumes.
CONSTANTS
  Trainers <- MCTwoModels
  First = "coder"
  Jobs <- MCEachModel
  TotalSteps = 4
  ValFreq = 1
  Rates = {0, 1, 2}
  ResumeMode = "resume_path"
  LoraDiffer = FALSE
  IfSave = TRUE
  MaxRestarts = 2
SPECIFICATION Spec
CHECK_DEADLOCK FALSE
INVARIANTS
  OnPolicy
  EnginesSleepWhileTraining
  BestIsOnDisk
  NoStepIsSkipped
PROPERTY
  LearnsOnPolicy
