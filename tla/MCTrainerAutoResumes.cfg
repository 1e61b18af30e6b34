\* One model restarted in auto mode.
CONSTANTS
  Trainers <- MCOneModel
  First = "shared"
  Jobs <- MCOneJob
  TotalSteps = 3
  ValFreq = 1
  Rates = {0, 1, 2}
  ResumeMode = "auto"
  LoraDiffer = FALSE
  IfSave = TRUE
  MaxRestarts = 1
SPECIFICATION Spec
CHECK_DEADLOCK FALSE
PROPERTIES
  AutoResumes
