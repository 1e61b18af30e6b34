\* Three batches.
SPECIFICATION TaskSpec
CONSTANTS
  NumBatches = 3
INVARIANTS
  TaskTypeOK
  RowsAreOwn
  StrangersNeedSilence
PROPERTIES
  BatchesEnd
CHECK_DEADLOCK FALSE
