SPECIFICATION Spec
CONSTANT Batches <- MCBatches
INVARIANTS
  OkMeansDone
  CollectedWasClean
PROPERTIES
  NotAgainAfterSuccess
  InterruptEnds
CHECK_DEADLOCK FALSE
