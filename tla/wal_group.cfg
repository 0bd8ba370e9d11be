SPECIFICATION Spec
CONSTANTS
  MaxRecords = 4
  MaxRestarts = 1
  MaxFileSize = 2
  ReopenSize = 1
  RecordSizes = {1, 2}
  SyncOnWrite = FALSE
  GroupCommit = TRUE
  MaxBatchSize = 2
  KeepCounts = {1}
  RotateErrors = {"open"}
INVARIANTS
  ZeroPendingMeansFlushed

  
CHECK_DEADLOCK FALSE
