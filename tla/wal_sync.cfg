SPECIFICATION JournalSpec
CONSTANTS
  MaxRecords = 4
  MaxRestarts = 2
  MaxFileSize = 2
  ReopenSize = 1
  RecordSizes = {1, 2}
  SyncOnWrite = TRUE
  GroupCommit = FALSE
  MaxBatchSize = 2
  KeepCounts = {1, 2}
  RotateErrors = {"open"}
  Base = 10
  Samples <- SomeRecords
  MaxAppends = 3
  MaxDamage = 2
  TraceIds = {t1}
  NodeIds = {n1}
  Calls = {k1}
  PerFile = 2
  RetentionCount = 1
  MaxLogged = 4
  MaxSnapshots = 2
  MaxStops = 1
INVARIANTS
  AckedDurable
  ReplayInOrder
  LiveSegmentKept
  RecordsKept
  SnapshotsSound
CHECK_DEADLOCK FALSE
