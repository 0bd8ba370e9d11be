SPECIFICATION StorageSpec
CONSTANTS
  Capacity = 150
  Sizes = {0, 5, 16}
  Bytes = {x, y}
  Zero = zero
  MaxWriters = 2
  SyncOnWrite = TRUE
  DataOffset = 8
  BufferLength = 48
  AllocSizes = {8, 13}
  Threshold <- Third
  MinDead = 6
  MaxGen = 3
  SegmentMax = 2
  MaxIndex = 3
  MaxTerm = 2
  NoSegment = NoSegment
  Replicas = {r1, r2}
  PipelineIds = {p1}
  TraceIds = {t1}
  NodeIds = {n1}
  SnapshotThreshold = 3
  MaxLog = 5
  Opening <- MCOpening
  Admin = admin
  Nobody = nobody
  Clients = {c1, c2}
  Hashes = {1, 2, 3}
  Keys <- MCKeys
  MaxMigrations = 3
  Questions <- MCQuestions
  Infos <- MCInfos
  MaxSchemas = 2
  MaxPersists = 2
  Collectors <- MCCollectors
  Said <- MCSaid
  Subscribers = {u1}
  Requests <- MCRequests
  Numbers <- MCNumbers
  MaxLogs = 3
SYMMETRY Symmetry
CHECK_DEADLOCK FALSE
INVARIANTS
  PointersGood
  SavedSurvives
  EntriesKept
  ClusterAgrees
  SchemasEvolve
  

  
