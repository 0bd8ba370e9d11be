SPECIFICATION Spec
CONSTANTS
  Ids = {i1, i2}
  Clients = {c1, c2}
  MaxPipelines = 2
  MaxTraces = 3
  HistoryCapacity = 2
  NoPipeline = NoPipeline
  TriggerIds = {t1}
  Listeners = {l1}
  Kinds <- MCKinds
  MaxTasks = 2
  NoTask = NoTask
  MaxPerWindow = 2
  Window = 2
  MaxClock = 6
  FailureThreshold = 2
  FailureWindow = 1
  RecoveryTimeout = 1
  SuccessThreshold = 2
  MaxTime = 2
  Flows <- MCFlows
  MaxNodes = 2
  MaxEdges = 2
  MaxTriggers = 1
  Texts <- MCTexts
  Paths <- MCPaths
  Worlds <- MCWorlds
  Jobs <- MCJobs
  MaxEntries = 2
  Programs = {1, 2}
  Hash <- MCHash
  Inputs <- MCInputs
  Environment <- MCEnvironment
  Word = 32
  MemSize = 14
  ArenaSize = 6
  CopyBelow = 3
  MaxCalls = 2
  AuthConfigs <- MCAuthConfigs
  Calls <- MCCalls
  NoKey = "none"
  MaxHour = 1
  Hooks = {"h"}
  Owner <- MCOwner
  Decisions = {"approve", "maybe"}
  Ports <- MCPorts
  MaxSuspensions = 2
  MaxResumes = 2
  MaxDeploys = 1
  Durations = {0, 1, 2}
  MaxNow = 3
  MaxPolls = 1
  Root = "/"
  Up = ".."
  Here = "."
  FsPaths <- MCFsPaths
  Data = {1}
  Rules <- MCRules
  Sent <- MCSent
  Fallback = "404"
  MaxUses = 3
  TestGraphs <- MCTestGraphs
  Outcomes = {"out", "error", "suspend", "err"}
  Suspend = "suspend"
  Err = "err"
SYMMETRY Symmetry
CHECK_DEADLOCK FALSE
INVARIANTS
  RunningIsKnown
  TasksUnderControl
  RateBounded
  BreakerSound
  LoadedIsSound
  
  RequestsRight
  
