SPECIFICATION Spec
CONSTANTS
  a = a
  b = b
  c = c
  d = d
  e = e
  t1 = t1
  t2 = t2
  Traces = {t1}
  Nodes = {a, b, c}
  Entries = {a}
  Edges <- SwitchEdges
  Outcomes <- SwitchOutcomes
  Ports = {"out", "true", "false"}
  Decisions = {"out"}
  MaxTraces = 1
  MaxNodes = 2
  MaxCrashes = 1
  WalFails = FALSE
  Expiry = FALSE
  ShutdownAllowed = FALSE
  EarlyAnswers = TRUE
  LogBuffered = FALSE
  NoPort = NoPort
  NoNode = NoNode
  NoTrace = NoTrace
INVARIANTS
  NoBranchLost
CHECK_DEADLOCK FALSE
