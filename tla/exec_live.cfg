SPECIFICATION FairSpec
CONSTANTS
  a = a
  b = b
  c = c
  d = d
  e = e
  t1 = t1
  t2 = t2
  Traces = {t1, t2}
  Nodes = {a, b}
  Entries = {a}
  Edges <- WaitEdges
  Outcomes <- WaitOutcomes
  Ports = {"out"}
  Decisions = {"out"}
  MaxTraces = 2
  MaxNodes = 1
  MaxCrashes = 1
  WalFails = FALSE
  Expiry = FALSE
  ShutdownAllowed = FALSE
  EarlyAnswers = TRUE
  LogBuffered = TRUE
  NoPort = NoPort
  NoNode = NoNode
  NoTrace = NoTrace
PROPERTIES
  EverythingSettles
CHECK_DEADLOCK FALSE
