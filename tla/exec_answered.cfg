SPECIFICATION AnsweredSpec
CONSTANTS
  a = a
  b = b
  c = c
  d = d
  e = e
  t1 = t1
  t2 = t2
  Traces = {t1}
  Nodes = {a, b, c, d, e}
  Entries = {a}
  Edges <- ApprovalEdges
  Outcomes <- ApprovalOutcomes
  Ports = {"out", "rejected"}
  Decisions = {"out", "rejected"}
  MaxTraces = 1
  MaxNodes = 2
  MaxCrashes = 1
  WalFails = FALSE
  Expiry = FALSE
  ShutdownAllowed = FALSE
  EarlyAnswers = FALSE
  LogBuffered = FALSE
  NoPort = NoPort
  NoNode = NoNode
  NoTrace = NoTrace
INVARIANTS
  
  SuspensionsKept
PROPERTIES
  AnsweredTracesEnd
CHECK_DEADLOCK FALSE
