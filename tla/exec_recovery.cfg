SPECIFICATION Spec
CONSTANTS
  a = a
  b = b
  c = c
  d = d
  e = e
  t1 = t1
  t2 = t2
  Traces = {t1}
  Nodes = {a, b, c, d, e}
  Entries = {a}
  Edges <- ReviewEdges
  Outcomes <- ReviewOutcomes
  Ports = {"out", "rejected"}
  Decisions = {"out", "rejected"}
  MaxTraces = 1
  MaxNodes = 2
  MaxCrashes = 2
  WalFails = TRUE
  Expiry = TRUE
  ShutdownAllowed = TRUE
  EarlyAnswers = TRUE
  LogBuffered = FALSE
  NoPort = NoPort
  NoNode = NoNode
  NoTrace = NoTrace
INVARIANTS
  LoggedNotRerun
  PredecessorsFirst
  LoggedBeforeSuccessor
  NoBranchLost
  NoSecondDriver
CHECK_DEADLOCK FALSE
