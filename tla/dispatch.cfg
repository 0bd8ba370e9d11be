SPECIFICATION Spec
CONSTANTS
  r1 = r1
  r2 = r2
  r3 = r3
  Requests = {r1, r2}
  Workers = {w1, w2}
  Backends = {"memory", "priority", "raft", "local", "redis", "list", "nats"}
  Priority <- MCPriority
  Created <- MCCreated
  MaxAttempts = 2
  MaxQueueSize = 1
  NoRequest = NoRequest
  NoMessage = NoMessage
CHECK_DEADLOCK FALSE
INVARIANTS OneHolder
PROPERTIES ImplementsWorkQueue
  RetriesEnd
