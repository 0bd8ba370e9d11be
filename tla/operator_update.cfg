SPECIFICATION Spec
CONSTANTS
  Replicas = 1
  MaxRetries = 1
  MaxGen = 2
  MaxFaults = 0
CHECK_DEADLOCK FALSE
INVARIANTS
  UpdatesReachCluster
