SPECIFICATION ControlSpec
CONSTANTS
  Events = {e1, e2, e3}
  StartFails = TRUE
  TriggerFails = TRUE
  Threshold <- HalfFail
  PodReplicas = 2
  MaxRetries = 2
  MaxGen = 2
  MaxFaults = 2
  Members <- TwoMembers
  Labels <- SomeLabels
  Trusted = {"c1"}
  Specs <- SomeSpecs
  FedSpecs <- SomeFedSpecs
  MaxVersions = 2
  MaxSecret = 2
  MaxOutages = 1
  MaxChanges = 2
CHECK_DEADLOCK FALSE
INVARIANTS
  ActiveIsAccurate
  
PROPERTIES
  DrainWaits
  DrainEnds
  
  
