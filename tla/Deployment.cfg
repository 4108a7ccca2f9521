SPECIFICATION Spec
CONSTANTS
  MaxDeployments = 3
  MaxFaults = 1
  MaxMoves = 0
  MaxEdits = 0
  Start <- AnyDomain
  Failures <- NoLostPut
CHECK_DEADLOCK FALSE
INVARIANTS
  ServedKeepsRunning
  EndedIsStopped
  OneOwner
PROPERTIES
  CurrentAfterRouting
