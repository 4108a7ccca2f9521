SPECIFICATION Spec
CONSTANTS
  MaxDeployments = 2
  MaxFaults = 1
  MaxMoves = 0
  MaxEdits = 1
  Start <- NewOrExposed
  Failures <- AllFailures
CHECK_DEADLOCK FALSE
INVARIANTS
  TypeOK
