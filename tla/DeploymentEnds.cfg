SPECIFICATION FairSpec
CONSTANTS
  MaxDeployments = 2
  MaxFaults = 1
  MaxMoves = 1
  MaxEdits = 0
  Start <- NewOrExposed
  Failures <- AllFailures
CHECK_DEADLOCK FALSE
PROPERTIES
  EventuallySettled
