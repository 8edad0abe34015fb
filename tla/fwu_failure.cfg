SPECIFICATION Spec
CONSTANTS
  NSectors = 8
  Content <- MCContent
  Erased = Erased
  Torn = Torn
  Cleared = Cleared
  PastEnd <- MCPastEnd
  FipBase = 4
  Packages <- BadPackages
  MaxPowerLoss = 0
INVARIANT
  FailureReported
CHECK_DEADLOCK FALSE
