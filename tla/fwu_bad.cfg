SPECIFICATION FairSpec
CONSTANTS
  NSectors = 8
  Content <- MCContent
  Erased = Erased
  Torn = Torn
  Cleared = Cleared
  PastEnd <- MCPastEnd
  FipBase = 4
  Packages <- BadPackages
  MaxPowerLoss = 2
INVARIANT
  OthersUntouched
PROPERTY
  RunEnds
CHECK_DEADLOCK FALSE
