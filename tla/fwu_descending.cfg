SPECIFICATION Spec
CONSTANTS
  NSectors = 8
  Content <- MCContent
  Erased = Erased
  Torn = Torn
  Cleared = Cleared
  PastEnd <- MCPastEnd
  FipBase = 4
  Packages <- DescendingPackages
  MaxPowerLoss = 0
INVARIANT
  BackupUntilInstalled
CHECK_DEADLOCK FALSE
