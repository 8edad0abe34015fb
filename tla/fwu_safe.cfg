SPECIFICATION FairSpec
CONSTANTS
  NSectors = 8
  Content <- MCContent
  Erased = Erased
  Torn = Torn
  Cleared = Cleared
  PastEnd <- MCPastEnd
  FipBase = 4
  Packages <- SafePackages
  MaxPowerLoss = 3
INVARIANT
  BackupUntilInstalled
  BackupIntact
PROPERTY
  ImplementsContract
  UpdateCompletes
CHECK_DEADLOCK FALSE
