SPECIFICATION FairSpec
CONSTANTS
  NSectors = 3
  SectorSize = 4
  PageSize = 2
  AddrWord = 20
  PastEnd <- MCPastEnd
  Byte <- MCByte
  FF = 255
  Old = 0
  Junk = 256
  Mixed = 257
  Calls <- WriteCalls
  MaxCalls = 2
  MaxPowerLoss = 1
INVARIANT
  NothingLost
  ReadableWhenIdle
  WriteResult
PROPERTY
  ImplementsStore
  CallReturns
CHECK_DEADLOCK FALSE
