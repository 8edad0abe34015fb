SPECIFICATION FairSpec
CONSTANTS
  NSectors = 3
  Content <- MCContent
  Erased <- MCErased
  Torn <- MCErased
  PastEnd <- MCPastEnd
  BlockSize = 2
  Base = 12
  Word = 64
  AddrWord = 32
  Readable <- MCReadable
  MaxHandles = 2
  MaxDevices = 1
  Offsets <- SignedOffsets
  Lengths <- MCLengths
  Data <- MCData
  Flash0 <- MCFlash0
  MaxWrites = 2
INVARIANT
  PoolConsistent
  WriteReported
  OutsideKept
PROPERTY
  WriteEnds
CHECK_DEADLOCK FALSE
