SPECIFICATION Spec
CONSTANTS
  NSectors = 3
  Content <- MCContent
  Erased <- MCErased
  Torn <- MCErased
  PastEnd <- MCPastEnd
  BlockSize = 2
  Base = 12
  Word = 64
  AddrWord = 32
  Readable <- MCReadable
  MaxHandles = 1
  MaxDevices = 1
  Offsets <- SignedOffsets
  Lengths <- MCLengths
  Data <- MCData
  Flash0 <- MCFlash0
  MaxWrites = 1
INVARIANT
  SuccessMeansDone
CHECK_DEADLOCK FALSE
