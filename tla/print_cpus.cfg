SPECIFICATION FairSpec
CONSTANTS
  c1 = c1
  c2 = c2
  CPU <- MCCpu
  MayPanic <- MCPanic
  MsgLen = 3
  Depth = 2
  MaxMsgs = 2
  MaxLost = 1
INVARIANT
  MutualExclusion
  NoLostWakeup
  NothingDropped
  NotInterleaved
PROPERTY
  AllPrinted
CHECK_DEADLOCK FALSE
