SPECIFICATION Spec
CONSTANTS
  Word = 4194304
  PageSize = 2
  Entries = 512
  BaseEntries = 4
  BaseLevel = 1
  MinBlock = 1
  TablesNum = 4
  MmapNum = 7
  VaMax = 2097151
  PaMax = 2097151
  Regime = "EL2"
  Attr <- MapAttr
  Calls <- PlatformCalls
INVARIANT
  PoolSuffices
CHECK_DEADLOCK FALSE
