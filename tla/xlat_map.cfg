SPECIFICATION MmuFairSpec
CONSTANTS
  Word = 128
  PageSize = 2
  Entries = 4
  BaseEntries = 2
  BaseLevel = 1
  MinBlock = 1
  TablesNum = 5
  MmapNum = 3
  VaMax = 63
  PaMax = 107
  Regime = "EL1&0"
  Attr <- TinyAttr
  Calls <- SmallCalls
  RegBits = 7
  PaSizes <- Sizes
  PaRange = 3
  Archs = {"aarch64", "aarch32"}
  FlagSets = {{}}
INVARIANT
  ListConsistent
  LargestBlocks
  NoPanic
  HardwareAgrees
  ListingExact
PROPERTY
  NotOverwritten
  InitEnds
CHECK_DEADLOCK FALSE
