SPECIFICATION SpecDynamic
CONSTANTS
  Word = 32
  PageSize = 2
  Entries = 2
  BaseEntries = 2
  BaseLevel = 1
  MinBlock = 1
  TablesNum = 3
  MmapNum = 4
  VaMax = 15
  PaMax = 27
  Regime = "EL2"
  Attr <- DynAttr
  Calls <- DynCalls
  Requests <- DynRequests
  NewAttr <- NewAttributes
  MaxOps = 3
INVARIANT
  ListExact
  TableCounts
  MapFollowsList
  TlbFresh
PROPERTY
  OthersUndisturbed
CHECK_DEADLOCK FALSE
