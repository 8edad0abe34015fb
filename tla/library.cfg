CONSTANTS
  Size = 4
  Word = 64
  Chunk = 2
  Byte <- TinyChars
  CharArg <- TinyCharArgs
  IntBits = 5
  LongBits = 7
  BufferSize = 6
  Fields <- MCFields
  Platforms <- MCPlatforms
  StateTables <- MCStateTables
  Width = 4
  Image = {"fwu_fip", "bl2u", "ns_bl2u"}
  Device <- MCDevice
  MaxImages = 2
SPECIFICATION Spec
INVARIANT
  MemoryExact
  PrintfFields
  SnprintfBounded
  TreeConsistent
  QueriesExact
  OdometerComplete
  CompositeSound
  HandlesReturned
CHECK_DEADLOCK FALSE
