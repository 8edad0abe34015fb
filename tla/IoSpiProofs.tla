----------------------------- MODULE IoSpiProofs -----------------------------
(***************************************************************************)
(* Proofs about IoSpi, for every size of the pool, of blocks and of the    *)
(* part, and every sequence of opens, closes, seeks, reads and writes: the *)
(* handle pool is consistent, and what a write reports is true.            *)
(***************************************************************************)
EXTENDS IoSpi, DivisionFacts, FiniteSetTheorems, TLAPS

\* The inductive invariant: the pool, and the types its steps rely on.  The
\* bound on entity_count in it is what makes "take the first free entity" safe.
PoolInv ==
  /\ entity_map \in [Entity -> BOOLEAN]
  /\ info \in [Entity -> BOOLEAN]
  /\ file.in_use \in BOOLEAN
  /\ file = [in_use |-> file.in_use, file_pos |-> file.file_pos]
  /\ PoolConsistent

\* The entities in use.
Used == {e \in Entity : entity_map[e]}

\* The pool is empty or holds exactly one entity, by its count.
LEMMA UsedCases ==
  ASSUME PoolInv
  PROVE  \/ entity_count = 0 /\ Used = {} /\ ~file.in_use
         \/ entity_count = 1 /\ file.in_use /\ \E h \in Entity : Used = {h}
<1>1. Entity = 0 .. MaxHandles - 1 /\ 0 \in Int /\ MaxHandles - 1 \in Int
  BY IoAssumption DEF Entity
<1>2. IsFiniteSet(Entity)
  BY <1>1, FS_Interval
<1>3. IsFiniteSet(Used)
  BY <1>2, FS_Subset DEF Used
<1>4. Cardinality(Used) \in Nat /\ (Cardinality(Used) = 0 <=> Used = {})
  BY <1>3, FS_CardinalityType, FS_EmptySet
<1>5. entity_count = Cardinality(Used) /\ entity_count <= 1
      /\ (file.in_use <=> entity_count = 1)
  BY DEF PoolInv, PoolConsistent, Used
<1>6. CASE entity_count = 0
  BY <1>4, <1>5, <1>6
<1>7. CASE entity_count = 1
  <2>1. \E x : Used = {x}
    BY <1>3, <1>5, <1>7, FS_Singleton
  <2>. QED  BY <1>5, <1>7, <2>1 DEF Used
<1>. QED  BY <1>4, <1>5, <1>6, <1>7

\* In an empty pool there is a first free entity.
LEMMA FirstFreeExists ==
  ASSUME PoolInv, Used = {}
  PROVE  FirstFree \in Entity
<1>1. 0 \in Entity /\ \A e \in Entity : 0 <= e
  BY IoAssumption DEF Entity
<1>2. \A e \in Entity : ~entity_map[e]
  BY DEF Used
<1>3. ~entity_map[0] /\ \A f \in Entity : ~entity_map[f] => 0 <= f
  BY <1>1, <1>2
<1>. QED  BY <1>1, <1>3 DEF FirstFree

\* io_open, alone or in rzg_io_setup.
LEMMA OpenPool == ASSUME PoolInv, Open PROVE PoolInv'
<1>1. CASE entity_count < MaxHandles /\ ~file.in_use
  <2>1. entity_count = 0 /\ Used = {}
    BY <1>1, UsedCases
  <2>2. PICK n \in Entity : n = FirstFree
    BY <2>1, FirstFreeExists
  <2>3. /\ entity_map' = [entity_map EXCEPT ![n] = TRUE]
        /\ info' = [info EXCEPT ![n] = TRUE]
        /\ entity_count' = entity_count + 1
        /\ handles' = handles \cup {n}
        /\ file'.in_use = TRUE
        /\ file' = [in_use |-> file'.in_use, file_pos |-> file'.file_pos]
    BY <1>1, <2>2 DEF Open
  <2>4. handles = {} /\ {e \in Entity : info[e]} = {}
    BY <2>1 DEF PoolInv, PoolConsistent, Used
  <2>5. Used' = {n} /\ {e \in Entity : info'[e]} = {n} /\ handles' = {n}
    BY <2>1, <2>3, <2>4 DEF Used, PoolInv
  <2>6. Cardinality({n}) = 1
    BY FS_Singleton
  <2>7. entity_map' \in [Entity -> BOOLEAN] /\ info' \in [Entity -> BOOLEAN]
    BY <2>3 DEF PoolInv
  <2>8. PoolConsistent'
    BY <2>1, <2>3, <2>5, <2>6 DEF PoolConsistent, Used
  <2>. QED  BY <2>3, <2>7, <2>8 DEF PoolInv
<1>2. CASE ~(entity_count < MaxHandles /\ ~file.in_use)
  BY <1>2 DEF Open, PoolInv, PoolConsistent
<1>. QED  BY <1>1, <1>2

\* io_close of a handle the program holds.
LEMMA ClosePool ==
  ASSUME PoolInv, NEW h \in Entity, IoClose(h) PROVE PoolInv'
<1>1. h \in Used /\ handles = Used /\ {e \in Entity : info[e]} = Used
  BY DEF IoClose, PoolInv, PoolConsistent, Used
<1>2. entity_count = 1 /\ Used = {h}
  BY <1>1, UsedCases
<1>3. /\ entity_map' = [entity_map EXCEPT ![h] = FALSE]
      /\ info' = [info EXCEPT ![h] = FALSE]
      /\ entity_count' = 0
      /\ handles' = handles \ {h}
      /\ file'.in_use = FALSE
      /\ file' = [in_use |-> file'.in_use, file_pos |-> file'.file_pos]
  BY <1>1, <1>2 DEF IoClose, Used, Closed
<1>4. Used' = {} /\ {e \in Entity : info'[e]} = {} /\ handles' = {}
  BY <1>1, <1>2, <1>3 DEF Used, PoolInv
<1>5. Cardinality({}) = 0
  BY FS_EmptySet
<1>6. PoolConsistent'
  BY <1>3, <1>4, <1>5 DEF PoolConsistent, Used
<1>7. entity_map' \in [Entity -> BOOLEAN] /\ info' \in [Entity -> BOOLEAN]
  BY <1>3 DEF PoolInv
<1>. QED  BY <1>3, <1>6, <1>7 DEF PoolInv

LEMMA PoolInit == Init => PoolInv
<1>. SUFFICES ASSUME Init PROVE PoolInv
  OBVIOUS
<1>1. {e \in Entity : entity_map[e]} = {} /\ {e \in Entity : info[e]} = {}
  BY DEF Init
<1>2. Cardinality({}) = 0
  BY FS_EmptySet
<1>. QED  BY <1>1, <1>2 DEF Init, PoolInv, PoolConsistent, Closed

\* The other operations move the cursor at most.
LEMMA PoolKept ==
  ASSUME PoolInv, entity_map' = entity_map, entity_count' = entity_count,
         info' = info, handles' = handles,
         file' = file \/ \E p : file' = [file EXCEPT !.file_pos = p]
  PROVE  PoolInv'
<1>1. /\ file'.in_use = file.in_use
      /\ file' = [in_use |-> file'.in_use, file_pos |-> file'.file_pos]
  <2>1. CASE file' = file
    BY <2>1 DEF PoolInv
  <2>2. ASSUME NEW p, file' = [file EXCEPT !.file_pos = p]
        PROVE  file' = [in_use |-> file.in_use, file_pos |-> p]
    BY <2>2 DEF PoolInv
  <2>. QED  BY <2>1, <2>2
<1>. QED  BY <1>1 DEF PoolInv, PoolConsistent

LEMMA PoolNext == PoolInv /\ [Next]_vars => PoolInv'
<1>. SUFFICES ASSUME PoolInv, [Next]_vars PROVE PoolInv'
  OBVIOUS
<1>1. CASE Setup
  <2>1. CASE dev_count < MaxDevices
    BY <1>1, <2>1, OpenPool DEF Setup
  <2>2. CASE ~(dev_count < MaxDevices)
    BY <1>1, <2>2, PoolKept DEF Setup, ioVars
  <2>. QED  BY <2>1, <2>2
<1>2. CASE IoOpen
  BY <1>2, OpenPool DEF IoOpen
<1>3. ASSUME NEW h \in Entity, IoClose(h) PROVE PoolInv'
  BY <1>3, ClosePool
<1>4. ASSUME NEW m \in {"SET", "END", "CUR"}, NEW o \in Offsets, Seek(m, o)
      PROVE  PoolInv'
  BY <1>4, PoolKept DEF Seek
<1>5. ASSUME NEW n \in Lengths, Read(n) PROVE PoolInv'
  BY <1>5, PoolKept DEF Read
<1>6. ASSUME NEW n \in Lengths, Write(n) PROVE PoolInv'
  BY <1>6, PoolKept DEF Write, ioVars
<1>7. CASE Writing
  <2>1. CASE WriteDone
    BY <2>1, PoolKept DEF WriteDone
  <2>2. CASE WriteBlock \/ BlockWritten \/ BlockRefused \/ FlashStep
    BY <2>2, PoolKept DEF WriteBlock, BlockWritten, BlockRefused, FlashStep, ioVars
  <2>. QED  BY <1>7, <2>1, <2>2 DEF Writing
<1>8. CASE UNCHANGED vars
  BY <1>8, PoolKept DEF vars, ioVars
<1>. QED  BY <1>1, <1>2, <1>3, <1>4, <1>5, <1>6, <1>7, <1>8 DEF Next

-----------------------------------------------------------------------------
\* An open that fails leaks nothing and a close leaves nothing behind, for
\* every MAX_IO_HANDLES: the pool, its count, current_file and the handles the
\* program holds always agree (io_open, io_close, flash_open, flash_close).
THEOREM PoolAlwaysConsistent == Spec => []PoolConsistent
<1>1. PoolInv => PoolConsistent
  BY DEF PoolInv
<1>. QED  BY <1>1, PoolInit, PoolNext, PTL DEF Spec

-----------------------------------------------------------------------------
(***************************************************************************)
(* What io_write reports is in the flash, and what lies outside its range  *)
(* is as it was, whatever an erase past the end of the part hits.          *)
(***************************************************************************)

FlashAddr == 0 .. FlashSize - 1

WrFields ==
  [start : Nat, len : Nat, file_pos : Nat, length : Nat, chunk : Nat, written : Nat]

Shape ==
  /\ pc \in {"idle", "loop", "block", "fault"}
  /\ wr \in WrFields /\ file.file_pos \in Nat
  /\ op.ret # "none" => op.ph = "idle"
  /\ file = [in_use |-> file.in_use, file_pos |-> file.file_pos]
  /\ sec = [s \in Sector |-> sec[s]]
  /\ op = [ph |-> op.ph, blk |-> op.blk, data |-> op.data, ret |-> op.ret]

Reporting == res \in {"written", "failed"}

\* The cursors of flash_write: only the first block is begun in its middle, and no
\* address wraps around.
Cursors ==
  /\ wr.file_pos = wr.start + wr.written /\ wr.file_pos <= FlashSize
  /\ wr.len = wr.written + wr.length
  /\ wr.written > 0 /\ wr.length > 0 => wr.file_pos % BlockSize = 0

\* Between blocks: what is promised of the whole write holds of what is written so far.
Settled ==
  /\ \A i \in 0 .. wr.written - 1 :
       CellAt(sec, wr.start + i) = Data(writes, i) \/ Wrapped(wr.start + i)
  /\ IF wr.written = 0 THEN sec = before
     ELSE \A a \in FlashAddr :
            Exposed(a) \/ CellAt(sec, a) = CellAt(before, a) \/ Wrapped(a)

\* The erase after the last sector of the part may have come around to cell a.
Hit(a) == op.blk = NSectors - 1 /\ a \div BlockSize \in PastEnd

Offset == wr.file_pos % BlockSize

\* The copy of the block has the caller's cells, and in front of them what was there; in
\* the first block also behind them.
BlockData ==
  \A c \in 0 .. BlockSize - 1 :
    /\ c - Offset \in 0 .. wr.chunk - 1 => op.data[c] = Data(writes, wr.written + (c - Offset))
    /\ c < Offset => op.data[c] = before[op.blk][c]
    /\ wr.written = 0 /\ c >= Offset + wr.chunk => op.data[c] = before[op.blk][c]

\* Inside a block: the blocks before it are as they should be, and those after the next
\* one as they were.
Underway ==
  /\ op.blk < NSectors /\ BlockData
  /\ IF op.ph = "idle" THEN op.ret = "ok" /\ sec[op.blk] = op.data ELSE op.ret = "none"
  /\ \A i \in 0 .. wr.written - 1 :
       CellAt(sec, wr.start + i) = Data(writes, i) \/ Hit(wr.start + i)
  /\ \A a \in FlashAddr :
       (a \div BlockSize < op.blk /\ a < wr.start) \/ a \div BlockSize > op.blk + 1 =>
         CellAt(sec, a) = CellAt(before, a) \/ Hit(a)

InBlock ==
  /\ op.blk = Block /\ wr.chunk = Chunk /\ wr.length > 0
  /\ (op.ph = "idle" /\ op.ret = "ng" /\ Settled) \/ Underway

\* What holds of a write that begins in the part.
Promised ==
  /\ pc \in {"loop", "block"} \/ Reporting => Cursors
  /\ pc = "loop" \/ Reporting => Settled
  /\ pc = "block" => InBlock

\* And of every write.
Ordered ==
  /\ Shape
  /\ pc # "block" => op.ph = "idle"
  /\ pc = "block" => wr.chunk = Chunk /\ wr.length > 0
  /\ pc \in {"loop", "block"} => res = "none"
  /\ res = "written" => wr.length = 0

WriteInv == Ordered /\ (InPart => Promised)

-----------------------------------------------------------------------------
(* Addresses.                                                                *)

LEMMA FlashFacts ==
  /\ BlockSize \in Nat \ {0} /\ NSectors \in Nat \ {0}
  /\ Word \in Nat \ {0} /\ AddrWord \in Nat \ {0} /\ AddrWord <= Word
  /\ FlashSize \in Nat /\ FlashSize = BlockSize * NSectors
  /\ FlashSize < AddrWord /\ NSectors < TopBlock
<1>1. BlockSize \in Nat \ {0} /\ NSectors \in Nat \ {0}
  BY IoAssumption, StoreAssumption
<1>2. FlashSize \in Nat /\ FlashSize = BlockSize * NSectors
  BY <1>1 DEF FlashSize
<1>3. AddrWord \in Nat /\ 2 * FlashSize < AddrWord
  <2>1. Base \in Nat /\ AddrWord \in Nat /\ Base + 2 * FlashSize < AddrWord
    BY IoAssumption
  <2>. QED  BY <1>2, <2>1
<1>4. AddrWord # 0 /\ FlashSize < AddrWord
  BY <1>2, <1>3
<1>5. Word \in Nat /\ AddrWord <= Word
  <2>1. PICK k \in 1 .. Word : Word = k * AddrWord
    BY IoAssumption
  <2>2. Word \in Nat
    BY IoAssumption
  <2>3. k * AddrWord = (k - 1) * AddrWord + AddrWord /\ (k - 1) * AddrWord \in Nat
    BY <1>3, <2>1, <2>2
  <2>. QED  BY <1>3, <2>1, <2>2, <2>3
<1>6. NSectors < TopBlock
  <2>1. PICK k \in 1 .. AddrWord : AddrWord = k * BlockSize
    BY IoAssumption
  <2>2. k \in Int /\ AddrWord = BlockSize * k
    BY <1>1, <1>3, <2>1
  <2>3. AddrWord \div BlockSize = k
    BY <1>1, <2>2, Multiple
  <2>4. 2 * FlashSize = BlockSize * (2 * NSectors) /\ 2 * NSectors \in Int
    BY <1>1, <1>2
  <2>5. (2 * FlashSize) \div BlockSize = 2 * NSectors
    BY <1>1, <2>4, Multiple
  <2>6. 2 * NSectors < k
    BY <1>1, <1>2, <1>3, <2>2, <2>5, BelowMultiple
  <2>. QED  BY <1>1, <2>2, <2>3, <2>6 DEF TopBlock
<1>. QED  BY <1>1, <1>2, <1>3, <1>4, <1>5, <1>6

\* In the part an address reaches the driver as it is.
LEMMA PlainAddress ==
  ASSUME Shape, wr.file_pos <= FlashSize
  PROVE  /\ Block = wr.file_pos \div BlockSize /\ Block \in Nat
         /\ Block <= NSectors /\ Block # TopBlock
<1>1. wr.file_pos \in 0 .. AddrWord - 1
  BY FlashFacts DEF Shape, WrFields
<1>2. wr.file_pos % AddrWord = wr.file_pos
  BY <1>1, FlashFacts
<1>3. Block = wr.file_pos \div BlockSize
  BY <1>2 DEF Block
<1>4. Block \in Nat
  BY <1>1, <1>3, FlashFacts
<1>5. (BlockSize * NSectors) \div BlockSize = NSectors
  BY FlashFacts, Multiple
<1>6. Block <= NSectors
  BY <1>1, <1>3, <1>5, FlashFacts, DivMonotonic
<1>. QED  BY <1>3, <1>4, <1>6, FlashFacts

LEMMA CellFacts ==
  ASSUME NEW a \in FlashAddr
  PROVE  /\ a \in Nat /\ a \div BlockSize \in Sector /\ a % BlockSize \in 0 .. BlockSize - 1
         /\ a = BlockSize * (a \div BlockSize) + (a % BlockSize)
<1>1. a \in Nat /\ a < BlockSize * NSectors
  BY FlashFacts DEF FlashAddr
<1>2. /\ a \div BlockSize \in Int /\ a % BlockSize \in 0 .. BlockSize - 1
      /\ a = BlockSize * (a \div BlockSize) + (a % BlockSize)
  BY <1>1, FlashFacts, Division
<1>3. a \div BlockSize < NSectors
  BY <1>1, FlashFacts, BelowMultiple
<1>4. a \div BlockSize >= 0
  BY <1>1, FlashFacts
<1>. QED  BY <1>1, <1>2, <1>3, <1>4, FlashFacts DEF Sector

\* How much of the block is written.
LEMMA ChunkSize ==
  ASSUME Shape, wr.length > 0
  PROVE  /\ Offset \in 0 .. BlockSize - 1 /\ RestOfBlock = BlockSize - Offset
         /\ Chunk \in Nat /\ 0 < Chunk /\ Chunk <= wr.length /\ Offset + Chunk <= BlockSize
<1>1. wr.file_pos \in Nat /\ wr.length \in Nat /\ BlockSize \in Nat \ {0}
  BY FlashFacts DEF Shape, WrFields
<1>2. Offset \in 0 .. BlockSize - 1
  BY <1>1 DEF Offset
<1>3. RestOfBlock = BlockSize - Offset
  BY DEF RestOfBlock, Offset
<1>. QED  BY <1>1, <1>2, <1>3 DEF Chunk

\* Where the cursor stands in the part.
LEMMA ChunkFacts ==
  ASSUME Shape, wr.length > 0, wr.file_pos <= FlashSize
  PROVE  /\ Block \in Nat /\ Offset \in 0 .. BlockSize - 1
         /\ wr.file_pos = BlockSize * Block + Offset
         /\ Chunk \in Nat /\ 0 < Chunk /\ Chunk <= wr.length /\ Offset + Chunk <= BlockSize
         /\ Chunk < wr.length => (wr.file_pos + Chunk) % BlockSize = 0
<1>1. wr.file_pos \in Nat /\ wr.length \in Nat /\ BlockSize \in Nat \ {0}
  BY FlashFacts DEF Shape, WrFields
<1>2. Block \in Nat /\ wr.file_pos = BlockSize * Block + Offset
  <2>1. wr.file_pos \in Int
    BY <1>1
  <2>2. Block \in Nat /\ Block = wr.file_pos \div BlockSize
    BY PlainAddress
  <2>3. wr.file_pos = BlockSize * (wr.file_pos \div BlockSize) + (wr.file_pos % BlockSize)
    BY <1>1, <2>1, Division, Zenon
  <2>. QED  BY <2>2, <2>3 DEF Offset
<1>3. /\ Offset \in 0 .. BlockSize - 1 /\ RestOfBlock = BlockSize - Offset
      /\ Chunk \in Nat /\ 0 < Chunk /\ Chunk <= wr.length /\ Offset + Chunk <= BlockSize
  BY ChunkSize
<1>4. ASSUME Chunk < wr.length PROVE (wr.file_pos + Chunk) % BlockSize = 0
  <2>1. Chunk = BlockSize - Offset
    BY <1>1, <1>3, <1>4 DEF Chunk
  <2>2. wr.file_pos + Chunk = BlockSize * (Block + 1)
    BY <1>1, <1>2, <1>3, <2>1
  <2>3. (BlockSize * (Block + 1)) % BlockSize = 0
    BY <1>1, <1>2, Multiple
  <2>. QED  BY <2>2, <2>3
<1>. QED  BY <1>2, <1>3, <1>4

LEMMA ChunkCell ==
  ASSUME Shape, wr.length > 0, wr.file_pos <= FlashSize, NEW j \in 0 .. Chunk - 1
  PROVE  /\ (wr.file_pos + j) \div BlockSize = Block
         /\ (wr.file_pos + j) % BlockSize = Offset + j
<1>1. wr.file_pos \in Int /\ BlockSize \in Nat \ {0} /\ j \in Nat
  BY FlashFacts, ChunkFacts DEF Shape, WrFields
<1>2. (wr.file_pos % BlockSize) + j < BlockSize
  BY <1>1, ChunkFacts DEF Offset
<1>3. Block = wr.file_pos \div BlockSize
  BY PlainAddress
<1>. QED  BY <1>1, <1>2, <1>3, SameBlock DEF Offset

\* What is written so far lies in the blocks before the one at the cursor.
LEMMA WrittenBefore ==
  ASSUME Shape, Cursors, wr.length > 0, wr.written > 0
  PROVE  /\ wr.file_pos = BlockSize * Block /\ LastSector = Block - 1
         /\ \A i \in 0 .. wr.written - 1 :
              (wr.start + i) \div BlockSize \in Nat /\ (wr.start + i) \div BlockSize < Block
<1>1. /\ wr.file_pos \in Nat /\ wr.start \in Nat /\ wr.written \in Nat
      /\ wr.file_pos = wr.start + wr.written
      /\ BlockSize \in Nat \ {0} /\ Block \in Nat
  BY FlashFacts, ChunkFacts DEF Shape, WrFields, Cursors
<1>2. wr.file_pos = BlockSize * Block
  BY <1>1, ChunkFacts DEF Cursors, Offset
<1>3. LastSector = Block - 1
  <2>1. wr.start + wr.written - 1 = BlockSize * (Block - 1) + (BlockSize - 1)
    <3>1. BlockSize * (Block - 1) = BlockSize * Block - BlockSize /\ BlockSize * Block \in Int
      BY <1>1
    <3>. QED  BY <1>1, <1>2, <3>1
  <2>2. (BlockSize * (Block - 1) + (BlockSize - 1)) \div BlockSize = Block - 1
    <3>1. Block - 1 \in Int /\ BlockSize - 1 \in 0 .. BlockSize - 1
      BY <1>1
    <3>. QED  BY <1>1, <3>1, DivisionUnique, Zenon
  <2>. QED  BY <2>1, <2>2 DEF LastSector
<1>4. ASSUME NEW i \in 0 .. wr.written - 1
      PROVE  (wr.start + i) \div BlockSize \in Nat /\ (wr.start + i) \div BlockSize < Block
  <2>1. wr.start + i \in Nat /\ wr.start + i < BlockSize * Block
    BY <1>1, <1>2
  <2>2. (wr.start + i) \div BlockSize < Block
    BY <1>1, <2>1, BelowMultiple
  <2>3. (wr.start + i) \div BlockSize \in Int /\ (wr.start + i) \div BlockSize >= 0
    BY <1>1, <2>1
  <2>. QED  BY <2>2, <2>3
<1>. QED  BY <1>2, <1>3, <1>4

-----------------------------------------------------------------------------
(* The steps.                                                                *)

\* A step of the driver changes the block, the one after it or, past the end, what the
\* part makes of the address; at the end the block has the copy.
LEMMA StoreStepFacts ==
  ASSUME Shape, Underway, op.blk \in Nat, StoreStep
  PROVE  /\ op.ph # "idle" /\ op'.blk = op.blk /\ op'.data = op.data
         /\ op' = [ph |-> op'.ph, blk |-> op'.blk, data |-> op'.data, ret |-> op'.ret]
         /\ sec' = [s \in Sector |-> sec'[s]]
         /\ IF op'.ph = "idle" THEN op'.ret = "ok" /\ sec'[op.blk] = op.data ELSE op'.ret = "none"
         /\ \A s \in Sector :
              \/ s = op.blk \/ s = op.blk + 1 \/ (op.blk = NSectors - 1 /\ s \in PastEnd)
              \/ sec'[s] = sec[s]
<1>1. op.blk \in Sector /\ sec = [s \in Sector |-> sec[s]]
  <2>1. op.blk \in Sector
    BY FlashFacts DEF Underway, Sector
  <2>2. sec = [s \in Sector |-> sec[s]]
    BY DEF Shape
  <2>. QED  BY <2>1, <2>2
<1>2. op = [ph |-> op.ph, blk |-> op.blk, data |-> op.data, ret |-> op.ret]
  BY DEF Shape
<1>3. CASE EraseTarget
  <2>1. op' = [ph |-> "eraseNext", blk |-> op.blk, data |-> op.data, ret |-> op.ret]
    BY <1>2, <1>3 DEF EraseTarget
  <2>2. op.ph = "eraseTarget" /\ sec' = [sec EXCEPT ![op.blk] = Erased]
    BY <1>3 DEF EraseTarget
  <2>3. op.ret = "none"
    BY <2>2 DEF Underway
  <2>. QED  BY <1>1, <2>1, <2>2, <2>3
<1>4. CASE EraseNext
  <2>1. op' = [ph |-> "program", blk |-> op.blk, data |-> op.data, ret |-> op.ret]
    BY <1>2, <1>4 DEF EraseNext
  <2>2. PICK t \in NextSector(op.blk) : sec' = [s \in Sector |-> IF s = t THEN Erased ELSE sec[s]]
    BY <1>4 DEF EraseNext
  <2>3. op.ph = "eraseNext" /\ op.ret = "none"
    BY <1>4 DEF EraseNext, Underway
  <2>4. t = op.blk + 1 \/ (op.blk = NSectors - 1 /\ t \in PastEnd)
    BY FlashFacts DEF NextSector, Underway
  <2>. QED  BY <1>1, <2>1, <2>2, <2>3, <2>4
<1>5. CASE Program
  <2>1. op' = [ph |-> "idle", blk |-> op.blk, data |-> op.data, ret |-> "ok"]
    BY <1>2, <1>5 DEF Program
  <2>2. op.ph = "program" /\ sec' = [sec EXCEPT ![op.blk] = op.data]
    BY <1>5 DEF Program
  <2>. QED  BY <1>1, <2>1, <2>2
<1>. QED  BY <1>3, <1>4, <1>5 DEF StoreStep

LEMMA FlashStepOrdered == ASSUME Ordered, FlashStep PROVE Ordered'
<1>1. /\ StoreStep /\ pc' = pc /\ wr' = wr /\ res' = res /\ file' = file
  BY DEF FlashStep, ioVars
<1>2. pc = "block" /\ op.ret = "none"
  BY <1>1 DEF StoreStep, EraseTarget, EraseNext, Program, Ordered, Shape
<1>3. /\ sec' = [s \in Sector |-> sec'[s]]
      /\ op' = [ph |-> op'.ph, blk |-> op'.blk, data |-> op'.data, ret |-> op'.ret]
      /\ op'.ret # "none" => op'.ph = "idle"
  <2>1. CASE EraseTarget
    BY <1>2, <2>1 DEF EraseTarget, Ordered, Shape
  <2>2. CASE EraseNext
    BY <1>2, <2>2 DEF EraseNext, Ordered, Shape
  <2>3. CASE Program
    BY <1>2, <2>3 DEF Program, Ordered, Shape
  <2>. QED  BY <1>1, <2>1, <2>2, <2>3 DEF StoreStep
<1>4. Shape'
  BY <1>1, <1>3 DEF Ordered, Shape
<1>5. Chunk' = Chunk
  BY <1>1 DEF Chunk, RestOfBlock
<1>. QED  BY <1>1, <1>2, <1>4, <1>5 DEF Ordered

LEMMA FlashStepWrite == ASSUME WriteInv, InPart, FlashStep PROVE Promised'
<1>1. /\ StoreStep /\ pc' = pc /\ wr' = wr /\ res' = res /\ before' = before
      /\ writes' = writes /\ file' = file
  BY DEF FlashStep, ioVars
<1>2. op.ph # "idle"
  BY <1>1 DEF StoreStep, EraseTarget, EraseNext, Program
<1>3. pc = "block" /\ Shape /\ Cursors /\ InBlock /\ Underway /\ res = "none"
  BY <1>2 DEF WriteInv, Ordered, Promised, InBlock
<1>4. op.blk = Block /\ wr.length > 0 /\ Block \in Nat /\ wr.written \in Nat
  BY <1>3, ChunkFacts DEF InBlock, Shape, WrFields, Cursors
<1>5. /\ op'.blk = op.blk /\ op'.data = op.data
      /\ op' = [ph |-> op'.ph, blk |-> op'.blk, data |-> op'.data, ret |-> op'.ret]
      /\ sec' = [s \in Sector |-> sec'[s]]
      /\ IF op'.ph = "idle" THEN op'.ret = "ok" /\ sec'[op.blk] = op.data ELSE op'.ret = "none"
  BY <1>1, <1>3, <1>4, StoreStepFacts
<1>6. \A s \in Sector :
        \/ s = op.blk \/ s = op.blk + 1 \/ (op.blk = NSectors - 1 /\ s \in PastEnd)
        \/ sec'[s] = sec[s]
  BY <1>1, <1>3, <1>4, StoreStepFacts
<1>8. ASSUME NEW i \in 0 .. wr.written - 1
      PROVE  CellAt(sec', wr.start + i) = Data(writes, i) \/ Hit(wr.start + i)
  <2>. DEFINE s == (wr.start + i) \div BlockSize
  <2>1. s \in Nat /\ s < op.blk
    BY <1>3, <1>4, WrittenBefore
  <2>. HIDE DEF s
  <2>2. s \in Sector /\ s # op.blk /\ s # op.blk + 1
    BY <1>3, <1>4, <2>1, FlashFacts DEF Sector, Underway
  <2>3. CellAt(sec, wr.start + i) = Data(writes, i) \/ Hit(wr.start + i)
    BY <1>3 DEF Underway
  <2>4. (op.blk = NSectors - 1 /\ s \in PastEnd) \/ sec'[s] = sec[s]
    BY <1>6, <2>2
  <2>. QED  BY <2>3, <2>4 DEF CellAt, Hit, s
<1>9. ASSUME NEW a \in FlashAddr,
             (a \div BlockSize < op.blk /\ a < wr.start) \/ a \div BlockSize > op.blk + 1
      PROVE  CellAt(sec', a) = CellAt(before, a) \/ Hit(a)
  <2>. DEFINE s == a \div BlockSize
  <2>1. s \in Sector
    BY CellFacts
  <2>2. s # op.blk /\ s # op.blk + 1
    BY <1>4, <1>9, <2>1, FlashFacts DEF Sector
  <2>3. CellAt(sec, a) = CellAt(before, a) \/ Hit(a)
    BY <1>3, <1>9 DEF Underway
  <2>. HIDE DEF s
  <2>4. (op.blk = NSectors - 1 /\ s \in PastEnd) \/ sec'[s] = sec[s]
    BY <1>6, <2>1, <2>2
  <2>. QED  BY <2>3, <2>4 DEF CellAt, Hit, s
<1>10. BlockData' /\ Block' = Block /\ Chunk' = Chunk /\ Cursors'
  BY <1>1, <1>3, <1>5 DEF Underway, BlockData, Offset, Block, Chunk, RestOfBlock, Cursors
<1>11. Underway'
  BY <1>1, <1>3, <1>5, <1>8, <1>9, <1>10 DEF Underway, Hit, CellAt
<1>12. InBlock'
  BY <1>1, <1>3, <1>5, <1>10, <1>11 DEF InBlock
<1>. QED  BY <1>1, <1>3, <1>10, <1>12 DEF Promised, Reporting

\* flash_write begins a block: what is settled so far holds under way as well.
LEMMA WriteBlockOrdered == ASSUME Ordered, WriteBlock PROVE Ordered'
<1>1. /\ pc = "loop" /\ wr.length > 0 /\ Shape /\ res = "none" /\ op.ph = "idle"
      /\ res' = res /\ file' = file /\ sec' = sec
  BY DEF WriteBlock, Ordered, ioVars, StartBlock, StartWrite, StartAtTop
<1>2. CASE Chunk < BlockSize /\ Block \notin Sector \cup Readable
  <2>1. pc' = "fault" /\ op' = op /\ wr' = wr
    BY <1>2 DEF WriteBlock
  <2>. QED  BY <1>1, <2>1 DEF Ordered, Shape
<1>3. CASE ~(Chunk < BlockSize /\ Block \notin Sector \cup Readable)
  <2>. DEFINE d == Patched(IF Block < NSectors THEN sec[Block] ELSE Erased)
  <2>1. wr' = [wr EXCEPT !.chunk = Chunk] /\ pc' = "block" /\ StartBlock(Block, d)
    BY <1>3 DEF WriteBlock
  <2>2. /\ op' = [ph |-> op'.ph, blk |-> op'.blk, data |-> op'.data, ret |-> op'.ret]
        /\ op'.ret # "none" => op'.ph = "idle"
    BY <2>1 DEF StartBlock, StartWrite, StartAtTop
  <2>3. Chunk \in Nat
    BY <1>1, ChunkSize
  <2>4. wr' \in WrFields /\ wr'.chunk = Chunk /\ wr'.file_pos = wr.file_pos /\ wr'.length = wr.length
    BY <1>1, <2>1, <2>3 DEF Shape, WrFields
  <2>5. Chunk' = Chunk
    BY <2>4 DEF Chunk, RestOfBlock
  <2>6. Shape'
    BY <1>1, <2>1, <2>2, <2>4 DEF Shape
  <2>. QED  BY <1>1, <2>1, <2>4, <2>5, <2>6 DEF Ordered
<1>. QED  BY <1>2, <1>3

LEMMA WriteBlockWrite == ASSUME WriteInv, InPart, WriteBlock PROVE Promised'
<1>1. /\ pc = "loop" /\ wr.length > 0 /\ Shape /\ Cursors /\ Settled /\ res = "none" /\ op.ph = "idle"
      /\ res' = res /\ before' = before /\ writes' = writes /\ file' = file /\ sec' = sec
  BY DEF WriteBlock, WriteInv, Ordered, Promised, ioVars, StartBlock, StartWrite, StartAtTop
<1>2. CASE Chunk < BlockSize /\ Block \notin Sector \cup Readable
  <2>1. pc' = "fault" /\ op' = op /\ wr' = wr
    BY <1>2 DEF WriteBlock
  <2>. QED  BY <1>1, <2>1 DEF Promised, Reporting
<1>3. CASE ~(Chunk < BlockSize /\ Block \notin Sector \cup Readable)
  <2>. DEFINE d == Patched(IF Block < NSectors THEN sec[Block] ELSE Erased)
  <2>0. Block # TopBlock
    BY <1>1, PlainAddress DEF Cursors
  <2>1. /\ wr' = [wr EXCEPT !.chunk = Chunk] /\ pc' = "block"
        /\ op' = [ph   |-> IF Block < NSectors THEN "eraseTarget" ELSE "idle",
                  blk  |-> Block, data |-> d,
                  ret  |-> IF Block < NSectors THEN "none" ELSE "ng"]
    BY <1>3, <2>0 DEF WriteBlock, StartBlock, StartWrite
  <2>2. /\ Block \in Nat /\ Offset \in 0 .. BlockSize - 1 /\ Chunk \in Nat
        /\ wr.file_pos = BlockSize * Block + Offset /\ wr.written \in Nat
        /\ BlockSize \in Nat \ {0} /\ NSectors \in Nat \ {0}
    BY <1>1, ChunkFacts, FlashFacts DEF Shape, WrFields, Cursors
  <2>3. /\ wr' \in WrFields /\ wr'.chunk = Chunk /\ wr'.start = wr.start /\ wr'.len = wr.len
        /\ wr'.file_pos = wr.file_pos /\ wr'.length = wr.length /\ wr'.written = wr.written
    BY <1>1, <2>1, <2>2 DEF Shape, WrFields
  <2>4. /\ Block' = Block /\ Chunk' = Chunk /\ Offset' = Offset /\ LastSector' = LastSector
        /\ FirstSector' = FirstSector /\ Cursors'
    BY <1>1, <2>3 DEF Block, Chunk, RestOfBlock, Offset, LastSector, FirstSector, Cursors
  <2>6. Settled'
    BY <1>1, <2>3, <2>4 DEF Settled, Exposed, Wrapped, CellAt
  <2>7. CASE ~(Block < NSectors)
    <3>1. op'.ph = "idle" /\ op'.ret = "ng" /\ op'.blk = Block
      BY <2>1, <2>7
    <3>2. InBlock'
      BY <1>1, <2>3, <2>4, <2>6, <3>1 DEF InBlock
    <3>. QED  BY <1>1, <2>1, <2>4, <3>2 DEF Promised, Reporting
  <2>8. CASE Block < NSectors
    <3>1. op'.ph = "eraseTarget" /\ op'.ret = "none" /\ op'.blk = Block /\ op'.data = Patched(sec[Block])
      BY <2>1, <2>8
    <3>2. wr.written > 0 =>
            /\ wr.file_pos = BlockSize * Block /\ LastSector = Block - 1
            /\ \A i \in 0 .. wr.written - 1 :
                 (wr.start + i) \div BlockSize \in Nat /\ (wr.start + i) \div BlockSize < Block
      BY <1>1, WrittenBefore
    <3>3. wr.written > 0 => \A a : ~Wrapped(a)
      BY <2>2, <2>8, <3>2 DEF Wrapped
    <3>4. BlockData'
      <4>1. ASSUME NEW c \in 0 .. BlockSize - 1, c - Offset \in 0 .. Chunk - 1
            PROVE  Patched(sec[Block])[c] = Data(writes, wr.written + (c - Offset))
        BY <4>1 DEF Patched, Buffer, Offset
      <4>2. ASSUME NEW c \in 0 .. BlockSize - 1, c < Offset
            PROVE  Patched(sec[Block])[c] = before[Block][c]
        <5>1. wr.file_pos % BlockSize # 0
          BY <2>2, <4>2 DEF Offset
        <5>2. wr.written = 0
          BY <1>1, <2>2, <5>1 DEF Cursors
        <5>3. sec = before
          BY <1>1, <5>2 DEF Settled
        <5>4. ~(c - Offset \in 0 .. Chunk - 1)
          BY <2>2, <4>2
        <5>. QED  BY <5>3, <5>4 DEF Patched, Offset
      <4>3. ASSUME NEW c \in 0 .. BlockSize - 1, wr.written = 0, c >= Offset + Chunk
            PROVE  Patched(sec[Block])[c] = before[Block][c]
        <5>1. sec = before
          BY <1>1, <4>3 DEF Settled
        <5>2. ~(c - Offset \in 0 .. Chunk - 1)
          BY <2>2, <4>3
        <5>. QED  BY <5>1, <5>2 DEF Patched, Offset
      <4>. QED  BY <1>1, <2>3, <2>4, <3>1, <4>1, <4>2, <4>3 DEF BlockData
    <3>5. ASSUME NEW i \in 0 .. wr.written - 1
          PROVE  CellAt(sec, wr.start + i) = Data(writes, i)
      <4>1. wr.written > 0
        BY <2>2
      <4>. QED  BY <1>1, <3>3, <4>1 DEF Settled
    <3>6. ASSUME NEW a \in FlashAddr,
                 (a \div BlockSize < Block /\ a < wr.start) \/ a \div BlockSize > Block + 1
          PROVE  CellAt(sec, a) = CellAt(before, a)
      <4>1. CASE wr.written = 0
        BY <1>1, <4>1 DEF Settled
      <4>2. CASE wr.written # 0
        <5>1. wr.written > 0 /\ wr.start \in Nat /\ a \in Nat /\ a \div BlockSize \in Int
          BY <1>1, <2>2, <4>2, CellFacts DEF Shape, WrFields, Sector
        <5>2. ~(a \in wr.start .. wr.start + wr.written - 1)
          <6>1. SUFFICES ASSUME a \in wr.start .. wr.start + wr.written - 1 PROVE FALSE
            OBVIOUS
          <6>2. a - wr.start \in 0 .. wr.written - 1 /\ wr.start + (a - wr.start) = a
            BY <2>2, <5>1, <6>1
          <6>3. a \div BlockSize < Block
            BY <3>2, <5>1, <6>2
          <6>. QED  BY <2>2, <3>6, <5>1, <6>1, <6>3
        <5>3. ~(FirstSector < LastSector /\ a \div BlockSize = LastSector)
          <6>1. SUFFICES ASSUME FirstSector < LastSector, a \div BlockSize = LastSector PROVE FALSE
            OBVIOUS
          <6>2. a < wr.start
            BY <2>2, <3>2, <3>6, <5>1, <6>1
          <6>3. a \div BlockSize <= FirstSector
            BY <2>2, <5>1, <6>2, DivMonotonic DEF FirstSector
          <6>4. FirstSector \in Int /\ LastSector \in Int
            BY <2>2, <3>2, <5>1 DEF FirstSector
          <6>. QED  BY <6>1, <6>3, <6>4
        <5>4. ~Exposed(a)
          BY <2>2, <3>2, <3>6, <5>1, <5>2, <5>3 DEF Exposed
        <5>. QED  BY <1>1, <3>3, <4>2, <5>1, <5>4 DEF Settled
      <4>. QED  BY <4>1, <4>2
    <3>7. Underway'
      BY <1>1, <2>3, <2>8, <3>1, <3>4, <3>5, <3>6 DEF Underway, CellAt
    <3>8. InBlock'
      BY <1>1, <2>3, <2>4, <3>1, <3>7 DEF InBlock
    <3>. QED  BY <1>1, <2>1, <2>4, <3>1, <3>8 DEF Promised, Reporting
  <2>. QED  BY <2>7, <2>8
<1>. QED  BY <1>2, <1>3

\* A block is written: it joins what is settled.
LEMMA BlockWrittenOrdered == ASSUME Ordered, BlockWritten PROVE Ordered'
<1>1. /\ pc = "block" /\ op.ret = "ok" /\ Shape /\ res = "none" /\ wr.chunk = Chunk /\ wr.length > 0
      /\ res' = res /\ file' = file /\ sec' = sec /\ op' = op /\ pc' = "loop"
      /\ wr' = [wr EXCEPT !.file_pos = (@ + wr.chunk) % Word, !.written = @ + wr.chunk,
                          !.length = @ - wr.chunk]
  BY DEF BlockWritten, Ordered, ioVars
<1>2. /\ Chunk \in Nat /\ Chunk <= wr.length /\ wr.length \in Nat /\ wr.written \in Nat
      /\ wr.file_pos \in Nat /\ Word \in Nat \ {0}
  BY <1>1, ChunkSize, FlashFacts DEF Shape, WrFields
<1>3. (wr.file_pos + Chunk) % Word \in Nat
  BY <1>2
<1>4. wr.written + Chunk \in Nat /\ wr.length - Chunk \in Nat
  BY <1>2
<1>5. wr' \in WrFields
  BY <1>1, <1>3, <1>4 DEF Shape, WrFields
<1>6. op.ph = "idle"
  BY <1>1 DEF Shape
<1>. QED  BY <1>1, <1>5, <1>6 DEF Ordered, Shape

LEMMA BlockWrittenWrite == ASSUME WriteInv, InPart, BlockWritten PROVE Promised'
<1>1. /\ pc = "block" /\ op.ret = "ok" /\ Shape /\ Cursors /\ InBlock /\ res = "none"
      /\ res' = res /\ before' = before /\ writes' = writes /\ file' = file /\ sec' = sec /\ op' = op
      /\ pc' = "loop"
      /\ wr' = [wr EXCEPT !.file_pos = (@ + wr.chunk) % Word, !.written = @ + wr.chunk,
                          !.length = @ - wr.chunk]
  BY DEF BlockWritten, WriteInv, Ordered, Promised, ioVars
<1>2. /\ Underway /\ op.ph = "idle" /\ sec[op.blk] = op.data /\ BlockData
      /\ op.blk = Block /\ wr.chunk = Chunk /\ wr.length > 0 /\ Block < NSectors
  BY <1>1 DEF InBlock, Underway
<1>3. /\ Block \in Nat /\ Offset \in 0 .. BlockSize - 1 /\ Chunk \in Nat /\ Chunk > 0
      /\ Chunk <= wr.length /\ Offset + Chunk <= BlockSize
      /\ wr.file_pos = BlockSize * Block + Offset /\ wr.file_pos = wr.start + wr.written
      /\ wr.written \in Nat /\ wr.start \in Nat /\ wr.length \in Nat /\ wr.file_pos \in Nat
      /\ BlockSize \in Nat \ {0} /\ NSectors \in Nat \ {0}
  BY <1>1, <1>2, ChunkFacts, FlashFacts DEF Shape, WrFields, Cursors
<1>3a. wr.file_pos + Chunk <= FlashSize /\ (wr.file_pos + Chunk) % Word = wr.file_pos + Chunk
  <2>1. wr.file_pos + Chunk <= BlockSize * Block + BlockSize
    <3>1. BlockSize * Block \in Int
      BY <1>3
    <3>. QED  BY <1>3, <3>1
  <2>2. BlockSize * Block + BlockSize <= BlockSize * NSectors
    <3>1. ~(BlockSize * NSectors < BlockSize * (Block + 1))
      <4>1. BlockSize * NSectors \in Int /\ (BlockSize * NSectors) \div BlockSize = NSectors
        BY <1>3, Multiple
      <4>. QED  BY <1>2, <1>3, <4>1, BelowMultiple
    <3>2. BlockSize * (Block + 1) = BlockSize * Block + BlockSize
      BY <1>3
    <3>. QED  BY <1>3, <3>1, <3>2
  <2>3. wr.file_pos + Chunk <= FlashSize
    <3>1. BlockSize * Block \in Int /\ BlockSize * NSectors \in Int
      BY <1>3
    <3>. QED  BY <1>3, <2>1, <2>2, <3>1, FlashFacts
  <2>4. wr.file_pos + Chunk \in 0 .. Word - 1
    BY <1>3, <2>3, FlashFacts
  <2>. QED  BY <2>3, <2>4, FlashFacts
<1>4. /\ wr' \in WrFields /\ wr'.start = wr.start /\ wr'.len = wr.len
      /\ wr'.file_pos = wr.file_pos + Chunk /\ wr'.length = wr.length - Chunk
      /\ wr'.written = wr.written + Chunk
  <2>1. /\ wr.len \in Nat /\ wr.chunk \in Nat
        /\ wr = [start |-> wr.start, len |-> wr.len, file_pos |-> wr.file_pos,
                 length |-> wr.length, chunk |-> wr.chunk, written |-> wr.written]
    BY <1>1 DEF Shape, WrFields
  <2>2. wr' = [start |-> wr.start, len |-> wr.len, file_pos |-> wr.file_pos + Chunk,
               length |-> wr.length - Chunk, chunk |-> wr.chunk,
               written |-> wr.written + Chunk]
    BY <1>1, <1>2, <1>3a, <2>1
  <2>3. wr.file_pos + Chunk \in Nat /\ wr.length - Chunk \in Nat /\ wr.written + Chunk \in Nat
    BY <1>3
  <2>. QED  BY <1>3, <2>1, <2>2, <2>3 DEF WrFields
<1>5. Cursors'
  <2>1. wr'.length > 0 => wr'.file_pos % BlockSize = 0
    <3>1. wr'.length > 0 => Chunk < wr.length
      BY <1>3, <1>4
    <3>. QED  BY <1>1, <1>2, <1>4, <3>1, ChunkFacts DEF Cursors
  <2>2. wr'.file_pos = wr'.start + wr'.written /\ wr'.len = wr'.written + wr'.length
    <3>1. wr.len = wr.written + wr.length
      BY <1>1 DEF Cursors
    <3>. QED  BY <1>3, <1>4, <3>1
  <2>. QED  BY <1>3a, <1>4, <2>1, <2>2 DEF Cursors
<1>6. LastSector' = Block
  <2>1. wr'.start + wr'.written - 1 = wr.file_pos + (Chunk - 1) /\ Chunk - 1 \in 0 .. Chunk - 1
    BY <1>3, <1>4
  <2>2. (wr.file_pos + (Chunk - 1)) \div BlockSize = Block
    BY <1>1, <1>2, <2>1, ChunkCell DEF Cursors
  <2>. QED  BY <2>1, <2>2 DEF LastSector
<1>7. \A a : Hit(a) => Wrapped(a)'
  BY <1>2, <1>6 DEF Hit, Wrapped
<1>8. ASSUME NEW i \in 0 .. wr'.written - 1
      PROVE  CellAt(sec, wr.start + i) = Data(writes, i) \/ Wrapped(wr.start + i)'
  <2>1. CASE i < wr.written
    <3>1. i \in 0 .. wr.written - 1
      <4>1. i \in 0 .. wr.written + Chunk - 1
        <5>1. wr'.written = wr.written + Chunk /\ wr.written \in Nat /\ Chunk \in Nat
          BY <1>3, <1>4
        <5>. QED  BY <5>1
      <4>. QED  BY <1>3, <2>1, <4>1
    <3>2. CellAt(sec, wr.start + i) = Data(writes, i) \/ Hit(wr.start + i)
      BY <1>2, <3>1 DEF Underway
    <3>. QED  BY <1>2, <1>4, <1>6, <3>2 DEF Hit, Wrapped
  <2>2. CASE ~(i < wr.written)
    <3>. DEFINE j == i - wr.written
    <3>1. /\ j \in 0 .. Chunk - 1 /\ wr.start + i = wr.file_pos + j /\ wr.written + j = i
          /\ Offset + j \in 0 .. BlockSize - 1 /\ (Offset + j) - Offset = j
      BY <1>3, <1>4, <2>2
    <3>. HIDE DEF j
    <3>2. (wr.start + i) \div BlockSize = Block /\ (wr.start + i) % BlockSize = Offset + j
      BY <1>1, <1>2, <3>1, ChunkCell DEF Cursors
    <3>3. op.data[Offset + j] = Data(writes, wr.written + j)
      BY <1>2, <3>1 DEF BlockData
    <3>4. CellAt(sec, wr.start + i) = op.data[Offset + j]
      BY <1>2, <3>2 DEF CellAt
    <3>. QED  BY <3>1, <3>3, <3>4
  <2>. QED  BY <2>1, <2>2
<1>9. ASSUME NEW a \in FlashAddr, ~Exposed(a)'
      PROVE  CellAt(sec, a) = CellAt(before, a) \/ Wrapped(a)'
  <2>1. /\ a \in Nat /\ a \div BlockSize \in Nat /\ a % BlockSize \in 0 .. BlockSize - 1
        /\ a = BlockSize * (a \div BlockSize) + (a % BlockSize)
    BY CellFacts, FlashFacts DEF Sector
  <2>2. /\ ~(a \in wr.start .. wr.start + (wr.written + Chunk) - 1)
        /\ a \div BlockSize # Block + 1
        /\ ~(wr.start \div BlockSize < Block /\ a \div BlockSize = Block)
    BY <1>4, <1>6, <1>9 DEF Exposed, FirstSector
  <2>3. CASE a \div BlockSize > Block
    <3>1. a \div BlockSize > op.blk + 1
      BY <1>2, <1>3, <2>1, <2>2, <2>3
    <3>2. CellAt(sec, a) = CellAt(before, a) \/ Hit(a)
      BY <1>2, <3>1 DEF Underway
    <3>. QED  BY <1>7, <3>2
  <2>4. CASE a \div BlockSize < Block
    <3>1. a < BlockSize * Block
      BY <1>3, <2>1, <2>4, BelowMultiple
    <3>2. a < wr.start
      <4>1. BlockSize * Block \in Int
        BY <1>3
      <4>2. a < wr.start + (wr.written + Chunk)
        BY <1>3, <2>1, <3>1, <4>1
      <4>. QED  BY <1>3, <2>1, <2>2, <4>2
    <3>. QED  BY <1>2, <1>7, <2>4, <3>2 DEF Underway
  <2>5. CASE a \div BlockSize = Block
    <3>. DEFINE c == a % BlockSize
    <3>1. c \in 0 .. BlockSize - 1 /\ a = BlockSize * Block + c
      BY <2>1, <2>5
    <3>. HIDE DEF c
    <3>2. wr.written = 0
      <4>1. SUFFICES ASSUME wr.written > 0 PROVE FALSE
        BY <1>3
      <4>2. wr.start + 0 = wr.start /\ 0 \in 0 .. wr.written - 1
        BY <1>3, <4>1
      <4>3. (wr.start + 0) \div BlockSize < Block
        BY <1>1, <1>2, <4>1, <4>2, WrittenBefore
      <4>. QED  BY <2>2, <2>5, <4>2, <4>3
    <3>3. BlockSize * Block \in Int
      BY <1>3
    <3>4. c < Offset \/ c >= Offset + wr.chunk
      BY <1>2, <1>3, <2>2, <3>1, <3>2, <3>3
    <3>5. op.data[c] = before[op.blk][c]
      BY <1>2, <3>1, <3>2, <3>4 DEF BlockData
    <3>. QED  BY <1>2, <2>5, <3>5 DEF CellAt, c
  <2>. QED  BY <1>3, <2>1, <2>3, <2>4, <2>5
<1>10. Settled'
  <2>1. wr'.written # 0
    BY <1>3, <1>4
  <2>2. \A a \in FlashAddr : Exposed(a)' \/ CellAt(sec, a) = CellAt(before, a) \/ Wrapped(a)'
    BY <1>9
  <2>. QED  BY <1>1, <1>4, <1>8, <2>1, <2>2 DEF Settled, CellAt
<1>. QED  BY <1>1, <1>5, <1>10 DEF Promised, Reporting

\* The other steps of a write, and those that begin one.
LEMMA EndWrite == ASSUME WriteInv, BlockRefused \/ WriteDone PROVE WriteInv'
<1>0. Shape
  BY DEF WriteInv, Ordered
<1>1. CASE BlockRefused
  <2>1. /\ pc = "block" /\ op.ret = "ng" /\ pc' = "idle" /\ res' = "failed"
        /\ UNCHANGED <<sec, op, file, wr, before, writes>>
    BY <1>1 DEF BlockRefused, ioVars
  <2>2. op.ph = "idle" /\ Shape'
    BY <1>0, <2>1 DEF Shape
  <2>3. Ordered'
    BY <2>1, <2>2 DEF Ordered
  <2>4. ASSUME InPart PROVE Promised'
    <3>1. Settled /\ Cursors
      BY <2>1, <2>4 DEF WriteInv, Promised, InBlock, Underway
    <3>2. Settled' /\ Cursors'
      BY <2>1, <3>1 DEF Settled, Cursors, Exposed, Wrapped, FirstSector, LastSector, CellAt
    <3>. QED  BY <2>1, <3>2 DEF Promised
  <2>5. InPart' <=> InPart
    BY <2>1 DEF InPart
  <2>. QED  BY <2>3, <2>4, <2>5 DEF WriteInv
<1>2. CASE WriteDone
  <2>1. /\ pc = "loop" /\ wr.length = 0 /\ pc' = "idle" /\ res' = "written"
        /\ file' = [file EXCEPT !.file_pos = @ + wr.length]
        /\ UNCHANGED <<sec, op, wr, before, writes>>
    BY <1>2 DEF WriteDone
  <2>2. op.ph = "idle"
    BY <2>1 DEF WriteInv, Ordered
  <2>3. /\ file'.file_pos \in Nat
        /\ file' = [in_use |-> file'.in_use, file_pos |-> file'.file_pos]
    BY <1>0, <2>1 DEF Shape
  <2>4. Ordered'
    BY <1>0, <2>1, <2>2, <2>3 DEF Ordered, Shape
  <2>5. ASSUME InPart PROVE Promised'
    <3>1. Settled /\ Cursors
      BY <2>1, <2>5 DEF WriteInv, Promised
    <3>2. Settled' /\ Cursors'
      BY <2>1, <3>1 DEF Settled, Cursors, Exposed, Wrapped, FirstSector, LastSector, CellAt
    <3>. QED  BY <2>1, <3>2 DEF Promised
  <2>6. InPart' <=> InPart
    BY <2>1 DEF InPart
  <2>. QED  BY <2>4, <2>5, <2>6 DEF WriteInv
<1>. QED  BY <1>1, <1>2

LEMMA BeginWrite == ASSUME WriteInv, NEW n \in Lengths, Write(n) PROVE WriteInv'
<1>1. /\ pc = "idle" /\ Shape /\ op.ph = "idle"
      /\ before' = sec /\ res' = "none" /\ pc' = "loop"
      /\ wr' = [start |-> file.file_pos, len |-> n, file_pos |-> file.file_pos,
                length |-> n, chunk |-> 0, written |-> 0]
      /\ UNCHANGED <<sec, op, file>>
  BY DEF Write, WriteInv, Ordered, ioVars
<1>2. n \in Nat /\ file.file_pos \in Nat
  BY <1>1, IoAssumption DEF Shape
<1>3. wr' \in WrFields
  BY <1>1, <1>2 DEF WrFields
<1>4. Ordered'
  BY <1>1, <1>3 DEF Ordered, Shape
<1>5. ASSUME InPart' PROVE Cursors' /\ Settled'
  <2>1. file.file_pos <= FlashSize
    BY <1>1, <1>2, <1>5, FlashFacts DEF InPart
  <2>. QED  BY <1>1, <1>2, <2>1 DEF Cursors, Settled
<1>. QED  BY <1>1, <1>4, <1>5 DEF WriteInv, Promised, Reporting

\* Outside a write the flash stays, and only the cursor of the file moves.
LEMMA BesideWrite ==
  ASSUME WriteInv, UNCHANGED <<sec, op, wr, before, writes>>,
         pc' = pc \/ (pc = "idle" /\ pc' = "fault"),
         pc # "idle" => res' = res,
         res' = res \/ res' \notin {"written", "failed"},
         file'.file_pos \in Nat,
         file' = [in_use |-> file'.in_use, file_pos |-> file'.file_pos]
  PROVE  WriteInv'
<1>1. Shape'
  BY DEF WriteInv, Ordered, Shape
<1>2. (Cursors' <=> Cursors) /\ (Settled' <=> Settled) /\ (InPart' <=> InPart) /\ Chunk' = Chunk
  BY DEF Cursors, Settled, Exposed, Wrapped, FirstSector, LastSector, CellAt, InPart, Chunk,
         RestOfBlock
<1>3. InBlock' <=> InBlock
  BY <1>2 DEF InBlock, Underway, BlockData, Hit, Offset, Block, CellAt
<1>4. Ordered'
  BY <1>1, <1>2 DEF WriteInv, Ordered
<1>. QED  BY <1>2, <1>3, <1>4 DEF WriteInv, Promised, Reporting

LEMMA OpenFile ==
  ASSUME Shape, Open
  PROVE  /\ res' \in {"opened", "refused"} /\ file'.file_pos \in Nat
         /\ file' = [in_use |-> file'.in_use, file_pos |-> file'.file_pos]
<1>1. CASE entity_count < MaxHandles /\ ~file.in_use
  BY <1>1 DEF Open
<1>2. CASE ~(entity_count < MaxHandles /\ ~file.in_use)
  BY <1>2 DEF Open, Shape
<1>. QED  BY <1>1, <1>2

LEMMA SeekFile ==
  ASSUME Shape, NEW m \in {"SET", "END", "CUR"}, NEW o \in Offsets, Seek(m, o)
  PROVE  /\ res' \in {"sought", "refused"} /\ file'.file_pos \in Nat
         /\ file' = [in_use |-> file'.in_use, file_pos |-> file'.file_pos]
<1>1. CASE SeekOK(m, o)
  <2>1. /\ o \in Int /\ file.file_pos \in Int /\ Base + FlashSize \in Int /\ Word \in Nat \ {0}
    BY IoAssumption, FlashFacts DEF Shape
  <2>2. ((Base + FlashSize + o) % Word) \in 0 .. Word - 1
    <3>1. Base + FlashSize + o \in Int
      BY <2>1
    <3>. QED  BY <2>1, <3>1, Division, Zenon
  <2>3. ((file.file_pos + o) % Word) \in 0 .. Word - 1
    <3>1. file.file_pos + o \in Int
      BY <2>1
    <3>. QED  BY <2>1, <3>1, Division, Zenon
  <2>4. m = "SET" => o >= 0
    BY <1>1 DEF SeekOK
  <2>5. SeekTo(m, o) \in Nat
    BY <2>1, <2>2, <2>3, <2>4 DEF SeekTo
  <2>6. file' = [file EXCEPT !.file_pos = SeekTo(m, o)] /\ res' = "sought"
    BY <1>1 DEF Seek
  <2>. QED  BY <2>5, <2>6 DEF Shape
<1>2. CASE ~SeekOK(m, o)
  BY <1>2 DEF Seek, Shape
<1>. QED  BY <1>1, <1>2

LEMMA NextWriteInv == WriteInv /\ [Next]_vars => WriteInv'
<1>. SUFFICES ASSUME WriteInv, [Next]_vars PROVE WriteInv'
  OBVIOUS
<1>0. Shape
  BY DEF WriteInv, Ordered
<1>1. CASE Setup
  <2>1. CASE dev_count < MaxDevices
    BY <1>0, <1>1, <2>1, OpenFile, BesideWrite DEF Setup
  <2>2. CASE ~(dev_count < MaxDevices)
    BY <1>0, <1>1, <2>2, BesideWrite DEF Setup, ioVars, Shape
  <2>. QED  BY <2>1, <2>2
<1>2. CASE IoOpen
  BY <1>0, <1>2, OpenFile, BesideWrite DEF IoOpen
<1>3. ASSUME NEW h \in Entity, IoClose(h) PROVE WriteInv'
  BY <1>0, <1>3, BesideWrite DEF IoClose, Closed
<1>4. ASSUME NEW m \in {"SET", "END", "CUR"}, NEW o \in Offsets, Seek(m, o) PROVE WriteInv'
  <2>1. UNCHANGED <<sec, op, wr, before, writes, pc>> /\ pc = "idle"
    BY <1>4 DEF Seek
  <2>. QED  BY <1>0, <1>4, <2>1, SeekFile, BesideWrite
<1>5. ASSUME NEW n \in Lengths, Read(n) PROVE WriteInv'
  <2>1. n \in Nat
    BY IoAssumption
  <2>2. /\ pc = "idle" /\ UNCHANGED <<sec, op, wr, before, writes>>
        /\ \/ file' = [file EXCEPT !.file_pos = @ + n] /\ res' = "read" /\ pc' = pc
           \/ file' = file /\ res' = res /\ pc' = "fault"
    BY <1>5 DEF Read
  <2>3. file'.file_pos \in Nat /\ file' = [in_use |-> file'.in_use, file_pos |-> file'.file_pos]
    BY <1>0, <2>1, <2>2 DEF Shape
  <2>. QED  BY <2>2, <2>3, BesideWrite
<1>6. ASSUME NEW n \in Lengths, Write(n) PROVE WriteInv'
  BY <1>6, BeginWrite
<1>7. CASE Writing
  <2>1. CASE BlockRefused \/ WriteDone
    BY <2>1, EndWrite
  <2>2. CASE WriteBlock \/ BlockWritten \/ FlashStep
    <3>1. Ordered'
      BY <2>2, WriteBlockOrdered, BlockWrittenOrdered, FlashStepOrdered DEF WriteInv
    <3>2. InPart => Promised'
      BY <2>2, WriteBlockWrite, BlockWrittenWrite, FlashStepWrite
    <3>3. wr'.start = wr.start
      BY <1>0, <2>2 DEF WriteBlock, BlockWritten, FlashStep, Shape, WrFields
    <3>. QED  BY <3>1, <3>2, <3>3 DEF WriteInv, InPart
  <2>. QED  BY <1>7, <2>1, <2>2 DEF Writing
<1>8. CASE UNCHANGED vars
  BY <1>0, <1>8, BesideWrite DEF vars, ioVars, Shape
<1>. QED  BY <1>1, <1>2, <1>3, <1>4, <1>5, <1>6, <1>7, <1>8 DEF Next

LEMMA InitWriteInv == Init => WriteInv
<1>. SUFFICES ASSUME Init PROVE WriteInv
  OBVIOUS
<1>1. sec = [s \in Sector |-> sec[s]]
  BY IoAssumption DEF Init
<1>2. wr \in WrFields /\ file = [in_use |-> FALSE, file_pos |-> 0]
  BY DEF Init, WrFields, Closed
<1>3. op = [ph |-> "idle", blk |-> 0, data |-> Erased, ret |-> "none"]
  BY DEF Init, NoOp
<1>. QED  BY <1>1, <1>2, <1>3 DEF Init, WriteInv, Ordered, Promised, Shape, Reporting

\* Between blocks the write so far is as promised, and inside a block all but the block
\* in hand (flash_write, with the driver's erase and write of a sector).
THEOREM WriteInvariant == Spec => []WriteInv
<1>. QED  BY InitWriteInv, NextWriteInv, PTL DEF Spec

\* What io_write reports of a write that begins in the part is in the flash: all of it on
\* success, the blocks before the one that was refused otherwise (flash_write).
THEOREM ReportsTrue == Spec => []WriteReported
<1>1. WriteInv => WriteReported
  <2>. SUFFICES ASSUME WriteInv, Reporting, InPart
                PROVE  /\ res = "written" => wr.written = wr.len
                       /\ wr.start + wr.written <= FlashSize
                       /\ \A i \in 0 .. wr.written - 1 :
                            CellAt(sec, wr.start + i) = Data(writes, i) \/ Wrapped(wr.start + i)
    BY DEF WriteReported, Reporting
  <2>1. Settled /\ Cursors /\ wr.written \in Nat
    BY DEF WriteInv, Ordered, Promised, Shape, WrFields
  <2>2. res = "written" => wr.written = wr.len
    BY <2>1 DEF WriteInv, Ordered, Cursors
  <2>3. wr.start + wr.written <= FlashSize
    BY <2>1 DEF Cursors
  <2>. QED  BY <2>1, <2>2, <2>3 DEF Settled
<1>. QED  BY <1>1, WriteInvariant, PTL

\* A write that begins in the part keeps what lies in front of it, its own block included,
\* what lies behind the sector after its last one and, if it stays in one block, the rest
\* of that (flash_partial_write, rzg_spi_erase_sectors).
THEOREM OutsideStays == Spec => []OutsideKept
<1>1. WriteInv => OutsideKept
  <2>. SUFFICES ASSUME WriteInv, Reporting, InPart, wr.written > 0 PROVE OutsideKept
    BY DEF OutsideKept, Reporting
  <2>1. Settled /\ wr.written # 0
    BY DEF WriteInv, Promised
  <2>. QED  BY <2>1 DEF Settled, OutsideKept, FlashAddr
<1>. QED  BY <1>1, WriteInvariant, PTL
=============================================================================
