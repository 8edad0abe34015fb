-------------------------------- MODULE IoSpi --------------------------------
(***************************************************************************)
(* The storage interface the update goes through: the handle pool of       *)
(* drivers/io/io_storage.c, the flash device with its single open file     *)
(* (drivers/renesas/io/io_spi.c, io_spi_hw.c) and the setup of             *)
(* plat/renesas/rzg/rzg_io_storage.c, over the flash of SectorStore.       *)
(*                                                                         *)
(* A sector's content is a function from its cells to their values; a cell *)
(* is the unit of addresses and lengths.  The program is sequential: only  *)
(* io_write is taken apart into steps, one per block.                      *)
(***************************************************************************)
EXTENDS SectorStore, FiniteSets

CONSTANTS
  BlockSize,     \* block_spec.block_size, in cells
  Base,          \* block_spec.region_address
  Word,          \* 2^64: size_t and uintptr_t wrap around here
  AddrWord,      \* 2^32: the driver's addresses wrap around here
  Readable,      \* blocks past the part that are mapped: DRAM, registers
  MaxHandles,    \* MAX_IO_HANDLES
  MaxDevices,    \* MAX_IO_DEVICES
  Offsets,       \* offsets given to io_seek
  Lengths,       \* lengths given to io_read and io_write
  Data(_, _),    \* Data(n, i): cell i of the buffer of the n-th write
  Flash0,        \* what the flash holds at first
  MaxWrites      \* bound on the writes of a behaviour

FlashSize == NSectors * BlockSize
Entity == 0 .. MaxHandles - 1

ASSUME IoAssumption ==
  /\ BlockSize \in Nat \ {0} /\ Base \in Nat
  /\ AddrWord \in Nat /\ AddrWord \in {k * BlockSize : k \in 1 .. AddrWord}
  /\ Word \in Nat /\ Word \in {k * AddrWord : k \in 1 .. Word}
  /\ Base + 2 * FlashSize < AddrWord
  /\ Readable \subseteq NSectors .. (AddrWord \div BlockSize) - 1
  /\ MaxHandles \in Nat \ {0} /\ MaxDevices \in Nat
  /\ Offsets \subseteq Int /\ Lengths \subseteq Nat \ {0}
  /\ Flash0 \in [Sector -> Content]
  /\ MaxWrites \in Nat

VARIABLES
  entity_map,    \* which entities of the pool are in use
  entity_count,
  info,          \* entity->info: whether it points to current_file
  dev_count,
  handles,       \* handles the program was given and has not closed
  file,          \* current_file
  pc,            \* idle, or where flash_write is; or an access fault
  wr,            \* locals of flash_write
  res,           \* what the last operation did
  before,        \* history: the flash when the last write began
  writes

ioVars == <<entity_map, entity_count, info, dev_count, handles, file>>
vars == <<sec, op, ioVars, pc, wr, res, before, writes>>

Closed == [in_use |-> FALSE, file_pos |-> 0]

Init ==
  /\ sec = Flash0 /\ op = NoOp
  /\ entity_map = [e \in Entity |-> FALSE] /\ entity_count = 0
  /\ info = [e \in Entity |-> FALSE]
  /\ dev_count = 0 /\ handles = {}
  /\ file = Closed
  /\ pc = "idle"
  /\ wr = [start |-> 0, len |-> 0, file_pos |-> 0, length |-> 0, chunk |-> 0,
           written |-> 0]
  /\ res = "none" /\ before = sec /\ writes = 0

-----------------------------------------------------------------------------
(***************************************************************************)
(* Opening and closing.                                                    *)
(***************************************************************************)
\* find_first_entity(NULL, ...)
FirstFree ==
  CHOOSE e \in Entity :
    ~entity_map[e] /\ \A f \in Entity : ~entity_map[f] => e <= f

\* Mutant: the entity is kept when flash_open refuses.
OpenLeaks ==
  IF entity_count < MaxHandles
  THEN /\ entity_map' = [entity_map EXCEPT ![FirstFree] = TRUE]
       /\ entity_count' = entity_count + 1
       /\ IF file.in_use
          THEN res' = "refused" /\ UNCHANGED <<file, info, handles>>
          ELSE /\ file' = [in_use |-> TRUE, file_pos |-> 0]
               /\ info' = [info EXCEPT ![FirstFree] = TRUE]
               /\ handles' = handles \cup {FirstFree}
               /\ res' = "opened"
  ELSE /\ res' = "refused"
       /\ UNCHANGED <<entity_map, entity_count, file, info, handles>>

\* io_open: take an entity; flash_open accepts one file at a time, and when it
\* refuses, the entity goes back.
Open ==
  IF entity_count < MaxHandles /\ ~file.in_use
  THEN /\ entity_map' = [entity_map EXCEPT ![FirstFree] = TRUE]
       /\ entity_count' = entity_count + 1
       /\ file' = [in_use |-> TRUE, file_pos |-> 0]
       /\ info' = [info EXCEPT ![FirstFree] = TRUE]
       /\ handles' = handles \cup {FirstFree}
       /\ res' = "opened"
  ELSE /\ res' = "refused"
       /\ UNCHANGED <<entity_map, entity_count, file, info, handles>>

IoOpen ==
  /\ pc = "idle" /\ dev_count > 0
  /\ Open
  /\ UNCHANGED <<sec, op, dev_count, pc, wr, before, writes>>

\* rzg_io_setup: register the device, open it, and open the one file.
Setup ==
  /\ pc = "idle"
  /\ IF dev_count < MaxDevices
     THEN dev_count' = dev_count + 1 /\ Open
     ELSE /\ res' = "refused"
          /\ UNCHANGED ioVars
  /\ UNCHANGED <<sec, op, pc, wr, before, writes>>

\* io_close: flash_close clears the file, free_entity looks the entity up.
IoClose(h) ==
  /\ pc = "idle" /\ h \in handles
  /\ info' = [info EXCEPT ![h] = FALSE]
  /\ file' = Closed
  /\ IF entity_map[h]
     THEN /\ entity_map' = [entity_map EXCEPT ![h] = FALSE]
          /\ entity_count' = entity_count - 1
     ELSE UNCHANGED <<entity_map, entity_count>>
  /\ handles' = handles \ {h}
  /\ res' = "closed"
  /\ UNCHANGED <<sec, op, dev_count, pc, wr, before, writes>>

-----------------------------------------------------------------------------
(***************************************************************************)
(* Seeking and reading.                                                    *)
(***************************************************************************)
SeekOK(mode, off) ==
  CASE mode = "SET" -> off >= 0 /\ off < FlashSize
    [] mode = "END" -> off <= 0     \* flash_size + offset >= 0: unsigned
    [] OTHER        -> /\ (file.file_pos + off) % Word >= Base
                       /\ (file.file_pos + off) % Word < Base + FlashSize

SeekTo(mode, off) ==
  CASE mode = "SET" -> off
    [] mode = "END" -> (Base + FlashSize + off) % Word
    [] OTHER        -> (file.file_pos + off) % Word

Seek(mode, off) ==
  /\ pc = "idle" /\ handles # {}
  /\ IF SeekOK(mode, off)
     THEN res' = "sought" /\ file' = [file EXCEPT !.file_pos = SeekTo(mode, off)]
     ELSE res' = "refused" /\ UNCHANGED file
  /\ UNCHANGED <<sec, op, entity_map, entity_count, info, dev_count, handles, pc,
                 wr, before, writes>>

\* flash_read checks nothing: the copy faults where nothing is mapped.
Read(n) ==
  /\ pc = "idle" /\ handles # {}
  /\ IF \A i \in 0 .. n - 1 : (file.file_pos + i) \div BlockSize \in Sector \cup Readable
     THEN /\ file' = [file EXCEPT !.file_pos = @ + n]
          /\ res' = "read"
          /\ UNCHANGED pc
     ELSE pc' = "fault" /\ UNCHANGED <<file, res>>
  /\ UNCHANGED <<sec, op, entity_map, entity_count, info, dev_count, handles, wr,
                 before, writes>>

-----------------------------------------------------------------------------
(***************************************************************************)
(* Writing: flash_write hands one block after another to                   *)
(* flash_block_write or, if only a part of it changes, flash_partial_write.*)
(***************************************************************************)
Write(n) ==
  /\ pc = "idle" /\ handles # {} /\ writes < MaxWrites
  /\ writes' = writes + 1
  /\ before' = sec
  /\ wr' = [start |-> file.file_pos, len |-> n, file_pos |-> file.file_pos,
            length |-> n, chunk |-> 0, written |-> 0]
  /\ res' = "none"
  /\ pc' = "loop"
  /\ UNCHANGED <<sec, op, ioVars>>

\* Mutant: a write in the middle of a block may run on into the next one.
ChunkFromStart == IF wr.length < BlockSize THEN wr.length ELSE BlockSize

\* How much of the block at file_pos is written: to the end of the block, or
\* what is left.
RestOfBlock == BlockSize - (wr.file_pos % BlockSize)
Chunk == IF wr.length < RestOfBlock THEN wr.length ELSE RestOfBlock

\* The driver is given file_pos as a uint32_t.
Block == (wr.file_pos % AddrWord) \div BlockSize

\* The last block that a 32-bit address can name.
TopBlock == (AddrWord \div BlockSize) - 1

Buffer(i) == Data(writes, wr.written + i)

\* Mutant: block_buffer is not filled from the flash first.
PatchedBlank(old) ==
  [c \in 0 .. BlockSize - 1 |->
     LET i == c - (wr.file_pos % BlockSize) IN
     IF i \in 0 .. Chunk - 1 THEN Buffer(i) ELSE Erased[c]]

\* The copy of a block with the caller's cells in it (block_buffer).
Patched(old) ==
  [c \in 0 .. BlockSize - 1 |->
     LET i == c - (wr.file_pos % BlockSize) IN
     IF i \in 0 .. Chunk - 1 THEN Buffer(i) ELSE old[c]]

\* rzg_spi_write_buff, with a uint32_t for the end of the block
StartBlock(b, d) == IF b = TopBlock THEN StartAtTop(d) ELSE StartWrite(b, d)

\* A whole block comes from the caller's buffer; for a part of one the block is
\* first read through the mapping, which faults where nothing is mapped.
WriteBlock ==
  /\ pc = "loop" /\ wr.length > 0
  /\ IF Chunk < BlockSize /\ Block \notin Sector \cup Readable
     THEN pc' = "fault" /\ UNCHANGED <<sec, op, wr>>
     ELSE /\ StartBlock(Block, Patched(IF Block < NSectors THEN sec[Block] ELSE Erased))
          /\ wr' = [wr EXCEPT !.chunk = Chunk]
          /\ pc' = "block"
  /\ UNCHANGED <<ioVars, res, before, writes>>

\* Mutant: *written is never set, the loop does not advance.
BlockWrittenUncounted ==
  /\ pc = "block" /\ op.ret = "ok"
  /\ pc' = "loop"
  /\ UNCHANGED <<sec, op, ioVars, wr, res, before, writes>>

BlockWritten ==
  /\ pc = "block" /\ op.ret = "ok"
  /\ wr' = [wr EXCEPT !.file_pos = (@ + wr.chunk) % Word, !.written = @ + wr.chunk,
                      !.length = @ - wr.chunk]
  /\ pc' = "loop"
  /\ UNCHANGED <<sec, op, ioVars, res, before, writes>>

\* "If one of the write operations fails then we do not pursue"
BlockRefused ==
  /\ pc = "block" /\ op.ret = "ng"
  /\ res' = "failed"
  /\ pc' = "idle"
  /\ UNCHANGED <<sec, op, ioVars, wr, before, writes>>

\* The loop has counted length down to 0 before it is added to the cursor.
WriteDone ==
  /\ pc = "loop" /\ wr.length = 0
  /\ file' = [file EXCEPT !.file_pos = @ + wr.length]
  /\ res' = "written"
  /\ pc' = "idle"
  /\ UNCHANGED <<sec, op, entity_map, entity_count, info, dev_count, handles, wr,
                 before, writes>>

FlashStep ==
  /\ StoreStep
  /\ UNCHANGED <<ioVars, pc, wr, res, before, writes>>

Writing == WriteBlock \/ BlockWritten \/ BlockRefused \/ WriteDone \/ FlashStep

Next ==
  \/ Setup \/ IoOpen
  \/ \E h \in Entity : IoClose(h)
  \/ \E m \in {"SET", "END", "CUR"}, o \in Offsets : Seek(m, o)
  \/ \E n \in Lengths : Read(n) \/ Write(n)
  \/ Writing

Spec == Init /\ [][Next]_vars

FairSpec == Spec /\ WF_vars(Writing)

-----------------------------------------------------------------------------
(***************************************************************************)
(* Properties.                                                             *)
(***************************************************************************)
\* The pool, its count, the single file and the handles given out agree: an
\* open that fails leaks no entity and a close leaves none behind, so the one
\* handle there is (MAX_IO_HANDLES is 1) can always be had again.
PoolConsistent ==
  /\ entity_count = Cardinality({e \in Entity : entity_map[e]})
  /\ handles = {e \in Entity : entity_map[e]}
  /\ handles = {e \in Entity : info[e]}
  /\ file.in_use <=> entity_count = 1
  /\ entity_count <= 1

CellAt(s, a) == s[a \div BlockSize][a % BlockSize]

\* The first and the last block written, and whether the erase that goes past the end of
\* the part after the last one may come around to cell a.
FirstSector == wr.start \div BlockSize
LastSector == (wr.start + wr.written - 1) \div BlockSize
Wrapped(a) == LastSector = NSectors - 1 /\ a \div BlockSize \in PastEnd

\* A write that begins in the part.  The positions that IO_SEEK_END can set may lie
\* anywhere: see SuccessMeansDone.
InPart == wr.start < FlashSize

\* What io_write says it has written is in the flash: all of it on success, the
\* blocks before the one that failed otherwise, and no more than the part has room for.
WriteReported ==
  res \in {"written", "failed"} /\ InPart =>
    /\ res = "written" => wr.written = wr.len
    /\ wr.start + wr.written <= FlashSize
    /\ \A i \in 0 .. wr.written - 1 :
         CellAt(sec, wr.start + i) = Data(writes, i) \/ Wrapped(wr.start + i)

\* What a write may change besides its range: the block after its last one, which is
\* erased with it, and, if the last one was not the first, the rest of that, which was
\* erased before it was copied: see SuccessMeansDone.
Exposed(a) ==
  \/ a \in wr.start .. wr.start + wr.written - 1
  \/ a \div BlockSize = LastSector + 1
  \/ FirstSector < LastSector /\ a \div BlockSize = LastSector

\* A write keeps every other cell: of its first block those in front of its range, and
\* those behind it if it ends there, and all blocks further away.
OutsideKept ==
  res \in {"written", "failed"} /\ InPart /\ wr.written > 0 =>
    \A a \in 0 .. FlashSize - 1 :
      Exposed(a) \/ CellAt(sec, a) = CellAt(before, a) \/ Wrapped(a)

\* "Write data to a file on the flash device" (flash_write), "make a copy of the block from
\* flash", "update the content of the block buffer" (flash_partial_write): when it reports
\* success, the data is in the flash at the cursor, and the rest of the last block is as it
\* was.
SuccessMeansDone ==
  res = "written" =>
    LET end == wr.start + wr.len
    IN /\ end <= FlashSize
       /\ \A a \in wr.start .. end - 1 :
            CellAt(sec, a) = Data(writes, a - wr.start) \/ Wrapped(a)
       /\ \A a \in end .. (LastSector + 1) * BlockSize - 1 : CellAt(sec, a) = CellAt(before, a)

\* Every io_write ends.
WriteEnds == pc \in {"loop", "block"} ~> pc \in {"idle", "fault"}
=============================================================================
