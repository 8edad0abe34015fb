------------------------------ MODULE SpiDriver ------------------------------
(***************************************************************************)
(* The serial flash driver at the level of its registers: the loops of     *)
(* drivers/renesas/spi/spi.c, the register accesses of rpc_accessor.c, the *)
(* RPC-IF controller that turns them into SPI transfers, and the flash     *)
(* chip that works on its own after an erase or program command.  The      *)
(* driver, the controller and the chip run side by side; the driver sees   *)
(* the others only through TEND and the chip's status register.            *)
(*                                                                         *)
(* Addresses count bytes.  The module clock is on (BL2 was booted from     *)
(* this flash), so rzg_rpc_manual_mode_init has nothing to power up.  The  *)
(* calibration and strobe bits that depend on the product are left out.    *)
(***************************************************************************)
EXTENDS Integers

CONSTANTS
  NSectors, SectorSize,  \* QSPI_END_ADDR / QSPI_BLOCK_SIZE, QSPI_BLOCK_SIZE
  PageSize,              \* QSPI_PAGE_SIZE
  AddrWord,              \* 2^32: addresses wrap around here
  PastEnd,               \* sectors hit by an erase past the end, as in SectorStore
  Byte, FF, Old,         \* byte values: erased, and those present at first
  Junk, Mixed,           \* left by a cut operation; programmed over non-0xFF
  Calls,                 \* the calls made: [addr, len, data], each within a sector
  MaxCalls, MaxPowerLoss \* bounds on the calls and power losses of a behaviour

Sector == 0 .. NSectors - 1
EndAddr == NSectors * SectorSize
Addr == 0 .. EndAddr - 1

ASSUME DriverAssumption ==
  /\ NSectors \in Nat \ {0} /\ PageSize \in Nat \ {0}
  /\ SectorSize \in {k * PageSize : k \in 1 .. SectorSize}
  /\ AddrWord \in {k * SectorSize : k \in NSectors + 1 .. AddrWord}
  /\ PastEnd \subseteq 0 .. NSectors /\ PastEnd # {}
  /\ {FF, Old, Junk, Mixed} \subseteq Byte
  /\ \A c \in Calls : /\ c.addr \in Nat /\ c.len \in Nat \ {0}
                      /\ c.data \in [0 .. c.len - 1 -> Byte]
                      /\ c.addr % PageSize = 0
                      /\ c.addr \div SectorSize = (c.addr + c.len - 1) \div SectorSize
                      /\ c.addr + c.len <= AddrWord
  /\ MaxCalls \in Nat /\ MaxPowerLoss \in Nat

VARIABLES
  flash,   \* the bytes of the part
  chip,    \* write-enable latch, write in progress, and what is in progress
  rpc,     \* registers of the controller, and the transfer it is making
  cached,  \* read cache of the controller: sectors held, and if out of date
  pc,      \* the driver's next step
  call,    \* arguments of rzg_spi_write_buff
  pos,     \* erase_sector_addr, then flash_addr
  ret,     \* what the last call returned
  lost,    \* history: a command reached the chip and was not obeyed
  unfinished, \* history: sectors last written by a call, an erase or a program cut short
  calls, powerLosses

vars == <<flash, chip, rpc, cached, pc, call, pos, ret, lost, calls, powerLosses, unfinished>>

BlankPage == [i \in 0 .. PageSize - 1 |-> FF]

NoJob == [kind |-> "none", at |-> 0, data |-> BlankPage]

SectorOf(a) == a \div SectorSize

-----------------------------------------------------------------------------
(***************************************************************************)
(* The controller and the chip (hardware).                                 *)
(***************************************************************************)
IdleChip == [wel |-> FALSE, wip |-> FALSE, job |-> NoJob]

\* The registers after rzg_rpc_read_ext_mode_init: memory-mapped reads.
ReadMode(r) == [r EXCEPT !.md = "ext", !.phymem = "qspi", !.wbuf = FALSE]

NoCall == [addr |-> 0, len |-> SectorSize, data |-> [i \in 0 .. SectorSize - 1 |-> FF]]

NothingCached == [s \in Sector |-> "none"]

Init ==
  /\ flash = [a \in Addr |-> Old]
  /\ chip = IdleChip
  /\ rpc = ReadMode([md |-> "manual", phymem |-> "hyper", wbuf |-> TRUE,
                     data |-> BlankPage, cmd |-> "none", addr |-> 0,
                     tend |-> TRUE, rdr |-> FALSE])
  /\ cached = NothingCached
  /\ pc = "idle" /\ call = NoCall /\ pos = 0 /\ ret = "none"
  /\ lost = FALSE /\ unfinished = {}
  /\ calls = 0 /\ powerLosses = 0

\* The sectors an erase of the sector at address a can hit; NSectors is none.
ErasedBy(a) == IF a < EndAddr THEN {SectorOf(a)} ELSE PastEnd

\* The chip programs within one page: addresses past its end wrap around.
PageCell(a, i) == a - (a % PageSize) + ((a + i) % PageSize)

Obeyed ==
  /\ rpc.md = "manual" /\ rpc.phymem = "qspi" /\ ~chip.wip
  /\ rpc.cmd \in {"sectorErase", "pageProgram"} => chip.wel
  /\ rpc.cmd = "pageProgram" <=> rpc.wbuf

\* The controller finishes a transfer: the chip has received the command.
TransferEnd ==
  /\ ~rpc.tend
  /\ rpc' = [rpc EXCEPT !.tend = TRUE,
               !.rdr = IF rpc.cmd = "readStatus" THEN chip.wip ELSE rpc.rdr]
  /\ IF rpc.cmd = "readStatus" \/ ~Obeyed THEN chip' = chip
     ELSE CASE rpc.cmd = "writeEnable" -> chip' = [chip EXCEPT !.wel = TRUE]
            [] rpc.cmd = "sectorErase" ->
                 \E s \in ErasedBy(rpc.addr) :
                   chip' = [chip EXCEPT !.wip = TRUE,
                              !.job = [NoJob EXCEPT !.kind = "erase", !.at = s]]
            [] OTHER ->
                 chip' = [chip EXCEPT !.wip = TRUE,
                            !.job = [kind |-> "program", at |-> rpc.addr,
                                     data |-> rpc.data]]
  /\ lost' = (lost \/ (rpc.cmd # "readStatus" /\ ~Obeyed))
  /\ UNCHANGED <<flash, cached, pc, call, pos, ret, calls, powerLosses, unfinished>>

\* The bytes the chip is working on, and what they become.
JobCells ==
  CASE chip.job.kind = "erase"   -> {a \in Addr : SectorOf(a) = chip.job.at}
    [] chip.job.kind = "program" -> {PageCell(chip.job.at, i) : i \in 0 .. PageSize - 1}
    [] OTHER                     -> {}

Programmed(old, new) ==
  IF new = FF THEN old ELSE IF old = FF THEN new ELSE Mixed

JobSectors == {SectorOf(a) : a \in JobCells}

JobResult(a) ==
  IF chip.job.kind = "erase" THEN FF
  ELSE LET i == CHOOSE i \in 0 .. PageSize - 1 : PageCell(chip.job.at, i) = a
       IN  Programmed(flash[a], chip.job.data[i])

\* The page at pos is the last of the call.
OnLastPage == pos + PageSize >= call.addr + call.len

\* The chip finishes; what the controller has cached of it is out of date.
ChipDone ==
  /\ chip.wip
  /\ flash' = [a \in Addr |-> IF a \in JobCells THEN JobResult(a) ELSE flash[a]]
  /\ cached' = [s \in Sector |->
                  IF cached[s] = "fresh" /\ s \in JobSectors THEN "stale" ELSE cached[s]]
  /\ unfinished' = IF chip.job.kind = "erase" \/ OnLastPage
                   THEN unfinished \ JobSectors ELSE unfinished \cup JobSectors
  /\ chip' = IdleChip
  /\ UNCHANGED <<rpc, pc, call, pos, ret, lost, calls, powerLosses>>

-----------------------------------------------------------------------------
(***************************************************************************)
(* The driver.  Each accessor sets up the registers and starts a transfer; *)
(* its rpc_wait_trans_end is the guard rpc.tend of the step after it.      *)
(***************************************************************************)
Transfer(r, cmd, a) ==
  [r EXCEPT !.md = "manual", !.phymem = "qspi", !.wbuf = (cmd = "pageProgram"),
            !.cmd = cmd, !.addr = a, !.tend = FALSE]

\* The loop of rzg_spi_erase_sectors: from the sector of the first byte to the
\* end address rounded up, the end address itself included.
EraseTop == call.addr - (call.addr % SectorSize)
\* Mutant: one sector more.
EraseEndOneMore ==
  LET e == call.addr + call.len IN e - (e % SectorSize) + 2 * SectorSize - 1

EraseEnd ==
  LET e == call.addr + call.len IN e - (e % SectorSize) + SectorSize - 1

\* spi_addr + len, in a uint32_t: 0 for a call that goes to the end of the addresses.
EndOf(c) == (c.addr + c.len) % AddrWord

\* With an end of 0 both loops are over before they begin, and the call succeeds.
WriteBuff(c) ==
  /\ pc = "idle" /\ calls < MaxCalls
  /\ calls' = calls + 1
  /\ call' = c
  /\ \/ /\ EndOf(c) > EndAddr
        /\ ret' = "ng" /\ UNCHANGED <<pc, pos, rpc>>
     \/ /\ EndOf(c) <= EndAddr /\ c.addr >= EndOf(c)
        /\ ret' = "ok" /\ rpc' = ReadMode(rpc) /\ UNCHANGED <<pc, pos>>
     \/ /\ EndOf(c) <= EndAddr /\ c.addr < EndOf(c)
        /\ ret' = "none"
        /\ pos' = c.addr - (c.addr % SectorSize)
        /\ pc' = "eraseEnable"
        /\ UNCHANGED rpc
  /\ UNCHANGED <<flash, chip, cached, lost, powerLosses, unfinished>>

EraseEnable ==
  /\ pc = "eraseEnable"
  /\ rpc' = Transfer(rpc, "writeEnable", rpc.addr)
  /\ pc' = "eraseCmd"
  /\ UNCHANGED <<flash, chip, cached, call, pos, ret, lost, calls, powerLosses, unfinished>>

EraseCmd ==
  /\ pc = "eraseCmd" /\ rpc.tend
  /\ rpc' = Transfer(rpc, "sectorErase", pos)
  /\ pc' = "erasePoll"
  /\ UNCHANGED <<flash, chip, cached, call, pos, ret, lost, calls, powerLosses, unfinished>>

\* rzg_rpc_read_status, after an erase and after a page.
Poll ==
  /\ pc \in {"erasePoll", "pagePoll"} /\ rpc.tend
  /\ rpc' = Transfer(rpc, "readStatus", rpc.addr)
  /\ pc' = IF pc = "erasePoll" THEN "eraseCheck" ELSE "pageCheck"
  /\ UNCHANGED <<flash, chip, cached, call, pos, ret, lost, calls, powerLosses, unfinished>>

\* Mutant: the loop tests the same status again and again.
StillBusyStale ==
  /\ pc \in {"eraseCheck", "pageCheck"} /\ rpc.tend
  /\ rpc.rdr
  /\ UNCHANGED vars

StillBusy ==
  /\ pc \in {"eraseCheck", "pageCheck"} /\ rpc.tend
  /\ rpc.rdr
  /\ pc' = IF pc = "eraseCheck" THEN "erasePoll" ELSE "pagePoll"
  /\ UNCHANGED <<flash, chip, rpc, cached, call, pos, ret, lost, calls, powerLosses, unfinished>>

\* Mutant: WRITE ENABLE is sent once, before the loop.
SectorErasedEnabledOnce ==
  /\ pc = "eraseCheck" /\ rpc.tend /\ ~rpc.rdr
  /\ IF pos + SectorSize <= EraseEnd
     THEN /\ pos' = pos + SectorSize
          /\ pc' = "eraseCmd"
          /\ UNCHANGED rpc
     ELSE /\ pos' = call.addr
          /\ pc' = "pageEnable"
          /\ rpc' = ReadMode(rpc)
  /\ UNCHANGED <<flash, chip, cached, call, ret, lost, calls, powerLosses, unfinished>>

\* The next sector, or on to spi_write_buff through the read mode.
SectorErased ==
  /\ pc = "eraseCheck" /\ rpc.tend /\ ~rpc.rdr
  /\ IF pos + SectorSize <= EraseEnd
     THEN /\ pos' = pos + SectorSize
          /\ pc' = "eraseEnable"
          /\ UNCHANGED rpc
     ELSE /\ pos' = call.addr
          /\ pc' = "pageEnable"
          /\ rpc' = ReadMode(rpc)
  /\ UNCHANGED <<flash, chip, cached, call, ret, lost, calls, powerLosses, unfinished>>

PageEnable ==
  /\ pc = "pageEnable"
  /\ rpc' = Transfer(rpc, "writeEnable", rpc.addr)
  /\ pc' = "pageCmd"
  /\ UNCHANGED <<flash, chip, cached, call, pos, ret, lost, calls, powerLosses, unfinished>>

\* Mutant: buff is not advanced with flash_addr.
PageAtFirst(p) ==
  [i \in 0 .. PageSize - 1 |->
     IF p + i < call.addr + call.len THEN call.data[i] ELSE FF]

\* The page at pos; less than a page is padded with 0xFF (fraction_buff).
PageAt(p) ==
  [i \in 0 .. PageSize - 1 |->
     IF p + i < call.addr + call.len THEN call.data[p - call.addr + i] ELSE FF]

\* rzg_rpc_write_buff: clear the read cache, fill the write buffer, start.
PageCmd ==
  /\ pc = "pageCmd" /\ rpc.tend
  /\ cached' = NothingCached
  /\ rpc' = Transfer([rpc EXCEPT !.data = PageAt(pos)], "pageProgram", pos)
  /\ pc' = "pageEnd"
  /\ UNCHANGED <<flash, chip, call, pos, ret, lost, calls, powerLosses, unfinished>>

\* ... and after the transfer: write buffer off, PHYMEM to HyperFlash, clear
\* the read cache again.
PageEnd ==
  /\ pc = "pageEnd" /\ rpc.tend
  /\ rpc' = [rpc EXCEPT !.wbuf = FALSE, !.phymem = "hyper"]
  /\ cached' = NothingCached
  /\ pc' = "pagePoll"
  /\ UNCHANGED <<flash, chip, call, pos, ret, lost, calls, powerLosses, unfinished>>

\* Mutant: returns without rzg_rpc_read_ext_mode_init.
PageWrittenManual ==
  /\ pc = "pageCheck" /\ rpc.tend /\ ~rpc.rdr
  /\ IF pos + PageSize < call.addr + call.len
     THEN /\ pos' = pos + PageSize
          /\ pc' = "pageEnable"
          /\ UNCHANGED ret
     ELSE /\ ret' = "ok"
          /\ pc' = "idle"
          /\ UNCHANGED pos
  /\ UNCHANGED <<flash, chip, rpc, cached, call, lost, calls, powerLosses, unfinished>>

\* The next page, or return through the read mode.
PageWritten ==
  /\ pc = "pageCheck" /\ rpc.tend /\ ~rpc.rdr
  /\ IF pos + PageSize < call.addr + call.len
     THEN /\ pos' = pos + PageSize
          /\ pc' = "pageEnable"
          /\ UNCHANGED <<rpc, ret>>
     ELSE /\ rpc' = ReadMode(rpc)
          /\ ret' = "ok"
          /\ pc' = "idle"
          /\ UNCHANGED pos
  /\ UNCHANGED <<flash, chip, cached, call, lost, calls, powerLosses, unfinished>>

\* Between calls, flash_read and the ToC scan read through the mapping.
ReadSector(s) ==
  /\ pc = "idle" /\ cached[s] = "none"
  /\ cached' = [cached EXCEPT ![s] = "fresh"]
  /\ UNCHANGED <<flash, chip, rpc, pc, call, pos, ret, lost, calls, powerLosses, unfinished>>

\* Power fails: bytes being erased or programmed are left undefined.  The
\* restarted program opens the device again, which sets the read mode.
PowerLoss ==
  /\ powerLosses < MaxPowerLoss
  /\ powerLosses' = powerLosses + 1
  /\ flash' = [a \in Addr |-> IF a \in JobCells THEN Junk ELSE flash[a]]
  /\ chip' = IdleChip
  /\ rpc' = [ReadMode(rpc) EXCEPT !.tend = TRUE, !.cmd = "none", !.addr = 0,
                                  !.data = BlankPage, !.rdr = FALSE]
  /\ unfinished' = unfinished \cup JobSectors
  /\ cached' = NothingCached
  /\ pc' = "idle" /\ call' = NoCall /\ pos' = 0 /\ ret' = "none"
  /\ UNCHANGED <<lost, calls>>

Driver ==
  \/ EraseEnable \/ EraseCmd \/ Poll \/ StillBusy \/ SectorErased
  \/ PageEnable \/ PageCmd \/ PageEnd \/ PageWritten

Next ==
  \/ \E c \in Calls : WriteBuff(c)
  \/ \E s \in Sector : ReadSector(s)
  \/ Driver \/ TransferEnd \/ ChipDone \/ PowerLoss

Spec == Init /\ [][Next]_vars

\* The driver runs, transfers end, and the chip finishes what it began.
FairSpec ==
  Spec /\ WF_vars(Driver) /\ WF_vars(TransferEnd) /\ WF_vars(ChipDone)

-----------------------------------------------------------------------------
(***************************************************************************)
(* Properties.                                                             *)
(***************************************************************************)
\* Every command finds the chip ready for it: selected, not busy, and enabled
\* by a WRITE ENABLE that no other command has used up (spi_erase_1sector and
\* spi_write_buff pair each command with one and poll after it).
NothingLost == ~lost

\* A call for an address of the part that returns SPI_RET_OK has put the caller's bytes
\* into the flash.
WriteResult ==
  ret = "ok" /\ call.addr < EndAddr =>
    \A i \in 0 .. call.len - 1 : flash[call.addr + i] = call.data[i]

\* Whenever the driver is not in a call, the flash can be read through the
\* mapping and shows what the chip holds: read mode, chip ready, no cached
\* sector out of date (only rzg_rpc_write_buff clears the cache, not the erase).
ReadableWhenIdle ==
  pc = "idle" =>
    /\ rpc.md = "ext" /\ rpc.phymem = "qspi" /\ ~rpc.wbuf /\ rpc.tend
    /\ ~chip.wip
    /\ \A s \in Sector : cached[s] # "stale"

\* Every call returns.
CallReturns == pc # "idle" ~> pc = "idle"

-----------------------------------------------------------------------------
(***************************************************************************)
(* The driver implements SectorStore: only the sector written and, if the  *)
(* call goes to its end, the one after it ever change.                     *)
(***************************************************************************)
SectorBytes(s) == [i \in 0 .. SectorSize - 1 |-> flash[s * SectorSize + i]]

\* The sector that a call makes: erased around what it writes.
SectorMade(c) ==
  LET at == c.addr % SectorSize
  IN [i \in 0 .. SectorSize - 1 |-> IF i - at \in 0 .. c.len - 1 THEN c.data[i - at] ELSE FF]

\* A call that ends inside a sector.
EndsInside(c) == (c.addr + c.len) % SectorSize # 0

AbsErased == [i \in 0 .. SectorSize - 1 |-> FF]
AbsTorn == [i \in 0 .. SectorSize - 1 |-> Junk]
AbsContent ==
  {AbsErased, AbsTorn, [i \in 0 .. SectorSize - 1 |-> Old]}
    \cup {SectorMade(c) : c \in Calls}

\* The chip has done the erase, or the last page, that the driver waits for.
EraseDone ==
  /\ pc \in {"erasePoll", "eraseCheck"} /\ ~chip.wip
  /\ pc = "erasePoll" => rpc.tend

LastPageDone ==
  /\ pc \in {"pageEnd", "pagePoll", "pageCheck"} /\ ~chip.wip
  /\ pc = "pageEnd" => rpc.tend
  /\ OnLastPage

AbsPhase ==
  CASE pc = "idle" \/ LastPageDone -> "idle"
    [] pc \in {"eraseEnable", "eraseCmd", "erasePoll", "eraseCheck"} ->
         IF EndsInside(call) THEN IF EraseDone THEN "program" ELSE "erasePart"
         ELSE IF pos = EraseTop THEN IF EraseDone THEN "eraseNext" ELSE "eraseTarget"
         ELSE IF EraseDone THEN "program" ELSE "eraseNext"
    [] OTHER -> "program"

AbsOp ==
  [ph   |-> AbsPhase,
   blk  |-> IF SectorOf(call.addr) < NSectors THEN SectorOf(call.addr) ELSE NSectors,
   data |-> SectorMade(call),
   ret  |-> IF LastPageDone THEN "ok" ELSE ret]

\* While pages are being programmed the target still counts as erased; a sector
\* left unfinished is torn, whatever its bytes happen to be.
AbsSec ==
  [s \in Sector |->
     IF AbsPhase = "program" /\ s = SectorOf(call.addr) THEN AbsErased
     ELSE IF s \in unfinished THEN AbsTorn ELSE SectorBytes(s)]

Store == INSTANCE SectorStore
           WITH Content <- AbsContent, Erased <- AbsErased, Torn <- AbsTorn,
                sec <- AbsSec, op <- AbsOp

ImplementsStore == Store!StoreSpec
=============================================================================
