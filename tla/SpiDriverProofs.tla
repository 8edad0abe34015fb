--------------------------- MODULE SpiDriverProofs ---------------------------
(***************************************************************************)
(* Proofs about SpiDriver, for every geometry of the part, every set of    *)
(* calls and any number of power losses: no command is lost, the flash can *)
(* be read between calls, a call that succeeds has written its bytes, and  *)
(* the driver implements SectorStore.                                      *)
(***************************************************************************)
EXTENDS SpiDriver, DivisionFacts, TLAPS

Steps == {"idle", "eraseEnable", "eraseCmd", "erasePoll", "eraseCheck",
          "pageEnable", "pageCmd", "pageEnd", "pagePoll", "pageCheck"}

\* The shape of the two records.
IsRpc(r) ==
  /\ r = [md |-> r.md, phymem |-> r.phymem, wbuf |-> r.wbuf, data |-> r.data,
          cmd |-> r.cmd, addr |-> r.addr, tend |-> r.tend, rdr |-> r.rdr]
  /\ r.wbuf \in BOOLEAN /\ r.tend \in BOOLEAN /\ r.rdr \in BOOLEAN

IsChip(h) ==
  /\ h = [wel |-> h.wel, wip |-> h.wip, job |-> h.job]
  /\ h.wel \in BOOLEAN /\ h.wip \in BOOLEAN

ShapeInv ==
  /\ IsRpc(rpc) /\ IsChip(chip) /\ pc \in Steps
  /\ cached \in [Sector -> {"none", "fresh", "stale"}]

\* A transfer under way will be obeyed when it ends.
TransferInv ==
  ~rpc.tend =>
    /\ rpc.cmd \in {"writeEnable", "sectorErase", "pageProgram", "readStatus"}
    /\ rpc.md = "manual" /\ rpc.phymem = "qspi"
    /\ rpc.wbuf <=> rpc.cmd = "pageProgram"
    /\ rpc.cmd # "readStatus" => ~chip.wip
    /\ rpc.cmd \in {"sectorErase", "pageProgram"} => chip.wel

\* What each step of the driver relies on: which transfer it waits for, and what it
\* knows of the chip when that has ended.
StepInv ==
  /\ pc \in {"idle", "eraseEnable", "pageEnable"} => rpc.tend /\ ~chip.wip
  /\ pc \in {"eraseCmd", "pageCmd"} =>
       rpc.cmd = "writeEnable" /\ ~chip.wip /\ (rpc.tend => chip.wel)
  /\ pc = "erasePoll" /\ ~rpc.tend => rpc.cmd = "sectorErase"
  /\ pc = "pageEnd" /\ ~rpc.tend => rpc.cmd = "pageProgram"
  /\ pc = "pagePoll" => rpc.tend
  /\ pc \in {"eraseCheck", "pageCheck"} =>
       rpc.cmd = "readStatus" /\ (rpc.tend /\ ~rpc.rdr => ~chip.wip)

\* Nothing the controller has cached is out of date once the first page is on its way.
CacheInv ==
  /\ pc \in {"pageEnd", "pagePoll", "pageCheck"} => \A s \in Sector : cached[s] = "none"
  /\ pc = "idle" => \A s \in Sector : cached[s] # "stale"

ModeInv == pc = "idle" => rpc.md = "ext" /\ rpc.phymem = "qspi" /\ ~rpc.wbuf

CtlInv == ShapeInv /\ TransferInv /\ StepInv /\ CacheInv /\ ModeInv /\ NothingLost

-----------------------------------------------------------------------------
LEMMA TransferFacts ==
  ASSUME NEW r, IsRpc(r), NEW cmd, NEW a
  PROVE  LET t == Transfer(r, cmd, a)
         IN /\ IsRpc(t) /\ t.md = "manual" /\ t.phymem = "qspi" /\ ~t.tend
            /\ t.wbuf <=> cmd = "pageProgram"
            /\ t.cmd = cmd
<1>. DEFINE t == Transfer(r, cmd, a)
<1>1. t = [r EXCEPT !.md = "manual", !.phymem = "qspi", !.wbuf = (cmd = "pageProgram"),
                    !.cmd = cmd, !.addr = a, !.tend = FALSE]
  BY DEF Transfer
<1>2. (cmd = "pageProgram") \in BOOLEAN
  OBVIOUS
<1>. HIDE DEF t
<1>3. t = [md |-> "manual", phymem |-> "qspi", wbuf |-> (cmd = "pageProgram"), data |-> r.data,
           cmd |-> cmd, addr |-> a, tend |-> FALSE, rdr |-> r.rdr]
  BY <1>1 DEF IsRpc
<1>4. /\ t.md = "manual" /\ t.phymem = "qspi" /\ ~t.tend /\ (t.wbuf <=> cmd = "pageProgram")
      /\ t.cmd = cmd /\ t.tend \in BOOLEAN /\ t.wbuf \in BOOLEAN /\ t.rdr \in BOOLEAN
  BY <1>2, <1>3 DEF IsRpc
<1>5. t = [md |-> t.md, phymem |-> t.phymem, wbuf |-> t.wbuf, data |-> t.data,
           cmd |-> t.cmd, addr |-> t.addr, tend |-> t.tend, rdr |-> t.rdr]
  BY <1>3
<1>. QED  BY <1>4, <1>5 DEF IsRpc, t

LEMMA ReadModeFacts ==
  ASSUME NEW r, IsRpc(r)
  PROVE  LET t == ReadMode(r)
         IN /\ IsRpc(t) /\ t.md = "ext" /\ t.phymem = "qspi" /\ ~t.wbuf
            /\ t.tend = r.tend /\ t.cmd = r.cmd /\ t.rdr = r.rdr
<1>. DEFINE t == ReadMode(r)
<1>1. t = [r EXCEPT !.md = "ext", !.phymem = "qspi", !.wbuf = FALSE]
  BY DEF ReadMode
<1>. HIDE DEF t
<1>2. t = [md |-> "ext", phymem |-> "qspi", wbuf |-> FALSE, data |-> r.data,
           cmd |-> r.cmd, addr |-> r.addr, tend |-> r.tend, rdr |-> r.rdr]
  BY <1>1 DEF IsRpc
<1>3. /\ t.md = "ext" /\ t.phymem = "qspi" /\ ~t.wbuf
      /\ t.tend = r.tend /\ t.cmd = r.cmd /\ t.rdr = r.rdr
      /\ t.tend \in BOOLEAN /\ t.wbuf \in BOOLEAN /\ t.rdr \in BOOLEAN
  BY <1>2 DEF IsRpc
<1>4. t = [md |-> t.md, phymem |-> t.phymem, wbuf |-> t.wbuf, data |-> t.data,
           cmd |-> t.cmd, addr |-> t.addr, tend |-> t.tend, rdr |-> t.rdr]
  BY <1>2
<1>. QED  BY <1>3, <1>4 DEF IsRpc, t

LEMMA InitCtl == Init => CtlInv
<1>. SUFFICES ASSUME Init PROVE CtlInv
  OBVIOUS
<1>1. IsRpc(rpc) /\ rpc.md = "ext" /\ rpc.phymem = "qspi" /\ ~rpc.wbuf /\ rpc.tend
  BY DEF Init, ReadMode, IsRpc
<1>2. IsChip(chip) /\ ~chip.wip
  BY DEF Init, IdleChip, IsChip
<1>3. pc = "idle" /\ pc \in Steps /\ ~lost /\ cached = [s \in Sector |-> "none"]
  BY DEF Init, Steps, NothingCached
<1>. QED
  BY <1>1, <1>2, <1>3 DEF CtlInv, ShapeInv, TransferInv, StepInv, CacheInv, ModeInv, NothingLost

\* The end of a transfer: the command finds what TransferInv says, and is obeyed.
LEMMA TransferEndCtl == ASSUME CtlInv, TransferEnd PROVE CtlInv'
<1>1. /\ ~rpc.tend /\ rpc.tend \in BOOLEAN /\ IsRpc(rpc) /\ IsChip(chip)
      /\ rpc' = [rpc EXCEPT !.tend = TRUE,
                   !.rdr = IF rpc.cmd = "readStatus" THEN chip.wip ELSE rpc.rdr]
  BY DEF TransferEnd, CtlInv, ShapeInv, IsRpc
<1>2. /\ IsRpc(rpc') /\ rpc'.tend /\ rpc'.cmd = rpc.cmd
      /\ rpc'.rdr = (IF rpc.cmd = "readStatus" THEN chip.wip ELSE rpc.rdr)
  BY <1>1 DEF IsRpc, IsChip
<1>3. rpc.cmd = "readStatus" \/ Obeyed
  BY <1>1 DEF CtlInv, TransferInv, Obeyed
<1>4. ~lost'
  BY <1>3 DEF TransferEnd, CtlInv, NothingLost
<1>5. /\ IsChip(chip')
      /\ rpc.cmd = "readStatus" => chip' = chip
      /\ rpc.cmd = "writeEnable" => chip'.wel /\ chip'.wip = chip.wip
  <2>1. CASE rpc.cmd = "readStatus"
    BY <1>1, <2>1 DEF TransferEnd
  <2>2. CASE rpc.cmd = "writeEnable"
    <3>1. chip' = [chip EXCEPT !.wel = TRUE]
      BY <1>3, <2>2 DEF TransferEnd
    <3>. QED  BY <1>1, <2>2, <3>1 DEF IsChip
  <2>3. CASE rpc.cmd = "sectorErase"
    <3>1. PICK s \in ErasedBy(rpc.addr) :
            chip' = [chip EXCEPT !.wip = TRUE, !.job = [NoJob EXCEPT !.kind = "erase", !.at = s]]
      BY <1>3, <2>3 DEF TransferEnd
    <3>. QED  BY <1>1, <2>3, <3>1 DEF IsChip
  <2>4. CASE rpc.cmd = "pageProgram"
    <3>1. chip' = [chip EXCEPT !.wip = TRUE,
                     !.job = [kind |-> "program", at |-> rpc.addr, data |-> rpc.data]]
      BY <1>3, <2>4 DEF TransferEnd
    <3>. QED  BY <1>1, <2>4, <3>1 DEF IsChip
  <2>. QED  BY <1>1, <2>1, <2>2, <2>3, <2>4 DEF CtlInv, TransferInv
<1>6. pc' = pc /\ cached' = cached /\ pc \notin {"idle", "eraseEnable", "pageEnable", "pagePoll"}
  BY <1>1 DEF TransferEnd, CtlInv, StepInv
<1>7. ShapeInv' /\ TransferInv' /\ CacheInv' /\ ModeInv'
  BY <1>2, <1>5, <1>6 DEF CtlInv, ShapeInv, TransferInv, CacheInv, ModeInv
<1>8. StepInv'
  <2>1. CASE pc \in {"eraseCmd", "pageCmd"}
    BY <1>2, <1>5, <1>6, <2>1 DEF CtlInv, StepInv
  <2>2. CASE pc \in {"eraseCheck", "pageCheck"}
    BY <1>2, <1>5, <1>6, <2>2 DEF CtlInv, StepInv
  <2>3. CASE pc \in {"erasePoll", "pageEnd"}
    BY <1>2, <1>6, <2>3 DEF StepInv
  <2>. QED  BY <1>6, <2>1, <2>2, <2>3 DEF CtlInv, ShapeInv, Steps
<1>. QED  BY <1>4, <1>7, <1>8 DEF CtlInv, NothingLost

\* The chip finishes: it is no longer busy, and what is cached of it may be stale, but
\* not while nothing is cached.
LEMMA ChipDoneCtl == ASSUME CtlInv, ChipDone PROVE CtlInv'
<1>1. chip' = IdleChip /\ rpc' = rpc /\ pc' = pc /\ lost' = lost /\ chip.wip
  BY DEF ChipDone
<1>2. IsChip(chip') /\ ~chip'.wip
  BY <1>1 DEF IdleChip, IsChip
<1>3. /\ cached' \in [Sector -> {"none", "fresh", "stale"}]
      /\ \A s \in Sector : cached[s] = "none" => cached'[s] = "none"
  BY DEF ChipDone, CtlInv, ShapeInv
<1>4. pc \notin {"idle", "eraseEnable", "pageEnable", "eraseCmd", "pageCmd"}
  BY <1>1 DEF CtlInv, StepInv
<1>5. ~rpc.tend => rpc.cmd = "readStatus"
  BY <1>1 DEF CtlInv, TransferInv
<1>. QED
  BY <1>1, <1>2, <1>3, <1>4, <1>5
     DEF CtlInv, ShapeInv, TransferInv, StepInv, CacheInv, ModeInv, NothingLost

\* The steps of the driver that start a transfer.
LEMMA StartCtl ==
  ASSUME CtlInv, EraseEnable \/ EraseCmd \/ Poll \/ PageEnable \/ PageCmd
  PROVE  CtlInv'
<1>. USE DEF CtlInv, ShapeInv, TransferInv, StepInv, CacheInv, ModeInv, NothingLost, Steps
<1>1. CASE EraseEnable
  BY <1>1, TransferFacts DEF EraseEnable
<1>2. CASE EraseCmd
  BY <1>2, TransferFacts DEF EraseCmd
<1>3. CASE Poll
  BY <1>3, TransferFacts DEF Poll
<1>4. CASE PageEnable
  BY <1>4, TransferFacts DEF PageEnable
<1>5. CASE PageCmd
  <2>1. IsRpc([rpc EXCEPT !.data = PageAt(pos)])
    BY DEF IsRpc
  <2>2. /\ IsRpc(rpc') /\ rpc'.md = "manual" /\ rpc'.phymem = "qspi" /\ ~rpc'.tend
        /\ rpc'.wbuf /\ rpc'.cmd = "pageProgram"
    BY <1>5, <2>1, TransferFacts DEF PageCmd
  <2>3. /\ cached' = [s \in Sector |-> "none"] /\ pc' = "pageEnd" /\ chip' = chip /\ lost' = lost
        /\ ~chip.wip /\ chip.wel
    BY <1>5 DEF PageCmd, NothingCached
  <2>. QED  BY <2>2, <2>3
<1>. QED  BY <1>1, <1>2, <1>3, <1>4, <1>5

\* The steps that go on when a transfer has ended.
LEMMA GoOnCtl ==
  ASSUME CtlInv, StillBusy \/ SectorErased \/ PageEnd \/ PageWritten
  PROVE  CtlInv'
<1>. USE DEF CtlInv, ShapeInv, TransferInv, StepInv, CacheInv, ModeInv, NothingLost, Steps
<1>1. CASE StillBusy
  BY <1>1 DEF StillBusy
<1>2. CASE SectorErased
  <2>1. /\ rpc.tend /\ ~chip.wip /\ chip' = chip /\ cached' = cached /\ lost' = lost
        /\ pc' \in {"eraseEnable", "pageEnable"} /\ (rpc' = rpc \/ rpc' = ReadMode(rpc))
    BY <1>2 DEF SectorErased
  <2>2. IsRpc(rpc') /\ rpc'.tend
    BY <2>1, ReadModeFacts
  <2>. QED  BY <2>1, <2>2
<1>3. CASE PageEnd
  <2>1. /\ rpc.tend /\ chip' = chip /\ lost' = lost /\ pc' = "pagePoll"
        /\ cached' = [s \in Sector |-> "none"]
        /\ rpc' = [rpc EXCEPT !.wbuf = FALSE, !.phymem = "hyper"]
    BY <1>3 DEF PageEnd, NothingCached
  <2>2. IsRpc(rpc') /\ rpc'.tend
    BY <2>1 DEF IsRpc
  <2>. QED  BY <2>1, <2>2
<1>4. CASE PageWritten
  <2>1. /\ rpc.tend /\ ~chip.wip /\ chip' = chip /\ cached' = cached /\ lost' = lost
        /\ \A s \in Sector : cached[s] = "none"
        /\ \/ pc' = "pageEnable" /\ rpc' = rpc
           \/ pc' = "idle" /\ rpc' = ReadMode(rpc)
    BY <1>4 DEF PageWritten
  <2>2. /\ IsRpc(rpc') /\ rpc'.tend
        /\ pc' = "idle" => rpc'.md = "ext" /\ rpc'.phymem = "qspi" /\ ~rpc'.wbuf
    BY <2>1, ReadModeFacts
  <2>. QED  BY <2>1, <2>2
<1>. QED  BY <1>1, <1>2, <1>3, <1>4

\* The steps between calls, and a power loss.
LEMMA OutsideCtl ==
  ASSUME CtlInv,
         \/ \E c \in Calls : WriteBuff(c)
         \/ \E s \in Sector : ReadSector(s)
         \/ PowerLoss
  PROVE  CtlInv'
<1>. USE DEF CtlInv, ShapeInv, TransferInv, StepInv, CacheInv, ModeInv, NothingLost, Steps
<1>1. ASSUME NEW c \in Calls, WriteBuff(c) PROVE CtlInv'
  <2>1. /\ pc = "idle" /\ chip' = chip /\ cached' = cached /\ lost' = lost
        /\ (pc' = pc /\ (rpc' = rpc \/ rpc' = ReadMode(rpc))) \/ (pc' = "eraseEnable" /\ rpc' = rpc)
    BY <1>1, Zenon DEF WriteBuff
  <2>2. CASE rpc' = rpc
    <3>1. pc' \in {"idle", "eraseEnable"}
      BY <2>1
    <3>. QED  BY <2>1, <2>2, <3>1
  <2>3. CASE pc' = pc /\ rpc' = ReadMode(rpc)
    <3>1. rpc.tend /\ IsRpc(rpc)
      BY <2>1
    <3>2. IsRpc(rpc') /\ rpc'.tend /\ rpc'.md = "ext" /\ rpc'.phymem = "qspi" /\ ~rpc'.wbuf
      BY <2>3, <3>1, ReadModeFacts
    <3>. QED  BY <2>1, <2>3, <3>2
  <2>. QED  BY <2>1, <2>2, <2>3
<1>2. ASSUME NEW s \in Sector, ReadSector(s) PROVE CtlInv'
  BY <1>2 DEF ReadSector
<1>3. CASE PowerLoss
  <2>. DEFINE r == ReadMode(rpc)
  <2>1. IsRpc(r) /\ r.md = "ext" /\ r.phymem = "qspi" /\ ~r.wbuf
    BY ReadModeFacts
  <2>2. rpc' = [r EXCEPT !.tend = TRUE, !.cmd = "none", !.addr = 0,
                         !.data = BlankPage, !.rdr = FALSE]
    BY <1>3 DEF PowerLoss
  <2>. HIDE DEF r
  <2>3. IsRpc(rpc') /\ rpc'.tend /\ rpc'.md = "ext" /\ rpc'.phymem = "qspi" /\ ~rpc'.wbuf
    BY <2>1, <2>2 DEF IsRpc
  <2>4. IsChip(chip') /\ ~chip'.wip
    BY <1>3 DEF PowerLoss, IdleChip, IsChip
  <2>5. pc' = "idle" /\ lost' = lost /\ cached' = [s \in Sector |-> "none"]
    BY <1>3 DEF PowerLoss, NothingCached
  <2>. QED  BY <2>3, <2>4, <2>5
<1>. QED  BY <1>1, <1>2, <1>3

LEMMA NextCtl == CtlInv /\ [Next]_vars => CtlInv'
<1>. SUFFICES ASSUME CtlInv, [Next]_vars PROVE CtlInv'
  OBVIOUS
<1>1. CASE UNCHANGED vars
  BY <1>1 DEF vars, CtlInv, ShapeInv, TransferInv, StepInv, CacheInv, ModeInv, NothingLost
<1>2. CASE Driver
  BY <1>2, StartCtl, GoOnCtl DEF Driver
<1>. QED  BY <1>1, <1>2, OutsideCtl, TransferEndCtl, ChipDoneCtl DEF Next

\* At each step of the driver the transfer, the chip and the cache are as it relies on.
THEOREM ControlInvariant == Spec => []CtlInv
<1>. QED  BY InitCtl, NextCtl, PTL DEF Spec

\* Every command finds the chip selected, not busy and enabled: none is lost, in any
\* order of the driver, the controller and the chip.
THEOREM CommandsObeyed == Spec => []NothingLost
<1>1. CtlInv => NothingLost
  BY DEF CtlInv
<1>. QED  BY <1>1, ControlInvariant, PTL

\* Between calls the controller is in its read mode with nothing out of date in its
\* cache, and the chip is ready.
THEOREM AlwaysReadable == Spec => []ReadableWhenIdle
<1>1. CtlInv => ReadableWhenIdle
  BY DEF CtlInv, StepInv, CacheInv, ModeInv, ReadableWhenIdle
<1>. QED  BY <1>1, ControlInvariant, PTL

-----------------------------------------------------------------------------
(* What a call writes.                                                       *)

CallOk ==
  /\ call.addr \in Nat /\ call.len \in Nat \ {0} /\ call.addr + call.len <= EndAddr
  /\ call.addr % PageSize = 0
  /\ call.addr \div SectorSize = (call.addr + call.len - 1) \div SectorSize

\* The sector of the call is erased; the call is written up to address p; and from
\* p on its sector is erased.
Blank == \A a \in Addr : SectorOf(a) = SectorOf(call.addr) => flash[a] = FF

DoneTo(p) ==
  \A i \in 0 .. call.len - 1 : call.addr + i < p => flash[call.addr + i] = call.data[i]

BlankFrom(p) ==
  \A a \in Addr : SectorOf(a) = SectorOf(call.addr) /\ a >= p => flash[a] = FF

PosOk == pos \in Nat /\ call.addr <= pos /\ pos % PageSize = 0

\* Before an erase command reaches the chip, and after.
EraseBefore == pc \in {"eraseEnable", "eraseCmd"} \/ (pc = "erasePoll" /\ ~rpc.tend)
EraseAfter == pc = "eraseCheck" \/ (pc = "erasePoll" /\ rpc.tend)

\* The first sector erased is that of the call; what is erased after it does no harm.
EraseInv ==
  /\ EraseBefore => pos = EraseTop \/ Blank
  /\ pc = "erasePoll" /\ ~rpc.tend => rpc.addr = pos
  /\ EraseAfter =>
       IF chip.wip THEN chip.job.kind = "erase" /\ (chip.job.at = SectorOf(call.addr) \/ Blank)
       ELSE Blank

\* Before a page reaches the chip, and after.
PageBefore == pc \in {"pageEnable", "pageCmd"} \/ (pc = "pageEnd" /\ ~rpc.tend)
PageAfter == pc \in {"pagePoll", "pageCheck"} \/ (pc = "pageEnd" /\ rpc.tend)

PageInv ==
  /\ PageBefore => PosOk /\ DoneTo(pos) /\ BlankFrom(pos)
  /\ pc = "pageEnd" /\ ~rpc.tend => rpc.addr = pos /\ rpc.data = PageAt(pos)
  /\ PageAfter =>
       /\ PosOk
       /\ IF chip.wip
          THEN /\ chip.job.kind = "program" /\ chip.job.at = pos /\ chip.job.data = PageAt(pos)
               /\ DoneTo(pos) /\ BlankFrom(pos)
          ELSE DoneTo(pos + PageSize) /\ BlankFrom(pos + PageSize)

WriteInv ==
  /\ pc # "idle" => CallOk /\ ret # "ok"
  /\ EraseInv /\ PageInv /\ WriteResult

LEMMA Sizes == /\ PageSize \in Nat \ {0} /\ SectorSize \in Nat \ {0}
               /\ NSectors \in Nat \ {0} /\ EndAddr \in Nat
<1>1. PICK k \in 1 .. SectorSize : SectorSize = k * PageSize
  BY DriverAssumption
<1>2. PageSize \in Nat \ {0} /\ NSectors \in Nat \ {0}
  BY DriverAssumption
<1>3. SectorSize \in Int
  BY <1>1, <1>2
<1>4. SectorSize \in Nat \ {0}
  BY <1>1, <1>2, <1>3
<1>. QED  BY <1>2, <1>4 DEF EndAddr

\* A call is refused or done in the part; if its end is the end of the 32-bit addresses,
\* nothing is done.
LEMMA WriteBuffCases ==
  ASSUME NEW c \in Calls, WriteBuff(c)
  PROVE  \/ c.addr + c.len > EndAddr /\ ret' = "ng" /\ UNCHANGED <<pc, pos>>
         \/ c.addr >= EndAddr /\ ret' = "ok" /\ UNCHANGED <<pc, pos>>
         \/ /\ c.addr + c.len <= EndAddr /\ ret' = "none"
            /\ pos' = EraseTop' /\ pc' = "eraseEnable"
<1>1. /\ c.addr \in Nat /\ c.len \in Nat \ {0} /\ c.addr + c.len <= AddrWord
      /\ c.addr \div SectorSize = (c.addr + c.len - 1) \div SectorSize
  BY DriverAssumption
<1>2. SectorSize \in Nat \ {0} /\ NSectors \in Nat \ {0} /\ EndAddr \in Nat
      /\ EndAddr = SectorSize * NSectors
  BY Sizes DEF EndAddr
<1>3. PICK m \in NSectors + 1 .. AddrWord : AddrWord = m * SectorSize
  BY DriverAssumption
<1>4. m \in Int /\ NSectors < m /\ AddrWord = SectorSize * m /\ AddrWord \in Int
  BY <1>2, <1>3
<1>5. CASE c.addr + c.len < AddrWord
  <2>1. (c.addr + c.len) % AddrWord = c.addr + c.len
    <3>1. AddrWord \in Nat \ {0} /\ c.addr + c.len \in 0 .. AddrWord - 1
      BY <1>1, <1>4, <1>5
    <3>. QED  BY <3>1
  <2>2. EndOf(c) = c.addr + c.len
    BY <2>1 DEF EndOf
  <2>. QED  BY <1>1, <1>2, <2>2 DEF WriteBuff, EraseTop
<1>6. CASE c.addr + c.len = AddrWord
  <2>1. AddrWord - 1 = SectorSize * (m - 1) + (SectorSize - 1)
    <3>1. SectorSize * (m - 1) = SectorSize * m - SectorSize
      BY <1>2, <1>4
    <3>2. SectorSize * m \in Int
      BY <1>2, <1>4
    <3>. QED  BY <1>2, <1>4, <3>1, <3>2
  <2>2. (SectorSize * (m - 1) + (SectorSize - 1)) \div SectorSize = m - 1
    <3>1. m - 1 \in Int /\ SectorSize - 1 \in 0 .. SectorSize - 1
      BY <1>2, <1>4
    <3>. QED  BY <1>2, <3>1, DivisionUnique
  <2>3. ~(c.addr \div SectorSize < NSectors)
    BY <1>1, <1>2, <1>4, <1>6, <2>1, <2>2
  <2>4. c.addr >= EndAddr
    <3>1. ~(c.addr < SectorSize * NSectors)
      BY <1>1, <1>2, <2>3, BelowMultiple
    <3>. QED  BY <1>1, <1>2, <3>1
  <2>5. AddrWord \in Nat \ {0}
    BY <1>1, <1>4, <1>6
  <2>6. AddrWord % AddrWord = 0
    BY <2>5
  <2>7. EndOf(c) = 0
    BY <1>6, <2>6 DEF EndOf
  <2>8. ~(EndOf(c) > EndAddr) /\ ~(c.addr < EndOf(c))
    BY <1>1, <1>2, <2>7
  <2>. QED  BY <2>4, <2>8 DEF WriteBuff
<1>. QED  BY <1>1, <1>4, <1>5, <1>6

\* The first sector that the call erases is the one it writes to.
LEMMA EraseTopFacts ==
  ASSUME CallOk
  PROVE  EraseTop \in Nat /\ EraseTop < EndAddr /\ SectorOf(EraseTop) = SectorOf(call.addr)
<1>1. /\ call.addr \in Nat /\ call.addr < EndAddr /\ EndAddr \in Nat
      /\ SectorSize \in Nat \ {0}
  BY Sizes DEF CallOk
<1>2. EraseTop \in 0 .. call.addr /\ EraseTop \div SectorSize = call.addr \div SectorSize
  BY <1>1, RoundDown DEF EraseTop
<1>. QED  BY <1>1, <1>2 DEF SectorOf

\* The bytes of a call are bytes of the part, all in one sector.
LEMMA CallBytes ==
  ASSUME CallOk, NEW i \in 0 .. call.len - 1
  PROVE  call.addr + i \in Addr /\ SectorOf(call.addr + i) = SectorOf(call.addr)
<1>1. /\ call.addr \in Nat /\ call.len \in Nat \ {0} /\ call.addr + call.len <= EndAddr
      /\ EndAddr \in Nat /\ SectorSize \in Nat \ {0}
  BY Sizes DEF CallOk
<1>. DEFINE a == call.addr + i
            b == call.addr + call.len - 1
<1>2. a \in Int /\ b \in Int /\ call.addr <= a /\ a <= b
  BY <1>1
<1>3. call.addr \div SectorSize <= a \div SectorSize /\ a \div SectorSize <= b \div SectorSize
  BY <1>1, <1>2, DivMonotonic
<1>4. call.addr \div SectorSize = b \div SectorSize
  BY DEF CallOk
<1>5. call.addr \div SectorSize \in Int /\ a \div SectorSize \in Int
  BY <1>1, <1>2
<1>6. a \div SectorSize = call.addr \div SectorSize
  BY <1>3, <1>4, <1>5
<1>. QED  BY <1>1, <1>6 DEF Addr, SectorOf

\* An erase leaves every byte as it was or erased, and erases its sector.
LEMMA EraseDoneFacts ==
  ASSUME ChipDone, chip.job.kind = "erase"
  PROVE  \A a \in Addr : flash'[a] = IF SectorOf(a) = chip.job.at THEN FF ELSE flash[a]
  BY DEF ChipDone, JobCells, JobResult

\* A page is programmed where the driver meant it.
LEMMA PageDoneFacts ==
  ASSUME ChipDone, chip.job.kind = "program", chip.job.at \in Nat,
         chip.job.at % PageSize = 0
  PROVE  \A a \in Addr :
           flash'[a] = IF a - chip.job.at \in 0 .. PageSize - 1
                       THEN Programmed(flash[a], chip.job.data[a - chip.job.at])
                       ELSE flash[a]
<1>. DEFINE p == chip.job.at
<1>1. PageSize \in Nat \ {0} /\ p \in Nat /\ p % PageSize = 0
  BY Sizes
<1>. HIDE DEF p
<1>2. \A i \in 0 .. PageSize - 1 : PageCell(p, i) = p + i
  <2>1. \A i \in 0 .. PageSize - 1 : (p + i) % PageSize = i
    BY <1>1, AddToMultiple
  <2>2. \A i \in 0 .. PageSize - 1 : PageCell(p, i) = p - (p % PageSize) + ((p + i) % PageSize)
    BY DEF PageCell
  <2>. QED  BY <1>1, <2>1, <2>2
<1>3. \A a \in Addr : a \in JobCells <=> a - p \in 0 .. PageSize - 1
  <2>1. JobCells = {PageCell(p, i) : i \in 0 .. PageSize - 1}
    BY DEF JobCells, p
  <2>2. ASSUME NEW a \in Addr PROVE a \in JobCells <=> a - p \in 0 .. PageSize - 1
    <3>1. a \in Int
      BY Sizes DEF Addr
    <3>2. a \in JobCells => a - p \in 0 .. PageSize - 1
      BY <1>1, <1>2, <2>1, <3>1
    <3>3. a - p \in 0 .. PageSize - 1 => a = PageCell(p, a - p)
      BY <1>1, <1>2, <3>1
    <3>. QED  BY <2>1, <3>2, <3>3
  <2>. QED  BY <2>2
<1>4. ASSUME NEW a \in Addr, a - p \in 0 .. PageSize - 1
      PROVE  JobResult(a) = Programmed(flash[a], chip.job.data[a - p])
  <2>1. a \in Int
    BY Sizes DEF Addr
  <2>2. (CHOOSE i \in 0 .. PageSize - 1 : PageCell(p, i) = a) = a - p
    BY <1>1, <1>2, <1>4, <2>1
  <2>. QED  BY <2>2 DEF JobResult, p
<1>5. \A a \in Addr : flash'[a] = IF a \in JobCells THEN JobResult(a) ELSE flash[a]
  BY DEF ChipDone
<1>. QED  BY <1>3, <1>4, <1>5 DEF p

\* The page at pos over erased bytes: the call is written one page further.
LEMMA PageAdvances ==
  ASSUME ChipDone, CallOk, PosOk, DoneTo(pos), BlankFrom(pos),
         chip.job.kind = "program", chip.job.at = pos, chip.job.data = PageAt(pos)
  PROVE  DoneTo(pos + PageSize)' /\ BlankFrom(pos + PageSize)'
<1>1. /\ pos \in Nat /\ call.addr \in Nat /\ call.addr <= pos /\ PageSize \in Nat \ {0}
      /\ call.len \in Nat \ {0} /\ call' = call /\ pos' = pos
  BY Sizes DEF CallOk, PosOk, ChipDone
<1>2. \A a \in Addr :
        flash'[a] = IF a - pos \in 0 .. PageSize - 1
                    THEN Programmed(flash[a], PageAt(pos)[a - pos]) ELSE flash[a]
  BY PageDoneFacts DEF PosOk
<1>3. ASSUME NEW i \in 0 .. call.len - 1, call.addr + i < pos + PageSize
      PROVE  flash'[call.addr + i] = call.data[i]
  <2>. DEFINE a == call.addr + i
  <2>1. a \in Addr /\ SectorOf(a) = SectorOf(call.addr) /\ a \in Int
    BY <1>1, CallBytes
  <2>2. CASE a < pos
    <3>1. ~(a - pos \in 0 .. PageSize - 1) /\ flash[a] = call.data[i]
      BY <1>1, <2>1, <2>2 DEF DoneTo
    <3>. QED  BY <1>2, <2>1, <3>1
  <2>3. CASE a >= pos
    <3>1. a - pos \in 0 .. PageSize - 1 /\ flash[a] = FF
      BY <1>1, <1>3, <2>1, <2>3 DEF BlankFrom
    <3>2. pos + (a - pos) < call.addr + call.len /\ pos - call.addr + (a - pos) = i
      BY <1>1, <2>1
    <3>3. PageAt(pos)[a - pos] = call.data[i]
      BY <3>1, <3>2 DEF PageAt
    <3>4. flash'[a] = Programmed(FF, call.data[i])
      BY <1>2, <2>1, <3>1, <3>3
    <3>. QED  BY <3>4 DEF Programmed
  <2>. QED  BY <1>1, <2>1, <2>2, <2>3
<1>4. ASSUME NEW a \in Addr, SectorOf(a) = SectorOf(call.addr), a >= pos + PageSize
      PROVE  flash'[a] = FF
  <2>1. a \in Int
    BY Sizes DEF Addr
  <2>2. ~(a - pos \in 0 .. PageSize - 1) /\ a >= pos
    BY <1>1, <1>4, <2>1
  <2>. QED  BY <1>2, <1>4, <2>2 DEF BlankFrom
<1>. QED  BY <1>1, <1>3, <1>4 DEF DoneTo, BlankFrom

\* The chip has finished: the erase has made the sector of the call blank, or left it
\* so; the page has taken the call further.
LEMMA ChipDoneWrite == ASSUME CtlInv, WriteInv, ChipDone PROVE WriteInv'
<1>1. /\ chip.wip /\ ~chip'.wip
      /\ rpc' = rpc /\ pc' = pc /\ call' = call /\ pos' = pos /\ ret' = ret
  BY DEF ChipDone, IdleChip
<1>2. pc \notin {"idle", "eraseEnable", "pageEnable", "eraseCmd", "pageCmd"}
      /\ (pc \in {"erasePoll", "pageEnd"} => rpc.tend)
  BY <1>1 DEF CtlInv, StepInv, TransferInv
<1>3. CallOk /\ CallOk' /\ ret' # "ok"
  BY <1>1, <1>2 DEF WriteInv, CallOk
<1>4. ~EraseBefore' /\ ~PageBefore' /\ (pc' = "pageEnd" => rpc'.tend) /\ (pc' = "erasePoll" => rpc'.tend)
  BY <1>1, <1>2 DEF EraseBefore, PageBefore
<1>5. EraseAfter' => Blank'
  <2>. SUFFICES ASSUME EraseAfter' PROVE Blank'
    OBVIOUS
  <2>1. chip.job.kind = "erase" /\ (chip.job.at = SectorOf(call.addr) \/ Blank)
    BY <1>1 DEF EraseAfter, WriteInv, EraseInv
  <2>2. \A a \in Addr : flash'[a] = IF SectorOf(a) = chip.job.at THEN FF ELSE flash[a]
    BY <2>1, EraseDoneFacts
  <2>. QED  BY <1>1, <2>1, <2>2 DEF Blank
<1>6. PageAfter' => PosOk' /\ DoneTo(pos + PageSize)' /\ BlankFrom(pos + PageSize)'
  <2>. SUFFICES ASSUME PageAfter' PROVE PosOk' /\ DoneTo(pos + PageSize)' /\ BlankFrom(pos + PageSize)'
    OBVIOUS
  <2>1. /\ PosOk /\ chip.job.kind = "program" /\ chip.job.at = pos /\ chip.job.data = PageAt(pos)
        /\ DoneTo(pos) /\ BlankFrom(pos)
    BY <1>1 DEF PageAfter, WriteInv, PageInv
  <2>. QED  BY <1>1, <1>3, <2>1, PageAdvances DEF PosOk
<1>7. EraseInv' /\ PageInv'
  BY <1>1, <1>4, <1>5, <1>6 DEF EraseInv, PageInv
<1>. QED  BY <1>3, <1>7 DEF WriteInv, WriteResult

\* A command reaches the chip at the address the driver stands at.
LEMMA TransferEndWrite == ASSUME CtlInv, WriteInv, TransferEnd PROVE WriteInv'
<1>1. /\ ~rpc.tend /\ rpc'.tend /\ IsRpc(rpc) /\ IsChip(chip)
      /\ pc' = pc /\ call' = call /\ pos' = pos /\ ret' = ret /\ flash' = flash
  BY DEF TransferEnd, CtlInv, ShapeInv, IsRpc
<1>2. /\ pc \notin {"idle", "eraseEnable", "pageEnable", "pagePoll"}
      /\ pc \in {"eraseCmd", "pageCmd"} => rpc.cmd = "writeEnable"
      /\ pc = "erasePoll" => rpc.cmd = "sectorErase"
      /\ pc = "pageEnd" => rpc.cmd = "pageProgram"
      /\ pc \in {"eraseCheck", "pageCheck"} => rpc.cmd = "readStatus"
  BY <1>1 DEF CtlInv, StepInv
<1>3. CallOk /\ CallOk' /\ ret' # "ok" /\ WriteResult'
  BY <1>1, <1>2 DEF WriteInv, CallOk, WriteResult
<1>4. rpc.cmd = "readStatus" \/ Obeyed
  BY <1>1 DEF CtlInv, TransferInv, Obeyed
<1>5. EraseInv'
  <2>1. CASE pc = "eraseCmd"
    BY <1>1, <2>1 DEF WriteInv, EraseInv, EraseBefore, EraseAfter, EraseTop, Blank
  <2>2. CASE pc = "erasePoll"
    <3>1. PICK s \in ErasedBy(rpc.addr) :
            chip' = [chip EXCEPT !.wip = TRUE, !.job = [NoJob EXCEPT !.kind = "erase", !.at = s]]
      BY <1>2, <1>4, <2>2 DEF TransferEnd
    <3>2. chip'.wip /\ chip'.job.kind = "erase" /\ chip'.job.at = s
      BY <1>1, <3>1 DEF IsChip, NoJob
    <3>3. rpc.addr = pos /\ (pos = EraseTop \/ Blank)
      BY <1>1, <2>2 DEF WriteInv, EraseInv, EraseBefore
    <3>4. s = SectorOf(call.addr) \/ Blank
      <4>1. CASE pos = EraseTop
        BY <1>3, <3>1, <3>3, <4>1, EraseTopFacts DEF ErasedBy
      <4>. QED  BY <3>3, <4>1
    <3>. QED  BY <1>1, <2>2, <3>2, <3>4 DEF EraseInv, EraseBefore, EraseAfter, Blank
  <2>3. CASE pc = "eraseCheck"
    <3>1. chip' = chip
      BY <1>2, <2>3 DEF TransferEnd
    <3>. QED  BY <1>1, <2>3, <3>1 DEF WriteInv, EraseInv, EraseBefore, EraseAfter, Blank
  <2>4. CASE pc \notin {"eraseCmd", "erasePoll", "eraseCheck"}
    BY <1>1, <1>2, <2>4 DEF EraseInv, EraseBefore, EraseAfter
  <2>. QED  BY <2>1, <2>2, <2>3, <2>4
<1>6. PageInv'
  <2>1. CASE pc = "pageCmd"
    BY <1>1, <2>1 DEF WriteInv, PageInv, PageBefore, PageAfter, PosOk, DoneTo, BlankFrom
  <2>2. CASE pc = "pageEnd"
    <3>1. chip' = [chip EXCEPT !.wip = TRUE,
                     !.job = [kind |-> "program", at |-> rpc.addr, data |-> rpc.data]]
      BY <1>2, <1>4, <2>2 DEF TransferEnd
    <3>2. chip'.wip /\ chip'.job = [kind |-> "program", at |-> rpc.addr, data |-> rpc.data]
      BY <1>1, <3>1 DEF IsChip
    <3>3. /\ rpc.addr = pos /\ rpc.data = PageAt(pos)
          /\ PosOk /\ DoneTo(pos) /\ BlankFrom(pos)
      BY <1>1, <2>2 DEF WriteInv, PageInv, PageBefore
    <3>4. /\ PosOk' /\ DoneTo(pos)' /\ BlankFrom(pos)' /\ PageAt(pos)' = PageAt(pos)
      BY <1>1, <3>3 DEF PosOk, DoneTo, BlankFrom, PageAt
    <3>. QED  BY <1>1, <2>2, <3>2, <3>3, <3>4 DEF PageInv, PageBefore, PageAfter
  <2>3. CASE pc = "pageCheck"
    <3>1. chip' = chip
      BY <1>2, <2>3 DEF TransferEnd
    <3>2. PageAt(pos)' = PageAt(pos)
      BY <1>1 DEF PageAt
    <3>. QED
      BY <1>1, <2>3, <3>1, <3>2 DEF WriteInv, PageInv, PageBefore, PageAfter, PosOk, DoneTo, BlankFrom
  <2>4. CASE pc \notin {"pageCmd", "pageEnd", "pageCheck"}
    BY <1>1, <1>2, <2>4 DEF PageInv, PageBefore, PageAfter
  <2>. QED  BY <2>1, <2>2, <2>3, <2>4
<1>. QED  BY <1>3, <1>5, <1>6 DEF WriteInv

\* The steps that neither begin nor end a loop keep what holds before a command, and
\* after it.
LEMMA StepWrite ==
  ASSUME CtlInv, WriteInv,
         EraseEnable \/ EraseCmd \/ Poll \/ StillBusy \/ PageEnable \/ PageCmd \/ PageEnd
  PROVE  WriteInv'
<1>1. /\ flash' = flash /\ chip' = chip /\ call' = call /\ pos' = pos /\ ret' = ret
      /\ pc # "idle" /\ pc' # "idle"
  BY DEF EraseEnable, EraseCmd, Poll, StillBusy, PageEnable, PageCmd, PageEnd
<1>2. CallOk' /\ ret' # "ok" /\ WriteResult'
  BY <1>1 DEF WriteInv, CallOk, WriteResult
<1>3. /\ Blank' <=> Blank
      /\ EraseTop' = EraseTop /\ SectorOf(call.addr)' = SectorOf(call.addr)
      /\ PosOk' <=> PosOk
      /\ DoneTo(pos)' <=> DoneTo(pos)
      /\ BlankFrom(pos)' <=> BlankFrom(pos)
      /\ DoneTo(pos + PageSize)' <=> DoneTo(pos + PageSize)
      /\ BlankFrom(pos + PageSize)' <=> BlankFrom(pos + PageSize)
      /\ PageAt(pos)' = PageAt(pos)
  BY <1>1 DEF Blank, EraseTop, PosOk, DoneTo, BlankFrom, PageAt
<1>4. IsRpc(rpc) /\ IsRpc([rpc EXCEPT !.data = PageAt(pos)])
  BY DEF CtlInv, ShapeInv, IsRpc
<1>5. CASE EraseEnable
  BY <1>1, <1>2, <1>3, <1>5
     DEF EraseEnable, WriteInv, EraseInv, PageInv, EraseBefore, EraseAfter, PageBefore, PageAfter
<1>6. CASE EraseCmd
  <2>1. ~rpc'.tend /\ rpc'.addr = pos /\ pc = "eraseCmd" /\ pc' = "erasePoll"
    BY <1>4, <1>6 DEF EraseCmd, Transfer, IsRpc
  <2>. QED
    BY <1>1, <1>2, <1>3, <2>1
       DEF WriteInv, EraseInv, PageInv, EraseBefore, EraseAfter, PageBefore, PageAfter
<1>7. CASE Poll \/ StillBusy
  <2>1. /\ EraseAfter' <=> EraseAfter
        /\ PageAfter' <=> PageAfter
        /\ ~EraseBefore' /\ ~PageBefore' /\ (pc' \in {"erasePoll", "pageEnd"} => rpc'.tend)
    BY <1>7 DEF Poll, StillBusy, EraseAfter, PageAfter, EraseBefore, PageBefore
  <2>. QED  BY <1>1, <1>2, <1>3, <2>1 DEF WriteInv, EraseInv, PageInv
<1>8. CASE PageEnable
  BY <1>1, <1>2, <1>3, <1>8
     DEF PageEnable, WriteInv, EraseInv, PageInv, EraseBefore, EraseAfter, PageBefore, PageAfter
<1>9. CASE PageCmd
  <2>1. /\ ~rpc'.tend /\ rpc'.addr = pos /\ rpc'.data = PageAt(pos)
        /\ pc = "pageCmd" /\ pc' = "pageEnd"
    <3>. DEFINE d == [rpc EXCEPT !.data = PageAt(pos)]
    <3>1. d.data = PageAt(pos) /\ IsRpc(d)
      BY <1>4 DEF IsRpc
    <3>2. rpc' = Transfer(d, "pageProgram", pos) /\ pc = "pageCmd" /\ pc' = "pageEnd"
      BY <1>9 DEF PageCmd
    <3>. HIDE DEF d
    <3>. QED  BY <3>1, <3>2 DEF Transfer, IsRpc
  <2>. QED
    BY <1>1, <1>2, <1>3, <2>1
       DEF WriteInv, EraseInv, PageInv, EraseBefore, EraseAfter, PageBefore, PageAfter
<1>10. CASE PageEnd
  BY <1>1, <1>2, <1>3, <1>10
     DEF PageEnd, WriteInv, EraseInv, PageInv, EraseBefore, EraseAfter, PageBefore, PageAfter
<1>. QED  BY <1>5, <1>6, <1>7, <1>8, <1>9, <1>10

\* From one sector to the next or to the pages: the sector of the call is blank by now.
LEMMA SectorErasedWrite == ASSUME CtlInv, WriteInv, SectorErased PROVE WriteInv'
<1>1. /\ flash' = flash /\ call' = call /\ ret' = ret /\ pc = "eraseCheck" /\ ~chip.wip
      /\ \/ pc' = "eraseEnable"
         \/ pc' = "pageEnable" /\ pos' = call.addr
  BY DEF SectorErased, CtlInv, StepInv
<1>2. CallOk' /\ ret' # "ok" /\ WriteResult'
  BY <1>1 DEF WriteInv, CallOk, WriteResult
<1>3. Blank /\ Blank'
  BY <1>1 DEF WriteInv, EraseInv, EraseAfter, Blank
<1>4. CASE pc' = "eraseEnable"
  BY <1>2, <1>3, <1>4
     DEF WriteInv, EraseInv, PageInv, EraseBefore, EraseAfter, PageBefore, PageAfter
<1>5. CASE pc' = "pageEnable" /\ pos' = call.addr
  <2>1. pos' = call'.addr /\ call'.addr \in Nat
    BY <1>1, <1>2, <1>5 DEF CallOk
  <2>2. PosOk'
    BY <1>2, <2>1 DEF PosOk, CallOk
  <2>3. DoneTo(pos)'
    BY <2>1 DEF DoneTo
  <2>4. BlankFrom(pos)'
    BY <1>3 DEF Blank, BlankFrom
  <2>. QED
    BY <1>2, <1>5, <2>2, <2>3, <2>4
       DEF WriteInv, EraseInv, PageInv, EraseBefore, EraseAfter, PageBefore, PageAfter
<1>. QED  BY <1>1, <1>4, <1>5

\* From one page to the next, or back to the caller when all is written.
LEMMA PageWrittenWrite == ASSUME CtlInv, WriteInv, PageWritten PROVE WriteInv'
<1>1. flash' = flash /\ call' = call /\ pc = "pageCheck" /\ ~chip.wip
  BY DEF PageWritten, CtlInv, StepInv
<1>2. CallOk /\ PosOk /\ DoneTo(pos + PageSize) /\ BlankFrom(pos + PageSize) /\ ret # "ok"
  BY <1>1 DEF WriteInv, PageInv, PageAfter
<1>3. /\ pos \in Nat /\ call.addr \in Nat /\ call.len \in Nat /\ PageSize \in Nat \ {0}
      /\ call.addr <= pos /\ pos % PageSize = 0
  BY <1>2, Sizes DEF CallOk, PosOk
<1>4. CASE pos + PageSize < call.addr + call.len
  <2>1. pos' = pos + PageSize /\ pc' = "pageEnable" /\ ret' = ret
    BY <1>4 DEF PageWritten
  <2>2. PosOk'
    <3>1. pos \in Int
      BY <1>3
    <3>2. (pos + PageSize) % PageSize = 0
      BY <1>3, <3>1, AddToMultiple, Zenon
    <3>. QED  BY <1>1, <1>3, <2>1, <3>2 DEF PosOk
  <2>3. CallOk' /\ DoneTo(pos)' /\ BlankFrom(pos)'
    BY <1>1, <1>2, <2>1 DEF CallOk, DoneTo, BlankFrom
  <2>. QED
    BY <1>2, <2>1, <2>2, <2>3
       DEF WriteInv, WriteResult, EraseInv, PageInv, EraseBefore, EraseAfter, PageBefore, PageAfter
<1>5. CASE ~(pos + PageSize < call.addr + call.len)
  <2>1. pc' = "idle"
    BY <1>5 DEF PageWritten
  <2>2. ASSUME NEW i \in 0 .. call.len - 1 PROVE flash[call.addr + i] = call.data[i]
    <3>1. call.addr + i < pos + PageSize
      BY <1>3, <1>5
    <3>. QED  BY <1>2, <3>1 DEF DoneTo
  <2>. QED
    BY <1>1, <2>1, <2>2
       DEF WriteInv, WriteResult, EraseInv, PageInv, EraseBefore, EraseAfter, PageBefore, PageAfter
<1>. QED  BY <1>4, <1>5

\* Between calls nothing writes; a call begins at its first sector; a power loss ends it.
LEMMA OutsideWrite ==
  ASSUME CtlInv, WriteInv,
         \/ \E c \in Calls : WriteBuff(c)
         \/ \E s \in Sector : ReadSector(s)
         \/ PowerLoss
  PROVE  WriteInv'
<1>. USE DEF WriteInv, WriteResult, EraseInv, PageInv, EraseBefore, EraseAfter, PageBefore, PageAfter
<1>1. ASSUME NEW c \in Calls, WriteBuff(c) PROVE WriteInv'
  <2>0. pc = "idle" /\ call' = c /\ EndAddr' = EndAddr
    BY <1>1 DEF WriteBuff, EndAddr
  <2>1. CASE ret' = "ng" /\ UNCHANGED <<pc, pos>>
    BY <2>0, <2>1
  <2>3. CASE c.addr >= EndAddr /\ ret' = "ok" /\ UNCHANGED <<pc, pos>>
    <3>1. c.addr \in Nat /\ EndAddr \in Nat
      BY DriverAssumption, Sizes
    <3>2. ~(call'.addr < EndAddr')
      BY <2>0, <2>3, <3>1
    <3>. QED  BY <2>0, <2>3, <3>2
  <2>2. CASE /\ c.addr + c.len <= EndAddr /\ ret' = "none"
             /\ pos' = EraseTop' /\ pc' = "eraseEnable"
    <3>1. call' = c /\ ret' = "none" /\ pos' = EraseTop' /\ pc' = "eraseEnable"
      BY <2>0, <2>2
    <3>2. /\ c.addr \in Nat /\ c.len \in Nat \ {0} /\ EndAddr \in Nat
          /\ c.addr % PageSize = 0
          /\ c.addr \div SectorSize = (c.addr + c.len - 1) \div SectorSize
      BY DriverAssumption, Sizes
    <3>3. c.addr + c.len <= EndAddr
      BY <2>2, <3>2
    <3>4. CallOk'
      <4>1. call' = c
        BY <3>1
      <4>2. EndAddr' = EndAddr
        BY DEF EndAddr
      <4>. QED  BY <3>2, <3>3, <4>1, <4>2 DEF CallOk
    <3>. QED  BY <3>1, <3>4
  <2>. QED  BY <1>1, <2>1, <2>2, <2>3, WriteBuffCases
<1>2. ASSUME NEW s \in Sector, ReadSector(s) PROVE WriteInv'
  BY <1>2 DEF ReadSector
<1>3. CASE PowerLoss
  BY <1>3 DEF PowerLoss
<1>. QED  BY <1>1, <1>2, <1>3

LEMMA NextWrite == CtlInv /\ WriteInv /\ [Next]_vars => WriteInv'
<1>. SUFFICES ASSUME CtlInv, WriteInv, [Next]_vars PROVE WriteInv'
  OBVIOUS
<1>1. CASE UNCHANGED vars
  BY <1>1 DEF vars, WriteInv, WriteResult, CallOk, EraseInv, PageInv, EraseBefore, EraseAfter,
              PageBefore, PageAfter, EraseTop, Blank, PosOk, DoneTo, BlankFrom, PageAt
<1>2. CASE Driver
  BY <1>2, StepWrite, SectorErasedWrite, PageWrittenWrite DEF Driver
<1>. QED  BY <1>1, <1>2, OutsideWrite, TransferEndWrite, ChipDoneWrite DEF Next

\* A call that reports success has put its bytes into the flash, whatever its length,
\* the sizes of pages and sectors, and the power losses before it.
THEOREM SuccessMeansWritten == Spec => []WriteResult
<1>1. Init => WriteInv
  BY DEF Init, WriteInv, WriteResult, EraseInv, PageInv, EraseBefore, EraseAfter, PageBefore, PageAfter
<1>2. WriteInv => WriteResult
  BY DEF WriteInv
<1>. QED  BY <1>1, <1>2, NextWrite, ControlInvariant, PTL DEF Spec

-----------------------------------------------------------------------------
(***************************************************************************)
(* The flash driver implements SectorStore: whatever the geometry of the   *)
(* part, the calls, and the moments at which power is lost, the register   *)
(* accesses of a call amount to an erase of its sector, an erase of the    *)
(* one after it if the call goes to the end of its sector, and a write.    *)
(***************************************************************************)

Target == SectorOf(call.addr)

\* Around what the call writes its sector is erased.
Spared ==
  \A a \in Addr :
    SectorOf(a) = Target /\ ~(a - call.addr \in 0 .. call.len - 1) => flash[a] = FF

Erasing == EraseBefore \/ EraseAfter

\* The sectors erased are those of SectorStore, and the first of them is complete
\* when the driver goes on.  A call that has written a page but not the last counts
\* as unfinished.
SectorsInv ==
  /\ ~chip.wip => chip.job.kind = "none"
  /\ Erasing => pos = EraseTop \/ (pos = EraseTop + SectorSize /\ ~EndsInside(call))
  /\ Erasing /\ (pos # EraseTop \/ (EraseAfter /\ ~chip.wip)) => Blank /\ Target \notin unfinished
  /\ EraseAfter /\ chip.wip => chip.job.at \in ErasedBy(pos)
  /\ PageBefore \/ PageAfter => Spared /\ pos < call.addr + call.len
  /\ PageBefore => Blank \/ Target \in unfinished
  /\ PageAfter /\ ~chip.wip /\ ~OnLastPage => Target \in unfinished

-----------------------------------------------------------------------------
(* Where the loop of the erase ends.                                         *)

LEMMA CallPlace ==
  ASSUME CallOk
  PROVE  /\ Target \in Sector /\ call.addr \in Addr /\ SectorSize \in Nat \ {0}
         /\ EraseTop = SectorSize * Target /\ call.addr = EraseTop + (call.addr % SectorSize)
         /\ call.addr % SectorSize \in 0 .. SectorSize - 1
<1>1. /\ call.addr \in Nat /\ call.addr < EndAddr /\ EndAddr \in Nat
      /\ SectorSize \in Nat \ {0} /\ NSectors \in Nat \ {0} /\ EndAddr = SectorSize * NSectors
  BY Sizes DEF CallOk, EndAddr
<1>2. /\ call.addr % SectorSize \in 0 .. SectorSize - 1 /\ call.addr \div SectorSize \in Int
      /\ call.addr = SectorSize * (call.addr \div SectorSize) + (call.addr % SectorSize)
  <2>1. call.addr \in Int
    BY <1>1
  <2>. QED  BY <1>1, <2>1, Division, Zenon
<1>3. call.addr \div SectorSize < NSectors
  BY <1>1, BelowMultiple
<1>4. call.addr \div SectorSize >= 0
  BY <1>1
<1>5. Target \in Sector
  BY <1>1, <1>2, <1>3, <1>4 DEF Target, SectorOf, Sector
<1>6. EraseTop = SectorSize * Target /\ call.addr = EraseTop + (call.addr % SectorSize)
  <2>1. EraseTop = call.addr - (call.addr % SectorSize) /\ Target = call.addr \div SectorSize
    BY DEF EraseTop, Target, SectorOf
  <2>2. SectorSize * Target \in Int
    BY <1>1, <1>2, <2>1
  <2>. QED  BY <1>1, <1>2, <2>1, <2>2
<1>. QED  BY <1>1, <1>2, <1>5, <1>6 DEF Addr

\* A call that goes to the end of its sector erases one more, and no other does.
LEMMA EraseEndFacts ==
  ASSUME CallOk
  PROVE  EraseEnd = EraseTop + (IF EndsInside(call) THEN SectorSize ELSE 2 * SectorSize) - 1
<1>. DEFINE e == call.addr + call.len
            r == (e - 1) % SectorSize
<1>1. /\ call.addr \in Nat /\ call.len \in Nat \ {0} /\ SectorSize \in Nat \ {0}
      /\ Target \in Nat /\ e \in Nat /\ e - 1 \in Int /\ EraseTop = SectorSize * Target
  BY CallPlace DEF CallOk, Sector
<1>2. (e - 1) \div SectorSize = Target
  BY DEF CallOk, Target, SectorOf
<1>3. r \in 0 .. SectorSize - 1 /\ e - 1 = SectorSize * Target + r
  BY <1>1, <1>2, Division
<1>4. EndsInside(call) <=> e % SectorSize # 0
  BY DEF EndsInside
<1>5. EraseEnd = e - (e % SectorSize) + SectorSize - 1
  BY DEF EraseEnd
<1>. HIDE DEF e, r
<1>6. SectorSize * Target \in Int
  BY <1>1
<1>7. CASE r + 1 < SectorSize
  <2>1. e = SectorSize * Target + (r + 1) /\ r + 1 \in 0 .. SectorSize - 1
    BY <1>1, <1>3, <1>6, <1>7
  <2>2. e % SectorSize = r + 1
    <3>1. Target \in Int
      BY <1>1
    <3>. QED  BY <1>1, <2>1, <3>1, DivisionUnique, Zenon
  <2>. QED  BY <1>1, <1>3, <1>4, <1>5, <1>6, <2>1, <2>2
<1>8. CASE ~(r + 1 < SectorSize)
  <2>1. e = SectorSize * Target + SectorSize
    BY <1>1, <1>3, <1>6, <1>8
  <2>2. SectorSize * Target + SectorSize = SectorSize * (Target + 1)
    BY <1>1
  <2>3. e % SectorSize = 0
    BY <1>1, <2>1, <2>2, Multiple
  <2>. QED  BY <1>1, <1>4, <1>5, <1>6, <2>1, <2>3
<1>. QED  BY <1>3, <1>7, <1>8

\* The two addresses erased are in the sectors that the store names.
LEMMA ErasedSectors ==
  ASSUME CallOk
  PROVE  /\ ErasedBy(EraseTop) = {Target}
         /\ ErasedBy(EraseTop + SectorSize) =
              IF Target + 1 < NSectors THEN {Target + 1} ELSE PastEnd
<1>1. /\ SectorSize \in Nat \ {0} /\ NSectors \in Nat \ {0} /\ Target \in Sector
      /\ EraseTop = SectorSize * Target /\ EndAddr = SectorSize * NSectors
  BY CallPlace, Sizes DEF EndAddr
<1>2. Target \in Int /\ Target + 1 \in Int /\ Target < NSectors
  BY <1>1 DEF Sector
<1>3. EraseTop + SectorSize = SectorSize * (Target + 1)
  BY <1>1, <1>2
<1>4. ASSUME NEW q \in Int
      PROVE  /\ (SectorSize * q) \div SectorSize = q
             /\ (SectorSize * q < EndAddr) <=> (q < NSectors)
  <2>1. (SectorSize * q) \div SectorSize = q
    BY <1>1, Multiple
  <2>2. SectorSize * q \in Int
    BY <1>1
  <2>3. (SectorSize * q < SectorSize * NSectors) <=> ((SectorSize * q) \div SectorSize < NSectors)
    BY <1>1, <2>2, BelowMultiple
  <2>. QED  BY <1>1, <2>1, <2>3
<1>5. ErasedBy(EraseTop) = {Target}
  BY <1>1, <1>2, <1>4 DEF ErasedBy, SectorOf
<1>6. ErasedBy(EraseTop + SectorSize) = IF Target + 1 < NSectors THEN {Target + 1} ELSE PastEnd
  BY <1>2, <1>3, <1>4 DEF ErasedBy, SectorOf
<1>. QED  BY <1>5, <1>6

-----------------------------------------------------------------------------
(* SectorsInv is invariant.                                                  *)

LEMMA TransferEndSectors == ASSUME CtlInv, WriteInv, SectorsInv, TransferEnd PROVE SectorsInv'
<1>1. /\ ~rpc.tend /\ rpc'.tend /\ IsRpc(rpc) /\ IsChip(chip)
      /\ pc' = pc /\ call' = call /\ pos' = pos /\ flash' = flash /\ unfinished' = unfinished
  BY DEF TransferEnd, CtlInv, ShapeInv, IsRpc
<1>2. /\ pc \notin {"idle", "eraseEnable", "pageEnable", "pagePoll"} /\ pc \in Steps
      /\ pc \in {"eraseCmd", "pageCmd"} => rpc.cmd = "writeEnable"
      /\ pc = "erasePoll" => rpc.cmd = "sectorErase"
      /\ pc = "pageEnd" => rpc.cmd = "pageProgram"
      /\ pc \in {"eraseCheck", "pageCheck"} => rpc.cmd = "readStatus"
  BY <1>1 DEF CtlInv, StepInv, ShapeInv
<1>3. rpc.cmd = "readStatus" \/ Obeyed
  BY <1>1 DEF CtlInv, TransferInv, Obeyed
<1>4. /\ EraseTop' = EraseTop /\ Target' = Target /\ EndsInside(call)' = EndsInside(call)
      /\ Blank' <=> Blank
      /\ Spared' <=> Spared
      /\ ErasedBy(pos)' = ErasedBy(pos)
      /\ OnLastPage' <=> OnLastPage
  BY <1>1 DEF EraseTop, Target, SectorOf, EndsInside, Blank, Spared, ErasedBy, OnLastPage
<1>5. CASE pc \in {"eraseCmd", "pageCmd"}
  <2>1. chip' = [chip EXCEPT !.wel = TRUE]
    BY <1>2, <1>3, <1>5 DEF TransferEnd
  <2>2. chip'.wip = chip.wip /\ chip'.job = chip.job
    BY <1>1, <2>1 DEF IsChip
  <2>. QED  BY <1>1, <1>4, <1>5, <2>2 DEF SectorsInv, Erasing, EraseBefore, EraseAfter, PageBefore, PageAfter
<1>6. CASE pc = "erasePoll"
  <2>1. PICK s \in ErasedBy(rpc.addr) :
          chip' = [chip EXCEPT !.wip = TRUE, !.job = [NoJob EXCEPT !.kind = "erase", !.at = s]]
    BY <1>2, <1>3, <1>6 DEF TransferEnd
  <2>2. chip'.wip /\ chip'.job.at = s
    BY <1>1, <2>1 DEF IsChip, NoJob
  <2>3. rpc.addr = pos
    BY <1>1, <1>6 DEF WriteInv, EraseInv
  <2>. QED  BY <1>1, <1>4, <1>6, <2>1, <2>2, <2>3 DEF SectorsInv, Erasing, EraseBefore, EraseAfter, PageBefore, PageAfter
<1>7. CASE pc = "pageEnd"
  <2>1. chip' = [chip EXCEPT !.wip = TRUE,
                   !.job = [kind |-> "program", at |-> rpc.addr, data |-> rpc.data]]
    BY <1>2, <1>3, <1>7 DEF TransferEnd
  <2>2. chip'.wip
    BY <1>1, <2>1 DEF IsChip
  <2>. QED  BY <1>1, <1>4, <1>7, <2>2 DEF SectorsInv, Erasing, EraseBefore, EraseAfter, PageBefore, PageAfter
<1>8. CASE pc \in {"eraseCheck", "pageCheck"}
  <2>1. chip' = chip
    BY <1>2, <1>8 DEF TransferEnd
  <2>. QED  BY <1>1, <1>4, <1>8, <2>1 DEF SectorsInv, Erasing, EraseBefore, EraseAfter, PageBefore, PageAfter
<1>. QED  BY <1>2, <1>5, <1>6, <1>7, <1>8 DEF Steps

\* A page of the call lies in one sector, that of the call.
LEMMA PageInSector ==
  ASSUME CallOk, PosOk, pos < call.addr + call.len, NEW i \in 0 .. PageSize - 1
  PROVE  pos + i \in Addr /\ SectorOf(pos + i) = Target
<1>1. /\ pos \in Nat /\ call.addr \in Nat /\ call.addr <= pos /\ call.len \in Nat
      /\ PageSize \in Nat \ {0} /\ SectorSize \in Nat \ {0} /\ NSectors \in Nat \ {0}
      /\ pos % PageSize = 0 /\ EndAddr = SectorSize * NSectors /\ pos \in Int
  BY Sizes DEF CallOk, PosOk, EndAddr
<1>2. SectorOf(pos) = Target /\ pos < EndAddr
  <2>1. pos - call.addr \in 0 .. call.len - 1 /\ call.addr + (pos - call.addr) = pos
    BY <1>1
  <2>. QED  BY <1>1, <2>1, CallBytes, Sizes DEF Target, Addr
<1>3. PICK k \in 1 .. SectorSize : SectorSize = k * PageSize
  BY DriverAssumption
<1>. DEFINE m == pos \div PageSize
            q == pos \div SectorSize
            x == pos % SectorSize
<1>4. /\ m \in Int /\ q \in Int /\ x \in 0 .. SectorSize - 1
      /\ pos = PageSize * m + (pos % PageSize) /\ pos = SectorSize * q + x
  BY <1>1, Division, Zenon
<1>. HIDE DEF m, q, x
<1>5. k \in Nat /\ k * q \in Int /\ SectorSize = PageSize * k
  BY <1>1, <1>3, <1>4
<1>6. x = PageSize * (m - k * q)
  <2>1. pos = PageSize * m
    BY <1>1, <1>4
  <2>2. SectorSize * q = PageSize * (k * q)
    BY <1>1, <1>4, <1>5
  <2>3. PageSize * (m - k * q) = PageSize * m - PageSize * (k * q)
    BY <1>1, <1>4, <1>5
  <2>. QED  BY <1>1, <1>4, <2>1, <2>2, <2>3
<1>7. x + PageSize <= SectorSize
  <2>. DEFINE u == m - k * q
  <2>1. u \in Int /\ x = PageSize * u
    BY <1>4, <1>5, <1>6
  <2>. HIDE DEF u
  <2>2. u < k
    <3>1. CASE u >= k
      <4>1. PageSize * u >= PageSize * k
        BY <1>1, <1>5, <2>1, <3>1
      <4>. QED  BY <1>1, <1>4, <1>5, <2>1, <4>1
    <3>. QED  BY <1>5, <2>1, <3>1
  <2>3. PageSize * (u + 1) <= PageSize * k
    BY <1>1, <1>5, <2>1, <2>2
  <2>4. PageSize * (u + 1) = PageSize * u + PageSize
    BY <1>1, <2>1
  <2>. QED  BY <1>1, <1>4, <1>5, <2>1, <2>3, <2>4
<1>8. i \in Nat /\ (pos % SectorSize) + i < SectorSize
  BY <1>1, <1>4, <1>7 DEF x
<1>9. (pos + i) \div SectorSize = Target
  <2>1. (pos + i) \div SectorSize = pos \div SectorSize
    BY <1>1, <1>8, SameBlock
  <2>. QED  BY <1>2, <2>1 DEF SectorOf
<1>10. Target \in Int /\ Target < NSectors
  BY CallPlace, <1>1 DEF Sector
<1>11. pos + i < SectorSize * NSectors
  <2>1. pos + i \in Int /\ NSectors \in Int
    BY <1>1, <1>8
  <2>. QED  BY <1>1, <1>9, <1>10, <2>1, BelowMultiple
<1>. QED  BY <1>1, <1>8, <1>9, <1>11 DEF Addr, SectorOf

LEMMA PageSectors ==
  ASSUME CallOk, PosOk, pos < call.addr + call.len, chip.job.kind = "program", chip.job.at = pos
  PROVE  /\ JobSectors = {Target}
         /\ \A a \in JobCells : a \in Addr /\ SectorOf(a) = Target
<1>1. pos \in Nat /\ pos % PageSize = 0 /\ pos \in Int /\ PageSize \in Nat \ {0}
  BY Sizes DEF PosOk
<1>2. \A i \in 0 .. PageSize - 1 : PageCell(pos, i) = pos + i
  <2>1. \A i \in 0 .. PageSize - 1 : (pos + i) % PageSize = i
    BY <1>1, AddToMultiple
  <2>2. \A i \in 0 .. PageSize - 1 : PageCell(pos, i) = pos - (pos % PageSize) + ((pos + i) % PageSize)
    BY DEF PageCell
  <2>. QED  BY <1>1, <2>1, <2>2
<1>3. JobCells = {PageCell(pos, i) : i \in 0 .. PageSize - 1}
  BY DEF JobCells
<1>4. 0 \in 0 .. PageSize - 1
  BY <1>1
<1>. QED  BY <1>2, <1>3, <1>4, PageInSector DEF JobSectors

\* A page is programmed into bytes of the call, and erased ones behind it.
LEMMA PageSpares ==
  ASSUME ChipDone, CallOk, PosOk, BlankFrom(pos), Spared,
         chip.job.kind = "program", chip.job.at = pos, chip.job.data = PageAt(pos)
  PROVE  Spared'
<1>1. /\ pos \in Nat /\ call.addr \in Nat /\ call.addr <= pos /\ PageSize \in Nat \ {0}
      /\ call.len \in Nat \ {0} /\ call' = call
  BY Sizes DEF CallOk, PosOk, ChipDone
<1>2. \A a \in Addr :
        flash'[a] = IF a - pos \in 0 .. PageSize - 1
                    THEN Programmed(flash[a], PageAt(pos)[a - pos]) ELSE flash[a]
  BY PageDoneFacts DEF PosOk
<1>3. ASSUME NEW a \in Addr, SectorOf(a) = Target, ~(a - call.addr \in 0 .. call.len - 1)
      PROVE  flash'[a] = FF
  <2>1. a \in Int /\ flash[a] = FF
    BY <1>3, Sizes DEF Addr, Spared
  <2>2. CASE a - pos \in 0 .. PageSize - 1
    <3>1. ~(pos + (a - pos) < call.addr + call.len)
      BY <1>1, <1>3, <2>1, <2>2
    <3>2. PageAt(pos)[a - pos] = FF
      BY <2>2, <3>1 DEF PageAt
    <3>. QED  BY <1>2, <2>1, <2>2, <3>2 DEF Programmed
  <2>. QED  BY <1>2, <2>1, <2>2
<1>. QED  BY <1>1, <1>3 DEF Spared, Target

LEMMA EraseCompletes ==
  ASSUME CallOk, ChipDone, chip.job.kind = "erase",
         chip.job.at = Target \/ Target \notin unfinished
  PROVE  Target' \notin unfinished'
<1>1. unfinished' = unfinished \ JobSectors /\ Target' = Target
  BY DEF ChipDone, Target, SectorOf
<1>2. chip.job.at = Target => Target \in JobSectors
  BY CallPlace DEF JobSectors, JobCells, Target
<1>. QED  BY <1>1, <1>2

LEMMA ChipDoneSectors == ASSUME CtlInv, WriteInv, WriteInv', SectorsInv, ChipDone PROVE SectorsInv'
<1>1. /\ chip.wip /\ ~chip'.wip /\ chip'.job.kind = "none"
      /\ rpc' = rpc /\ pc' = pc /\ call' = call /\ pos' = pos
  BY DEF ChipDone, IdleChip, NoJob
<1>2. pc \notin {"idle", "eraseEnable", "pageEnable", "eraseCmd", "pageCmd"} /\ pc \in Steps
      /\ (pc \in {"erasePoll", "pageEnd"} => rpc.tend)
  BY <1>1 DEF CtlInv, StepInv, TransferInv, ShapeInv
<1>3. CallOk /\ EraseTop' = EraseTop /\ Target' = Target /\ EndsInside(call)' = EndsInside(call)
  BY <1>1, <1>2 DEF WriteInv, EraseTop, Target, SectorOf, EndsInside
<1>4. CASE pc \in {"erasePoll", "eraseCheck"}
  <2>1. EraseAfter /\ Erasing /\ EraseAfter' /\ ~PageBefore' /\ ~PageAfter'
    BY <1>1, <1>2, <1>4 DEF EraseAfter, Erasing, PageBefore, PageAfter
  <2>2. chip.job.kind = "erase" /\ Blank'
    BY <1>1, <2>1 DEF WriteInv, EraseInv
  <2>3. chip.job.at = Target \/ Target \notin unfinished
    BY <1>1, <1>3, <2>1, ErasedSectors DEF SectorsInv
  <2>4. Target' \notin unfinished'
    BY <1>3, <2>2, <2>3, EraseCompletes
  <2>. QED  BY <1>1, <1>3, <2>1, <2>2, <2>4 DEF SectorsInv
<1>5. CASE pc \in {"pageEnd", "pagePoll", "pageCheck"}
  <2>1. PageAfter /\ ~Erasing' /\ ~PageBefore'
    BY <1>1, <1>2, <1>5 DEF Erasing, EraseBefore, EraseAfter, PageAfter, PageBefore
  <2>2. PosOk /\ chip.job.kind = "program" /\ chip.job.at = pos /\ pos < call.addr + call.len
    BY <1>1, <2>1 DEF WriteInv, PageInv, SectorsInv
  <2>3. Spared' /\ (pos < call.addr + call.len)'
    BY <1>1, <1>3, <2>1, <2>2, PageSpares DEF WriteInv, PageInv, SectorsInv
  <2>4. ~OnLastPage' => Target' \in unfinished'
    <3>1. JobSectors = {Target} /\ (OnLastPage' <=> OnLastPage)
      BY <1>1, <1>3, <2>2, PageSectors DEF OnLastPage
    <3>. QED  BY <1>3, <2>2, <3>1 DEF ChipDone
  <2>. QED  BY <1>1, <2>1, <2>3, <2>4 DEF SectorsInv, Erasing
<1>. QED  BY <1>2, <1>4, <1>5 DEF Steps

LEMMA SectorErasedSectors == ASSUME CtlInv, WriteInv, SectorsInv, SectorErased PROVE SectorsInv'
<1>1. /\ flash' = flash /\ call' = call /\ chip' = chip /\ unfinished' = unfinished
      /\ pc = "eraseCheck" /\ ~chip.wip
  BY DEF SectorErased, CtlInv, StepInv
<1>2. CallOk /\ EraseTop' = EraseTop /\ Target' = Target /\ EndsInside(call)' = EndsInside(call)
  BY <1>1 DEF WriteInv, EraseTop, Target, SectorOf, EndsInside
<1>3. /\ pos = EraseTop \/ (pos = EraseTop + SectorSize /\ ~EndsInside(call))
      /\ Blank /\ Target \notin unfinished
  BY <1>1 DEF SectorsInv, Erasing, EraseAfter
<1>4. Blank' /\ Target' \notin unfinished'
  BY <1>1, <1>2, <1>3 DEF Blank
<1>5. CASE pos + SectorSize <= EraseEnd
  <2>1. pos' = pos + SectorSize /\ pc' = "eraseEnable"
    BY <1>5 DEF SectorErased
  <2>2. EraseTop \in Int /\ SectorSize \in Nat \ {0}
    BY <1>2, CallPlace, EraseTopFacts
  <2>3. pos = EraseTop /\ ~EndsInside(call)
    BY <1>2, <1>3, <1>5, <2>2, EraseEndFacts
  <2>. QED  BY <1>1, <1>2, <1>4, <2>1, <2>3 DEF SectorsInv, Erasing, EraseBefore, EraseAfter, PageBefore, PageAfter
<1>6. CASE ~(pos + SectorSize <= EraseEnd)
  <2>1. pc' = "pageEnable" /\ pos' = call.addr
    BY <1>6 DEF SectorErased
  <2>2. Spared' /\ (pos < call.addr + call.len)'
    BY <1>1, <1>2, <1>4, <2>1 DEF Blank, Spared, Target, CallOk
  <2>. QED  BY <1>1, <1>4, <2>1, <2>2 DEF SectorsInv, Erasing, EraseBefore, EraseAfter, PageBefore, PageAfter
<1>. QED  BY <1>5, <1>6

LEMMA DriverSectors ==
  ASSUME CtlInv, WriteInv, SectorsInv,
         \/ EraseEnable \/ EraseCmd \/ Poll \/ StillBusy
         \/ PageEnable \/ PageCmd \/ PageEnd \/ PageWritten
  PROVE  SectorsInv'
<1>1. flash' = flash /\ chip' = chip /\ call' = call /\ unfinished' = unfinished
  BY DEF EraseEnable, EraseCmd, Poll, StillBusy, PageEnable, PageCmd, PageEnd, PageWritten
<1>2. /\ EraseTop' = EraseTop /\ Target' = Target /\ EndsInside(call)' = EndsInside(call)
      /\ Blank' <=> Blank
      /\ Spared' <=> Spared
  BY <1>1 DEF EraseTop, Target, SectorOf, EndsInside, Blank, Spared
<1>3. CASE EraseEnable \/ EraseCmd \/ Poll \/ StillBusy
  <2>1. pos' = pos /\ ErasedBy(pos)' = ErasedBy(pos) /\ (OnLastPage' <=> OnLastPage)
    BY <1>1, <1>3 DEF EraseEnable, EraseCmd, Poll, StillBusy, ErasedBy, OnLastPage
  <2>2. IsRpc(rpc)
    BY DEF CtlInv, ShapeInv
  <2>3. /\ Erasing' => Erasing
        /\ EraseAfter' => EraseAfter
        /\ ~PageBefore'
        /\ PageAfter' => PageAfter
    BY <1>3, <2>2, TransferFacts
       DEF EraseEnable, EraseCmd, Poll, StillBusy, Erasing, EraseBefore, EraseAfter, PageBefore, PageAfter
  <2>. QED  BY <1>1, <1>2, <2>1, <2>3 DEF SectorsInv
<1>4. CASE PageEnable \/ PageCmd \/ PageEnd
  <2>1. pos' = pos /\ (OnLastPage' <=> OnLastPage)
    BY <1>1, <1>4 DEF PageEnable, PageCmd, PageEnd, OnLastPage
  <2>2. IsRpc(rpc) /\ IsRpc([rpc EXCEPT !.data = PageAt(pos)])
    BY DEF CtlInv, ShapeInv, IsRpc
  <2>3. /\ ~Erasing' /\ ~EraseAfter'
        /\ PageBefore' => PageBefore
        /\ PageAfter' => PageAfter
    BY <1>4, <2>2, TransferFacts
       DEF PageEnable, PageCmd, PageEnd, Erasing, EraseBefore, EraseAfter, PageBefore, PageAfter
  <2>. QED  BY <1>1, <1>2, <2>1, <2>3 DEF SectorsInv
<1>5. CASE PageWritten
  <2>1. PageAfter /\ ~chip.wip /\ ~Erasing' /\ ~EraseAfter' /\ ~PageAfter'
    BY <1>5 DEF CtlInv, StepInv, PageWritten, Erasing, EraseBefore, EraseAfter, PageAfter
  <2>2. PageBefore' => pos' = pos + PageSize /\ pos + PageSize < call.addr + call.len
    BY <1>5 DEF PageWritten, PageBefore
  <2>3. PageBefore' => Target \in unfinished
    <3>1. pos + PageSize \in Int /\ call.addr + call.len \in Int
      BY <2>1, Sizes DEF WriteInv, PageInv, CallOk, PosOk, PageAfter
    <3>. QED  BY <2>1, <2>2, <3>1 DEF SectorsInv, OnLastPage
  <2>. QED  BY <1>1, <1>2, <2>1, <2>2, <2>3 DEF SectorsInv
<1>. QED  BY <1>3, <1>4, <1>5

LEMMA OutsideSectors ==
  ASSUME CtlInv, SectorsInv,
         \/ \E c \in Calls : WriteBuff(c)
         \/ \E s \in Sector : ReadSector(s)
         \/ PowerLoss
  PROVE  SectorsInv'
<1>. USE DEF SectorsInv, Erasing, EraseBefore, EraseAfter, PageBefore, PageAfter
<1>1. ASSUME NEW c \in Calls, WriteBuff(c) PROVE SectorsInv'
  <2>1. /\ chip' = chip /\ ~chip.wip
        /\ pc' = "idle" \/ (pc' = "eraseEnable" /\ pos' = EraseTop')
    BY <1>1 DEF WriteBuff, EraseTop, CtlInv, StepInv
  <2>. QED  BY <2>1
<1>2. ASSUME NEW s \in Sector, ReadSector(s) PROVE SectorsInv'
  BY <1>2 DEF ReadSector
<1>3. CASE PowerLoss
  BY <1>3 DEF PowerLoss, IdleChip, NoJob
<1>. QED  BY <1>1, <1>2, <1>3

LEMMA NextSectors == CtlInv /\ WriteInv /\ WriteInv' /\ SectorsInv /\ [Next]_vars => SectorsInv'
<1>. SUFFICES ASSUME CtlInv, WriteInv, WriteInv', SectorsInv, [Next]_vars PROVE SectorsInv'
  OBVIOUS
<1>1. CASE UNCHANGED vars
  BY <1>1 DEF vars, SectorsInv, Erasing, EraseBefore, EraseAfter, PageBefore, PageAfter, EraseTop,
              Target, SectorOf, EndsInside, Blank, Spared, ErasedBy, OnLastPage
<1>2. CASE Driver
  BY <1>2, DriverSectors, SectorErasedSectors DEF Driver
<1>. QED  BY <1>1, <1>2, OutsideSectors, TransferEndSectors, ChipDoneSectors DEF Next

-----------------------------------------------------------------------------
(* What SectorStore sees of a state.                                         *)

\* A sector outside a call: torn if what last wrote to it was cut short.
Kept(s) == IF s \in unfinished THEN AbsTorn ELSE SectorBytes(s)

AbsRet == IF LastPageDone THEN "ok" ELSE ret

\* How far the call is, by what the driver waits for and what the chip has done.
PhaseFacts ==
  /\ LastPageDone <=> PageAfter /\ ~chip.wip /\ OnLastPage
  /\ EraseDone <=> EraseAfter /\ ~chip.wip
  /\ pc = "idle" \/ LastPageDone => AbsPhase = "idle"
  /\ Erasing /\ ~EraseDone =>
       AbsPhase = IF EndsInside(call) THEN "erasePart"
                  ELSE IF pos = EraseTop THEN "eraseTarget" ELSE "eraseNext"
  /\ EraseDone => AbsPhase = IF EndsInside(call) \/ pos # EraseTop THEN "program" ELSE "eraseNext"
  /\ (PageBefore \/ PageAfter) /\ ~LastPageDone => AbsPhase = "program"

LEMMA Phases == PhaseFacts
<1>1. LastPageDone <=> PageAfter /\ ~chip.wip /\ OnLastPage
  BY DEF LastPageDone, PageAfter
<1>2. EraseDone <=> EraseAfter /\ ~chip.wip
  BY DEF EraseDone, EraseAfter
<1>3. pc = "idle" \/ LastPageDone => AbsPhase = "idle"
  <2>1. LastPageDone => pc \in {"pageEnd", "pagePoll", "pageCheck"}
    BY DEF LastPageDone
  <2>2. CASE pc = "idle"
    BY <2>2 DEF AbsPhase, LastPageDone
  <2>3. CASE LastPageDone
    BY <2>1, <2>3 DEF AbsPhase
  <2>. QED  BY <2>2, <2>3
<1>4. Erasing => pc \in {"eraseEnable", "eraseCmd", "erasePoll", "eraseCheck"}
  BY DEF Erasing, EraseBefore, EraseAfter
<1>5. LastPageDone => pc \in {"pageEnd", "pagePoll", "pageCheck"}
  BY DEF LastPageDone
<1>6. EraseDone => Erasing
  BY <1>2 DEF Erasing
<1>7. Erasing =>
        AbsPhase = IF EndsInside(call) THEN IF EraseDone THEN "program" ELSE "erasePart"
                   ELSE IF pos = EraseTop THEN IF EraseDone THEN "eraseNext" ELSE "eraseTarget"
                   ELSE IF EraseDone THEN "program" ELSE "eraseNext"
  BY <1>4, <1>5 DEF AbsPhase
<1>8. (PageBefore \/ PageAfter) /\ ~LastPageDone => AbsPhase = "program"
  BY DEF PageBefore, PageAfter, AbsPhase
<1>. QED  BY <1>1, <1>2, <1>3, <1>6, <1>7, <1>8 DEF PhaseFacts

LEMMA SectorCells ==
  ASSUME NEW s \in Sector, NEW i \in 0 .. SectorSize - 1
  PROVE  s * SectorSize + i \in Addr /\ SectorOf(s * SectorSize + i) = s
<1>1. /\ SectorSize \in Nat \ {0} /\ NSectors \in Nat \ {0} /\ EndAddr = SectorSize * NSectors
      /\ s \in Int /\ s < NSectors /\ s >= 0
  BY Sizes DEF Sector, EndAddr
<1>2. s * SectorSize = SectorSize * s
  BY <1>1
<1>3. (SectorSize * s + i) \div SectorSize = s
  BY <1>1, DivisionUnique, Zenon
<1>4. SectorSize * s + i \in Int
  BY <1>1
<1>5. SectorSize * s + i < SectorSize * NSectors
  BY <1>1, <1>3, <1>4, BelowMultiple
<1>6. SectorSize * s + i >= 0
  BY <1>1
<1>. QED  BY <1>1, <1>2, <1>3, <1>4, <1>5, <1>6 DEF Addr, SectorOf

LEMMA SameBytes ==
  ASSUME NEW s \in Sector, \A a \in Addr : SectorOf(a) = s => flash'[a] = flash[a]
  PROVE  SectorBytes(s)' = SectorBytes(s)
  BY SectorCells DEF SectorBytes

LEMMA ErasedBytes ==
  ASSUME NEW s \in Sector
  PROVE  /\ (\A a \in Addr : SectorOf(a) = s => flash[a] = FF) => SectorBytes(s) = AbsErased
         /\ (\A a \in Addr : SectorOf(a) = s => flash'[a] = FF) => SectorBytes(s)' = AbsErased
  BY SectorCells DEF SectorBytes, AbsErased

\* A call that has written all its pages, and spared the rest of its sector, has made it.
LEMMA MadeBytes ==
  ASSUME CallOk, Spared, NEW p \in Int, DoneTo(p), p >= call.addr + call.len
  PROVE  SectorBytes(Target) = SectorMade(call)
<1>. DEFINE at == call.addr % SectorSize
<1>1. /\ Target \in Sector /\ SectorSize \in Nat \ {0} /\ call.addr = SectorSize * Target + at
      /\ at \in 0 .. SectorSize - 1 /\ call.addr \in Nat /\ call.len \in Nat \ {0}
  BY CallPlace DEF CallOk
<1>2. Target \in Nat /\ Target * SectorSize \in Int /\ Target * SectorSize = SectorSize * Target
  BY <1>1 DEF Sector
<1>3. SectorMade(call) = [i \in 0 .. SectorSize - 1 |->
                            IF i - at \in 0 .. call.len - 1 THEN call.data[i - at] ELSE FF]
  BY DEF SectorMade
<1>. HIDE DEF at
<1>4. ASSUME NEW i \in 0 .. SectorSize - 1
      PROVE  flash[Target * SectorSize + i]
               = IF i - at \in 0 .. call.len - 1 THEN call.data[i - at] ELSE FF
  <2>. DEFINE a == Target * SectorSize + i
  <2>1. a \in Addr /\ SectorOf(a) = Target
    BY <1>1, SectorCells
  <2>2. a - call.addr = i - at /\ a = call.addr + (i - at) /\ i - at \in Int
    BY <1>1, <1>2
  <2>. HIDE DEF a
  <2>3. CASE i - at \in 0 .. call.len - 1
    <3>1. call.addr + (i - at) < p
      BY <1>1, <2>3
    <3>. QED  BY <2>2, <2>3, <3>1 DEF DoneTo, a
  <2>4. CASE ~(i - at \in 0 .. call.len - 1)
    BY <2>1, <2>2, <2>4 DEF Spared, a
  <2>. QED  BY <2>3, <2>4
<1>. QED  BY <1>3, <1>4 DEF SectorBytes

MadeFacts ==
  CallOk /\ Spared /\ pos + PageSize \in Int /\ DoneTo(pos + PageSize)
    /\ pos + PageSize >= call.addr + call.len
    => SectorBytes(Target) = SectorMade(call)

LEMMA Made == MadeFacts
  BY MadeBytes DEF MadeFacts

LEMMA MadeAfter == MadeFacts'
  BY Made, PTL

-----------------------------------------------------------------------------
(* Steps that SectorStore does not see.                                      *)

LEMMA Unseen ==
  ASSUME call' = call, flash' = flash, unfinished' = unfinished,
         AbsPhase' = AbsPhase, AbsRet' = AbsRet
  PROVE  UNCHANGED Store!storeVars
<1>1. AbsOp' = AbsOp
  BY DEF AbsOp, AbsRet, SectorOf, SectorMade
<1>2. AbsSec' = AbsSec
  BY DEF AbsSec, SectorOf, SectorBytes, AbsTorn, AbsErased, Sector
<1>. QED  BY <1>1, <1>2 DEF Store!storeVars

LEMMA PhasesAfter == PhaseFacts'
  BY Phases, PTL

\* A step that leaves the call, the address, and the side of the command on which
\* the driver stands, is not seen.
LEMMA SameSide ==
  ASSUME CtlInv,
         call' = call, flash' = flash, unfinished' = unfinished, pos' = pos, ret' = ret,
         EraseDone' <=> EraseDone, LastPageDone' <=> LastPageDone,
         \/ Erasing /\ Erasing'
         \/ (PageBefore \/ PageAfter) /\ (PageBefore \/ PageAfter)'
         \/ pc = "idle" /\ pc' = "idle"
  PROVE  UNCHANGED Store!storeVars
<1>1. EndsInside(call)' = EndsInside(call) /\ EraseTop' = EraseTop
  BY DEF EndsInside, EraseTop
<1>2. AbsPhase' = AbsPhase
  BY <1>1, Phases, PhasesAfter DEF PhaseFacts
<1>3. AbsRet' = AbsRet
  BY DEF AbsRet
<1>. QED  BY <1>2, <1>3, Unseen

LEMMA DriverUnseen ==
  ASSUME CtlInv,
         EraseEnable \/ EraseCmd \/ Poll \/ StillBusy \/ PageEnable \/ PageCmd \/ PageEnd
  PROVE  UNCHANGED Store!storeVars
<1>1. /\ flash' = flash /\ chip' = chip /\ call' = call /\ unfinished' = unfinished
      /\ pos' = pos /\ ret' = ret
  BY DEF EraseEnable, EraseCmd, Poll, StillBusy, PageEnable, PageCmd, PageEnd
<1>2. OnLastPage' <=> OnLastPage
  BY <1>1 DEF OnLastPage
<1>3. IsRpc(rpc) /\ IsRpc([rpc EXCEPT !.data = PageAt(pos)])
  BY DEF CtlInv, ShapeInv, IsRpc
<1>4. CASE EraseEnable \/ EraseCmd \/ Poll \/ StillBusy
  <2>1. /\ EraseBefore' <=> EraseBefore
        /\ EraseAfter' <=> EraseAfter
        /\ PageBefore' <=> PageBefore
        /\ PageAfter' <=> PageAfter
        /\ Erasing \/ PageBefore \/ PageAfter
    BY <1>3, <1>4, TransferFacts
       DEF EraseEnable, EraseCmd, Poll, StillBusy, Erasing, EraseBefore, EraseAfter, PageBefore, PageAfter
  <2>. QED  BY <1>1, <1>2, <2>1, Phases, PhasesAfter, SameSide DEF PhaseFacts, Erasing
<1>5. CASE PageEnable \/ PageCmd \/ PageEnd
  <2>1. /\ EraseBefore' <=> EraseBefore
        /\ EraseAfter' <=> EraseAfter
        /\ PageBefore' <=> PageBefore
        /\ PageAfter' <=> PageAfter
        /\ PageBefore \/ PageAfter
    BY <1>3, <1>5, TransferFacts
       DEF PageEnable, PageCmd, PageEnd, EraseBefore, EraseAfter, PageBefore, PageAfter
  <2>. QED  BY <1>1, <1>2, <2>1, Phases, PhasesAfter, SameSide DEF PhaseFacts
<1>. QED  BY <1>4, <1>5

LEMMA TransferEndUnseen ==
  ASSUME CtlInv, TransferEnd
  PROVE  UNCHANGED Store!storeVars
<1>1. /\ ~rpc.tend /\ rpc'.tend /\ IsRpc(rpc) /\ IsChip(chip)
      /\ pc' = pc /\ call' = call /\ pos' = pos /\ flash' = flash /\ unfinished' = unfinished
      /\ ret' = ret
  BY DEF TransferEnd, CtlInv, ShapeInv, IsRpc
<1>2. /\ pc \notin {"idle", "eraseEnable", "pageEnable", "pagePoll"} /\ pc \in Steps
      /\ pc \in {"eraseCmd", "pageCmd"} => rpc.cmd = "writeEnable"
      /\ pc = "erasePoll" => rpc.cmd = "sectorErase"
      /\ pc = "pageEnd" => rpc.cmd = "pageProgram"
      /\ pc \in {"eraseCheck", "pageCheck"} => rpc.cmd = "readStatus"
  BY <1>1 DEF CtlInv, StepInv, ShapeInv
<1>3. rpc.cmd = "readStatus" \/ Obeyed
  BY <1>1 DEF CtlInv, TransferInv, Obeyed
<1>4. OnLastPage' <=> OnLastPage
  BY <1>1 DEF OnLastPage
<1>5. /\ Erasing <=> pc \in {"eraseCmd", "erasePoll", "eraseCheck"}
      /\ Erasing' <=> Erasing
      /\ PageBefore \/ PageAfter <=> pc \in {"pageCmd", "pageEnd", "pageCheck"}
      /\ (PageBefore \/ PageAfter)' <=> PageBefore \/ PageAfter
      /\ Erasing \/ PageBefore \/ PageAfter
  BY <1>1, <1>2 DEF Erasing, EraseBefore, EraseAfter, PageBefore, PageAfter, Steps
<1>6. (EraseDone' <=> EraseDone) /\ (LastPageDone' <=> LastPageDone)
  <2>1. CASE pc \in {"eraseCmd", "pageCmd"}
    BY <1>1, <2>1 DEF EraseDone, LastPageDone
  <2>2. CASE pc = "erasePoll"
    <3>1. PICK s \in ErasedBy(rpc.addr) :
            chip' = [chip EXCEPT !.wip = TRUE, !.job = [NoJob EXCEPT !.kind = "erase", !.at = s]]
      BY <1>2, <1>3, <2>2 DEF TransferEnd
    <3>2. chip'.wip
      BY <1>1, <3>1 DEF IsChip
    <3>. QED  BY <1>1, <2>2, <3>2 DEF EraseDone, LastPageDone
  <2>3. CASE pc = "pageEnd"
    <3>1. chip' = [chip EXCEPT !.wip = TRUE,
                     !.job = [kind |-> "program", at |-> rpc.addr, data |-> rpc.data]]
      BY <1>2, <1>3, <2>3 DEF TransferEnd
    <3>2. chip'.wip
      BY <1>1, <3>1 DEF IsChip
    <3>. QED  BY <1>1, <2>3, <3>2 DEF EraseDone, LastPageDone
  <2>4. CASE pc \in {"eraseCheck", "pageCheck"}
    <3>1. chip' = chip
      BY <1>2, <2>4 DEF TransferEnd
    <3>. QED  BY <1>1, <1>4, <2>4, <3>1 DEF EraseDone, LastPageDone
  <2>. QED  BY <1>2, <2>1, <2>2, <2>3, <2>4 DEF Steps
<1>. QED  BY <1>1, <1>5, <1>6, SameSide

\* From one sector to the next, or to the pages.
LEMMA SectorErasedUnseen ==
  ASSUME CtlInv, WriteInv, SectorsInv, SectorErased
  PROVE  UNCHANGED Store!storeVars
<1>1. /\ flash' = flash /\ call' = call /\ chip' = chip /\ unfinished' = unfinished /\ ret' = ret
      /\ pc = "eraseCheck" /\ ~chip.wip
  BY DEF SectorErased, CtlInv, StepInv
<1>2. CallOk /\ EraseTop' = EraseTop /\ EndsInside(call)' = EndsInside(call)
  BY <1>1 DEF WriteInv, EraseTop, EndsInside
<1>3. /\ pos = EraseTop \/ (pos = EraseTop + SectorSize /\ ~EndsInside(call))
      /\ EraseDone /\ ~LastPageDone
  BY <1>1 DEF SectorsInv, Erasing, EraseAfter, EraseDone, LastPageDone
<1>4. EraseTop \in Int /\ SectorSize \in Nat \ {0}
  BY <1>2, CallPlace, EraseTopFacts
<1>5. AbsPhase = IF EndsInside(call) \/ pos # EraseTop THEN "program" ELSE "eraseNext"
  BY <1>3, Phases DEF PhaseFacts
<1>6. CASE pos + SectorSize <= EraseEnd
  <2>1. pos' = pos + SectorSize /\ pc' = "eraseEnable"
    BY <1>6 DEF SectorErased
  <2>2. pos = EraseTop /\ ~EndsInside(call)
    BY <1>2, <1>3, <1>4, <1>6, EraseEndFacts
  <2>3. pos' # EraseTop
    BY <1>4, <2>1, <2>2
  <2>4. Erasing' /\ ~EraseDone' /\ ~LastPageDone'
    BY <2>1 DEF Erasing, EraseBefore, EraseDone, LastPageDone
  <2>5. AbsPhase' = AbsPhase
    BY <1>2, <1>5, <2>2, <2>3, <2>4, PhasesAfter DEF PhaseFacts
  <2>. QED  BY <1>1, <1>3, <2>4, <2>5, Unseen DEF AbsRet
<1>7. CASE ~(pos + SectorSize <= EraseEnd)
  <2>1. pc' = "pageEnable"
    BY <1>7 DEF SectorErased
  <2>2. EndsInside(call) \/ pos # EraseTop
    BY <1>2, <1>3, <1>4, <1>7, EraseEndFacts
  <2>3. PageBefore' /\ ~LastPageDone'
    BY <2>1 DEF PageBefore, LastPageDone
  <2>4. AbsPhase' = AbsPhase
    BY <1>5, <2>2, <2>3, PhasesAfter DEF PhaseFacts
  <2>. QED  BY <1>1, <1>3, <2>3, <2>4, Unseen DEF AbsRet
<1>. QED  BY <1>6, <1>7

\* From one page to the next, or back to the caller.
LEMMA PageWrittenUnseen ==
  ASSUME CtlInv, WriteInv, PageWritten
  PROVE  UNCHANGED Store!storeVars
<1>1. /\ flash' = flash /\ call' = call /\ chip' = chip /\ unfinished' = unfinished
      /\ pc = "pageCheck" /\ ~chip.wip /\ PageAfter
  BY DEF PageWritten, CtlInv, StepInv, PageAfter
<1>2. pos + PageSize \in Int /\ call.addr + call.len \in Int
  BY <1>1, Sizes DEF WriteInv, PageInv, CallOk, PosOk
<1>3. LastPageDone <=> ~(pos + PageSize < call.addr + call.len)
  BY <1>1, <1>2 DEF LastPageDone, OnLastPage
<1>4. CASE pos + PageSize < call.addr + call.len
  <2>1. pc' = "pageEnable" /\ ret' = ret
    BY <1>4 DEF PageWritten
  <2>2. PageBefore' /\ ~LastPageDone'
    BY <2>1 DEF PageBefore, LastPageDone
  <2>3. AbsPhase' = AbsPhase
    BY <1>1, <1>3, <1>4, <2>2, Phases, PhasesAfter DEF PhaseFacts
  <2>. QED  BY <1>1, <1>3, <1>4, <2>1, <2>2, <2>3, Unseen DEF AbsRet
<1>5. CASE ~(pos + PageSize < call.addr + call.len)
  <2>1. pc' = "idle" /\ ret' = "ok"
    BY <1>5 DEF PageWritten
  <2>2. AbsPhase' = AbsPhase
    BY <1>3, <1>5, <2>1, Phases, PhasesAfter DEF PhaseFacts
  <2>. QED  BY <1>1, <1>3, <1>5, <2>1, <2>2, Unseen DEF AbsRet
<1>. QED  BY <1>4, <1>5

-----------------------------------------------------------------------------
(* Steps that SectorStore makes.                                             *)

LEMMA EraseSectors ==
  ASSUME chip.job.kind = "erase", NEW s \in Sector
  PROVE  s \in JobSectors <=> s = chip.job.at
<1>1. JobCells = {a \in Addr : SectorOf(a) = chip.job.at}
  BY DEF JobCells
<1>2. s \in JobSectors => s = chip.job.at
  BY <1>1 DEF JobSectors
<1>3. 0 \in 0 .. SectorSize - 1
  BY Sizes
<1>4. s * SectorSize + 0 \in Addr /\ SectorOf(s * SectorSize + 0) = s
  BY <1>3, SectorCells
<1>. QED  BY <1>1, <1>2, <1>4 DEF JobSectors

LEMMA EraseKept ==
  ASSUME ChipDone, chip.job.kind = "erase"
  PROVE  \A s \in Sector : Kept(s)' = IF s = chip.job.at THEN AbsErased ELSE Kept(s)
<1>1. \A a \in Addr : flash'[a] = IF SectorOf(a) = chip.job.at THEN FF ELSE flash[a]
  BY EraseDoneFacts
<1>2. unfinished' = unfinished \ JobSectors
  BY DEF ChipDone
<1>3. \A s \in Sector : s \in JobSectors <=> s = chip.job.at
  BY EraseSectors
<1>4. ASSUME NEW s \in Sector, s = chip.job.at PROVE Kept(s)' = AbsErased
  <2>1. SectorBytes(s)' = AbsErased
    BY <1>1, <1>4, ErasedBytes
  <2>. QED  BY <1>2, <1>3, <1>4, <2>1 DEF Kept
<1>5. ASSUME NEW s \in Sector, s # chip.job.at PROVE Kept(s)' = Kept(s)
  <2>1. SectorBytes(s)' = SectorBytes(s)
    BY <1>1, <1>5, SameBytes
  <2>. QED  BY <1>2, <1>3, <1>5, <2>1 DEF Kept, AbsTorn
<1>. QED  BY <1>4, <1>5

\* A power loss leaves torn the sectors on which the chip is working, and no other.
LEMMA LossKept ==
  ASSUME PowerLoss
  PROVE  \A s \in Sector : Kept(s)' = IF s \in JobSectors THEN AbsTorn ELSE Kept(s)
<1>1. /\ \A a \in Addr : a \notin JobCells => flash'[a] = flash[a]
      /\ unfinished' = unfinished \cup JobSectors
  BY DEF PowerLoss
<1>2. ASSUME NEW s \in Sector, s \notin JobSectors PROVE SectorBytes(s)' = SectorBytes(s)
  BY <1>1, <1>2, SameBytes DEF JobSectors
<1>. QED  BY <1>1, <1>2 DEF Kept, AbsTorn

LEMMA PageKept ==
  ASSUME ChipDone, JobSectors = {Target}
  PROVE  \A s \in Sector : s # Target => Kept(s)' = Kept(s)
<1>1. \A a \in Addr : a \notin JobCells => flash'[a] = flash[a]
  BY DEF ChipDone
<1>2. ASSUME NEW s \in Sector, s # Target PROVE SectorBytes(s)' = SectorBytes(s)
  BY <1>1, <1>2, SameBytes DEF JobSectors
<1>3. \A s : s # Target => (s \in unfinished' <=> s \in unfinished)
  BY DEF ChipDone
<1>. QED  BY <1>2, <1>3 DEF Kept, AbsTorn

AbsSecFacts ==
  AbsSec = [s \in Sector |-> IF AbsPhase = "program" /\ s = Target THEN AbsErased ELSE Kept(s)]

LEMMA AbsSecs == AbsSecFacts
  BY DEF AbsSecFacts, AbsSec, Kept, Target

LEMMA AbsSecsAfter == AbsSecFacts'
  BY AbsSecs, PTL

\* The fields of the operation, for a call that lies in the part.
LEMMA AbsOpFacts ==
  ASSUME CallOk
  PROVE  AbsOp = [ph |-> AbsPhase, blk |-> Target, data |-> SectorMade(call), ret |-> AbsRet]
<1>1. SectorOf(call.addr) < NSectors
  BY CallPlace, Sizes DEF Target, Sector
<1>. QED  BY <1>1 DEF AbsOp, AbsRet, Target

\* The chip has erased a sector: the target of a part call, the target, or the next.
LEMMA EraseStep ==
  ASSUME CtlInv, WriteInv, SectorsInv, SectorsInv', ChipDone, EraseAfter
  PROVE  Store!StoreNext
<1>1. /\ chip.wip /\ ~chip'.wip /\ rpc' = rpc /\ pc' = pc /\ call' = call /\ pos' = pos
      /\ ret' = ret
  BY DEF ChipDone, IdleChip
<1>2. CallOk /\ CallOk' /\ chip.job.kind = "erase" /\ (chip.job.at = Target \/ Blank)
  BY <1>1 DEF EraseAfter, WriteInv, EraseInv, CallOk, Target
<1>3. /\ EraseTop' = EraseTop /\ Target' = Target /\ EndsInside(call)' = EndsInside(call)
      /\ SectorMade(call)' = SectorMade(call)
  BY <1>1 DEF EraseTop, Target, SectorOf, EndsInside, SectorMade
<1>4. /\ Erasing /\ ~EraseDone /\ EraseAfter' /\ EraseDone' /\ ~LastPageDone /\ ~LastPageDone'
  BY <1>1 DEF Erasing, EraseDone, EraseAfter, LastPageDone
<1>5. /\ pos = EraseTop \/ (pos = EraseTop + SectorSize /\ ~EndsInside(call))
      /\ pos # EraseTop => Blank /\ Target \notin unfinished
      /\ chip.job.at \in ErasedBy(pos)
  BY <1>1, <1>4 DEF SectorsInv
<1>6. AbsPhase = IF EndsInside(call) THEN "erasePart"
                 ELSE IF pos = EraseTop THEN "eraseTarget" ELSE "eraseNext"
  BY <1>4, Phases DEF PhaseFacts
<1>7. AbsPhase' = IF EndsInside(call) \/ pos # EraseTop THEN "program" ELSE "eraseNext"
  BY <1>1, <1>3, <1>4, PhasesAfter DEF PhaseFacts
<1>8. \A s \in Sector : Kept(s)' = IF s = chip.job.at THEN AbsErased ELSE Kept(s)
  BY <1>2, EraseKept
<1>9. Target \in Sector /\ Sector' = Sector /\ AbsErased' = AbsErased
  BY <1>2, CallPlace DEF Sector, AbsErased
<1>10. AbsSec = [s \in Sector |-> Kept(s)]
  BY <1>6, AbsSecs DEF AbsSecFacts
<1>11. AbsSec' = [s \in Sector |-> IF AbsPhase' = "program" /\ s = Target THEN AbsErased
                                   ELSE IF s = chip.job.at THEN AbsErased ELSE Kept(s)]
  BY <1>3, <1>8, <1>9, AbsSecsAfter DEF AbsSecFacts
<1>12. AbsOp = [ph |-> AbsPhase, blk |-> Target, data |-> SectorMade(call), ret |-> ret]
  BY <1>2, <1>4, AbsOpFacts DEF AbsRet
<1>13. AbsOp' = [ph |-> AbsPhase', blk |-> Target, data |-> SectorMade(call), ret |-> ret]
  <2>1. SectorOf(call'.addr) = Target /\ Target < NSectors
    BY <1>1, <1>9, Sizes DEF Target, Sector
  <2>. QED  BY <1>1, <1>3, <1>4, <2>1 DEF AbsOp, Target, SectorOf
<1>14. AbsOp' = [AbsOp EXCEPT !.ph = AbsPhase'] /\ AbsOp.ph = AbsPhase /\ AbsOp.blk = Target
  BY <1>12, <1>13
<1>15. CASE EndsInside(call)
  <2>1. chip.job.at = Target
    BY <1>2, <1>5, <1>15, ErasedSectors
  <2>2. AbsSec' = [AbsSec EXCEPT ![Target] = AbsErased]
    BY <1>9, <1>10, <1>11, <2>1
  <2>3. Store!ErasePart
    BY <1>6, <1>7, <1>14, <1>15, <2>2 DEF Store!ErasePart
  <2>. QED  BY <2>3 DEF Store!StoreNext
<1>16. CASE ~EndsInside(call) /\ pos = EraseTop
  <2>1. chip.job.at = Target
    BY <1>2, <1>5, <1>16, ErasedSectors
  <2>2. AbsSec' = [AbsSec EXCEPT ![Target] = AbsErased]
    BY <1>9, <1>10, <1>11, <2>1
  <2>3. Store!EraseTarget
    BY <1>6, <1>7, <1>14, <1>16, <2>2 DEF Store!EraseTarget
  <2>. QED  BY <2>3 DEF Store!StoreNext, Store!StoreStep
<1>17. CASE ~EndsInside(call) /\ pos # EraseTop
  <2>1. chip.job.at \in Store!NextSector(Target)
    BY <1>2, <1>5, <1>17, ErasedSectors DEF Store!NextSector
  <2>2. Kept(Target) = AbsErased
    BY <1>5, <1>9, <1>17, ErasedBytes DEF Kept, Blank, Target
  <2>3. AbsSec' = [s \in Sector |-> IF s = chip.job.at THEN AbsErased ELSE AbsSec[s]]
    BY <1>9, <1>10, <1>11, <2>2
  <2>4. Store!EraseNext
    BY <1>6, <1>7, <1>14, <1>17, <2>1, <2>3 DEF Store!EraseNext, Store!Sector, Sector
  <2>. QED  BY <2>4 DEF Store!StoreNext, Store!StoreStep
<1>. QED  BY <1>15, <1>16, <1>17

LEMMA OpEnds ==
  ASSUME NEW o, NEW b, NEW d, NEW r, NEW n,
         o = [ph |-> "program", blk |-> b, data |-> d, ret |-> r],
         n = [o EXCEPT !.ph = "idle", !.ret = "ok"]
  PROVE  n = [ph |-> "idle", blk |-> b, data |-> d, ret |-> "ok"]
  OBVIOUS

\* The chip has programmed a page; the last one makes the sector.
LEMMA PageStep ==
  ASSUME CtlInv, WriteInv, WriteInv', SectorsInv, SectorsInv', ChipDone, PageAfter
  PROVE  Store!StoreNext \/ UNCHANGED Store!storeVars
<1>1. /\ chip.wip /\ ~chip'.wip /\ rpc' = rpc /\ pc' = pc /\ call' = call /\ pos' = pos
      /\ ret' = ret
  BY DEF ChipDone, IdleChip
<1>2. /\ CallOk /\ CallOk' /\ PosOk /\ chip.job.kind = "program" /\ chip.job.at = pos
      /\ pos < call.addr + call.len
  BY <1>1 DEF PageAfter, WriteInv, PageInv, CallOk, SectorsInv
<1>3. /\ Target' = Target /\ SectorMade(call)' = SectorMade(call) /\ (OnLastPage' <=> OnLastPage)
      /\ AbsErased' = AbsErased /\ Sector' = Sector /\ Target \in Sector
  BY <1>1, <1>2, CallPlace DEF Target, SectorOf, SectorMade, OnLastPage, AbsErased, Sector
<1>4. PageAfter' /\ ~LastPageDone /\ (LastPageDone' <=> OnLastPage)
  BY <1>1, <1>3, Phases, PhasesAfter DEF PhaseFacts, PageAfter
<1>5. AbsPhase = "program" /\ AbsPhase' = IF OnLastPage THEN "idle" ELSE "program"
  BY <1>4, Phases, PhasesAfter DEF PhaseFacts
<1>6. JobSectors = {Target}
  BY <1>2, PageSectors
<1>7. \A s \in Sector : s # Target => Kept(s)' = Kept(s)
  BY <1>6, PageKept
<1>8. AbsSec = [s \in Sector |-> IF s = Target THEN AbsErased ELSE Kept(s)]
  BY <1>5, AbsSecs DEF AbsSecFacts
<1>9. AbsSec' = [s \in Sector |-> IF AbsPhase' = "program" /\ s = Target THEN AbsErased ELSE Kept(s)']
  BY <1>3, AbsSecsAfter DEF AbsSecFacts
<1>10. AbsOp = [ph |-> "program", blk |-> Target, data |-> SectorMade(call), ret |-> ret]
  BY <1>2, <1>4, <1>5, AbsOpFacts DEF AbsRet
<1>11. AbsOp' = [ph |-> AbsPhase', blk |-> Target, data |-> SectorMade(call),
                 ret |-> IF OnLastPage THEN "ok" ELSE ret]
  <2>1. SectorOf(call'.addr) = Target /\ Target < NSectors
    BY <1>1, <1>3, Sizes DEF Target, Sector
  <2>. QED  BY <1>1, <1>3, <1>4, <2>1 DEF AbsOp, Target, SectorOf
<1>12. CASE OnLastPage
  <2>1. /\ PosOk' /\ DoneTo(pos + PageSize)' /\ Spared'
    BY <1>1, <1>4 DEF WriteInv, PageInv, SectorsInv
  <2>2. (pos + PageSize \in Int /\ pos + PageSize >= call.addr + call.len)'
    BY <1>1, <1>2, <1>3, <1>12, Sizes DEF PosOk, OnLastPage
  <2>3. SectorBytes(Target)' = SectorMade(call)
    BY <1>2, <1>3, <2>1, <2>2, MadeAfter DEF MadeFacts
  <2>4. \A t \in Sector : t = Target => SectorBytes(t)' = SectorMade(call)
    BY <1>3, <2>3 DEF SectorBytes
  <2>5. \A t \in Sector : t = Target => Kept(t)' = SectorMade(call)
    BY <1>6, <1>12, <2>4 DEF Kept, ChipDone
  <2>6. AbsSec' = [AbsSec EXCEPT ![Target] = SectorMade(call)]
    BY <1>3, <1>5, <1>7, <1>8, <1>9, <1>12, <2>5
  <2>7. AbsOp' = [AbsOp EXCEPT !.ph = "idle", !.ret = "ok"]
    <3>1. AbsOp' = [ph |-> "idle", blk |-> Target, data |-> SectorMade(call), ret |-> "ok"]
      BY <1>5, <1>11, <1>12
    <3>. DEFINE n == [AbsOp EXCEPT !.ph = "idle", !.ret = "ok"]
    <3>2. n = [AbsOp EXCEPT !.ph = "idle", !.ret = "ok"]
      OBVIOUS
    <3>. HIDE DEF n
    <3>3. n = [ph |-> "idle", blk |-> Target, data |-> SectorMade(call), ret |-> "ok"]
      BY <1>10, <3>2, OpEnds
    <3>. QED  BY <3>1, <3>2, <3>3
  <2>8. Store!Program
    BY <1>10, <2>6, <2>7 DEF Store!Program
  <2>. QED  BY <2>8 DEF Store!StoreNext, Store!StoreStep
<1>13. CASE ~OnLastPage
  <2>1. AbsSec' = AbsSec
    BY <1>3, <1>5, <1>7, <1>8, <1>9, <1>13
  <2>2. AbsOp' = AbsOp
    BY <1>5, <1>10, <1>11, <1>13
  <2>. QED  BY <2>1, <2>2 DEF Store!storeVars
<1>. QED  BY <1>12, <1>13

\* A call begins, is refused because it does not lie in the part, or does nothing at the
\* end of the addresses.
LEMMA WriteBuffStep ==
  ASSUME CtlInv, WriteInv, WriteInv', NEW c \in Calls, WriteBuff(c)
  PROVE  Store!StoreNext
<1>1. /\ pc = "idle" /\ call' = c /\ flash' = flash /\ unfinished' = unfinished
      /\ chip' = chip /\ ~chip.wip
  BY DEF WriteBuff, CtlInv, StepInv
<1>2. /\ c.addr \in Nat /\ c.len \in Nat \ {0} /\ EndAddr \in Nat /\ EndAddr = SectorSize * NSectors
      /\ SectorSize \in Nat \ {0} /\ NSectors \in Nat \ {0}
      /\ SectorOf(c.addr) = (c.addr + c.len - 1) \div SectorSize
  BY DriverAssumption, Sizes DEF EndAddr, SectorOf
<1>3. ~LastPageDone /\ AbsPhase = "idle" /\ AbsOp.ph = "idle"
  BY <1>1, Phases DEF PhaseFacts, LastPageDone, AbsOp
<1>4. AbsSec = [s \in Sector |-> Kept(s)]
  BY <1>3, AbsSecs DEF AbsSecFacts
<1>5. AbsPhase' # "program" => AbsSec' = AbsSec
  <2>1. \A s \in Sector : Kept(s)' = Kept(s)
    BY <1>1 DEF Kept, AbsTorn, SectorBytes
  <2>. QED  BY <1>4, <2>1, AbsSecsAfter DEF AbsSecFacts, Sector
<1>. DEFINE b == IF SectorOf(c.addr) < NSectors THEN SectorOf(c.addr) ELSE NSectors
            d == SectorMade(c)
<1>6. b \in 0 .. NSectors /\ d \in AbsContent
  <2>1. SectorOf(c.addr) \in Nat
    BY <1>2 DEF SectorOf
  <2>. QED  BY <1>2, <2>1 DEF AbsContent
<1>7. ~LastPageDone' => AbsOp' = [ph |-> AbsPhase', blk |-> b, data |-> d, ret |-> ret']
  BY <1>1 DEF AbsOp, SectorOf, SectorMade
<1>8. CASE c.addr + c.len > EndAddr /\ ret' = "ng" /\ UNCHANGED <<pc, pos>>
  <2>1. ret' = "ng" /\ pc' = "idle"
    BY <1>1, <1>8
  <2>2. ~LastPageDone' /\ AbsPhase' = "idle"
    BY <2>1, PhasesAfter DEF PhaseFacts, LastPageDone
  <2>3. b = NSectors
    <3>1. c.addr + c.len - 1 \in Int /\ ~(c.addr + c.len - 1 < SectorSize * NSectors)
      BY <1>2, <1>8
    <3>2. ~((c.addr + c.len - 1) \div SectorSize < NSectors)
      BY <1>2, <3>1, BelowMultiple
    <3>. QED  BY <1>2, <3>2
  <2>4. AbsSec' = AbsSec /\ AbsOp' = [ph |-> "idle", blk |-> b, data |-> d, ret |-> "ng"]
    BY <1>5, <1>7, <2>1, <2>2
  <2>. HIDE DEF b, d
  <2>5. ~(b < NSectors)
    BY <1>2, <2>3
  <2>6. Store!StartWrite(b, d)
    BY <1>3, <2>4, <2>5 DEF Store!StartWrite
  <2>. QED  BY <1>6, <2>6 DEF Store!StoreNext
<1>10. CASE c.addr >= EndAddr /\ ret' = "ok" /\ UNCHANGED <<pc, pos>>
  <2>1. ret' = "ok" /\ pc' = "idle"
    BY <1>1, <1>10
  <2>2. ~LastPageDone' /\ AbsPhase' = "idle"
    BY <2>1, PhasesAfter DEF PhaseFacts, LastPageDone
  <2>3. b = NSectors
    <3>1. ~(c.addr < SectorSize * NSectors)
      BY <1>2, <1>10
    <3>2. ~(c.addr \div SectorSize < NSectors)
      BY <1>2, <3>1, BelowMultiple
    <3>. QED  BY <3>2 DEF SectorOf
  <2>4. AbsSec' = AbsSec /\ AbsOp' = [ph |-> "idle", blk |-> b, data |-> d, ret |-> "ok"]
    BY <1>5, <1>7, <2>1, <2>2
  <2>. HIDE DEF b, d
  <2>5. Store!StartAtTop(d)
    BY <1>3, <2>3, <2>4 DEF Store!StartAtTop
  <2>. QED  BY <1>6, <2>5 DEF Store!StoreNext
<1>9. CASE /\ c.addr + c.len <= EndAddr /\ ret' = "none"
           /\ pos' = EraseTop' /\ pc' = "eraseEnable"
  <2>1. ret' = "none" /\ pc' = "eraseEnable" /\ pos' = EraseTop'
    BY <1>9
  <2>2. ~LastPageDone' /\ ~EraseDone' /\ Erasing'
    BY <2>1 DEF LastPageDone, EraseDone, Erasing, EraseBefore
  <2>3. AbsPhase' = IF EndsInside(c) THEN "erasePart" ELSE "eraseTarget"
    <3>1. AbsPhase' = IF EndsInside(call)' THEN "erasePart" ELSE "eraseTarget"
      BY <2>1, <2>2, PhasesAfter DEF PhaseFacts
    <3>. QED  BY <1>1, <3>1 DEF EndsInside
  <2>4. b < NSectors
    <3>1. c.addr + c.len - 1 \in Int /\ c.addr + c.len - 1 < SectorSize * NSectors
      BY <1>2, <1>9
    <3>2. (c.addr + c.len - 1) \div SectorSize < NSectors
      BY <1>2, <3>1, BelowMultiple
    <3>. QED  BY <1>2, <3>2
  <2>5. AbsSec' = AbsSec /\ AbsOp' = [ph |-> AbsPhase', blk |-> b, data |-> d, ret |-> "none"]
    BY <1>5, <1>7, <2>1, <2>2, <2>3
  <2>. HIDE DEF b, d
  <2>6. Store!StartWrite(b, d) \/ Store!StartPart(b, d)
    BY <1>3, <2>3, <2>4, <2>5 DEF Store!StartWrite, Store!StartPart
  <2>. QED  BY <1>6, <2>6 DEF Store!StoreNext
<1>. QED  BY <1>8, <1>9, <1>10, WriteBuffCases

\* Power is lost: the sector that the chip was working on, or the one that the call
\* had not finished, is torn.
LEMMA PowerLossStep ==
  ASSUME CtlInv, WriteInv, SectorsInv, PowerLoss
  PROVE  Store!StoreNext
<1>1. pc' = "idle" /\ call' = NoCall /\ ret' = "none" /\ chip' = IdleChip
  BY DEF PowerLoss
<1>2. ~LastPageDone' /\ AbsPhase' = "idle"
  BY <1>1, PhasesAfter DEF PhaseFacts, LastPageDone
<1>3. \A s \in Sector : Kept(s)' = IF s \in JobSectors THEN AbsTorn ELSE Kept(s)
  BY LossKept
<1>4. AbsSec' = [s \in Sector |-> IF s \in JobSectors THEN AbsTorn ELSE Kept(s)]
  BY <1>2, <1>3, AbsSecsAfter DEF AbsSecFacts, Sector
<1>5. AbsOp' = Store!NoOp
  <2>1. SectorSize \in Nat \ {0} /\ NSectors \in Nat \ {0} /\ 0 \in Int
    BY Sizes
  <2>2. SectorOf(0) = 0 /\ 0 % SectorSize = 0
    BY <2>1 DEF SectorOf
  <2>3. SectorMade(NoCall) = AbsErased
    BY <2>1, <2>2 DEF SectorMade, NoCall, AbsErased
  <2>4. AbsOp' = [ph |-> "idle", blk |-> 0, data |-> SectorMade(NoCall), ret |-> "none"]
    <3>1. SectorOf(call'.addr) = 0
      BY <1>1, <2>2 DEF NoCall
    <3>. QED  BY <1>1, <1>2, <2>1, <3>1 DEF AbsOp, SectorOf, SectorMade
  <2>. QED  BY <2>3, <2>4 DEF Store!NoOp
<1>6. pc # "idle" => CallOk
  BY DEF WriteInv
<1>7. chip.wip => EraseAfter \/ PageAfter
  BY DEF CtlInv, StepInv, TransferInv, ShapeInv, Steps, EraseAfter, PageAfter
<1>8. ~chip.wip => JobSectors = {}
  BY DEF SectorsInv, JobSectors, JobCells
<1>9. AbsSec = [s \in Sector |-> IF AbsPhase = "program" /\ s = Target THEN AbsErased ELSE Kept(s)]
  BY AbsSecs DEF AbsSecFacts
<1>10. AbsOp.ph = AbsPhase /\ (CallOk => AbsOp.blk = Target)
  BY AbsOpFacts DEF AbsOp
<1>. DEFINE TornAt(t) == AbsSec' = [s \in Sector |-> IF s = t THEN AbsTorn ELSE AbsSec[s]]
<1>11. AbsSec' = AbsSec \/ \E t \in Store!InFlight : TornAt(t)
  <2>1. CASE AbsPhase # "program" /\ ~chip.wip
    BY <1>4, <1>8, <1>9, <2>1
  <2>2. CASE chip.wip /\ EraseAfter
    <3>1. CallOk /\ chip.job.kind = "erase" /\ Erasing /\ ~EraseDone
      BY <1>6, <2>2 DEF EraseAfter, WriteInv, EraseInv, EraseDone, Erasing
    <3>2. /\ pos = EraseTop \/ (pos = EraseTop + SectorSize /\ ~EndsInside(call))
          /\ chip.job.at \in ErasedBy(pos)
      BY <2>2, <3>1 DEF SectorsInv
    <3>3. AbsPhase = IF EndsInside(call) THEN "erasePart"
                     ELSE IF pos = EraseTop THEN "eraseTarget" ELSE "eraseNext"
      BY <3>1, Phases DEF PhaseFacts
    <3>4. chip.job.at \in Store!InFlight
      BY <1>10, <3>1, <3>2, <3>3, ErasedSectors DEF Store!InFlight, Store!NextSector
    <3>5. \A s \in Sector : s \in JobSectors <=> s = chip.job.at
      BY <3>1, EraseSectors
    <3>6. TornAt(chip.job.at)
      BY <1>4, <1>9, <3>3, <3>5
    <3>. QED  BY <3>4, <3>6
  <2>3. CASE chip.wip /\ PageAfter
    <3>1. CallOk /\ PosOk /\ chip.job.kind = "program" /\ chip.job.at = pos /\ ~LastPageDone
      BY <1>6, <2>3 DEF PageAfter, WriteInv, PageInv, LastPageDone
    <3>2. JobSectors = {Target} /\ AbsPhase = "program"
      BY <2>3, <3>1, PageSectors, Phases DEF SectorsInv, PhaseFacts
    <3>3. TornAt(Target)
      BY <1>4, <1>9, <3>2
    <3>. QED  BY <1>10, <3>1, <3>2, <3>3 DEF Store!InFlight
  <2>4. CASE AbsPhase = "program" /\ ~chip.wip
    <3>1. /\ CallOk
          /\ \/ EraseAfter \/ PageBefore
             \/ PageAfter /\ ~OnLastPage
      BY <1>6, <2>4, Phases
         DEF CtlInv, ShapeInv, Steps, PhaseFacts, Erasing, EraseBefore, EraseAfter, PageBefore, PageAfter
    <3>2. Target \in unfinished \/ (Blank /\ Target \notin unfinished)
      BY <2>4, <3>1 DEF SectorsInv, Erasing
    <3>3. Target \in Sector
      BY <3>1, CallPlace
    <3>4. CASE Target \in unfinished
      <4>1. TornAt(Target)
        BY <1>4, <1>8, <1>9, <2>4, <3>3, <3>4 DEF Kept
      <4>. QED  BY <1>10, <2>4, <3>1, <4>1 DEF Store!InFlight
    <3>5. CASE Blank /\ Target \notin unfinished
      <4>1. Kept(Target) = AbsErased
        BY <3>3, <3>5, ErasedBytes DEF Kept, Blank, Target
      <4>. QED  BY <1>4, <1>8, <1>9, <2>4, <3>3, <4>1
    <3>. QED  BY <3>2, <3>4, <3>5
  <2>. QED  BY <1>7, <2>1, <2>2, <2>3, <2>4
<1>12. Store!StorePowerLoss
  BY <1>5, <1>11 DEF Store!StorePowerLoss, Store!Sector, Sector
<1>. QED  BY <1>12 DEF Store!StoreNext

-----------------------------------------------------------------------------
LEMMA StoreInitial == Init => Store!StoreInit
<1>. SUFFICES ASSUME Init PROVE Store!StoreInit
  OBVIOUS
<1>1. pc = "idle" /\ call = NoCall /\ ret = "none" /\ unfinished = {} /\ flash = [a \in Addr |-> Old]
  BY DEF Init
<1>2. AbsPhase = "idle" /\ ~LastPageDone
  BY <1>1, Phases DEF PhaseFacts, LastPageDone
<1>3. AbsOp = Store!NoOp
  <2>1. SectorSize \in Nat \ {0} /\ NSectors \in Nat \ {0}
    BY Sizes
  <2>2. SectorOf(0) = 0 /\ 0 % SectorSize = 0 /\ SectorOf(call.addr) = 0
    BY <1>1, <2>1 DEF SectorOf, NoCall
  <2>3. SectorMade(NoCall) = AbsErased
    BY <2>1, <2>2 DEF SectorMade, NoCall, AbsErased
  <2>. QED  BY <1>1, <1>2, <2>1, <2>2, <2>3 DEF AbsOp, Store!NoOp
<1>4. AbsSec \in [Store!Sector -> AbsContent]
  <2>1. \A s \in Sector : SectorBytes(s) = [i \in 0 .. SectorSize - 1 |-> Old]
    BY <1>1, SectorCells DEF SectorBytes
  <2>2. AbsSec = [s \in Sector |-> SectorBytes(s)]
    BY <1>1, <1>2 DEF AbsSec
  <2>. QED  BY <2>1, <2>2 DEF Store!Sector, Sector, AbsContent
<1>. QED  BY <1>3, <1>4 DEF Store!StoreInit

LEMMA StoreSteps ==
  CtlInv /\ WriteInv /\ WriteInv' /\ SectorsInv /\ SectorsInv' /\ [Next]_vars
    => [Store!StoreNext]_(Store!storeVars)
<1>. SUFFICES ASSUME CtlInv, WriteInv, WriteInv', SectorsInv, SectorsInv', [Next]_vars
              PROVE  Store!StoreNext \/ UNCHANGED Store!storeVars
  OBVIOUS
<1>1. CASE UNCHANGED vars
  <2>1. (LastPageDone' <=> LastPageDone) /\ AbsPhase' = AbsPhase
    BY <1>1 DEF vars, LastPageDone, OnLastPage, AbsPhase, EraseDone, EndsInside, EraseTop
  <2>. QED  BY <1>1, <2>1, Unseen DEF vars, AbsRet
<1>2. CASE Driver
  BY <1>2, DriverUnseen, SectorErasedUnseen, PageWrittenUnseen DEF Driver
<1>3. CASE TransferEnd
  BY <1>3, TransferEndUnseen
<1>4. CASE ChipDone
  <2>1. EraseAfter \/ PageAfter
    BY <1>4 DEF ChipDone, CtlInv, StepInv, TransferInv, ShapeInv, Steps, EraseAfter, PageAfter
  <2>. QED  BY <1>4, <2>1, EraseStep, PageStep
<1>5. ASSUME NEW s \in Sector, ReadSector(s) PROVE UNCHANGED Store!storeVars
  <2>1. (LastPageDone' <=> LastPageDone) /\ (EraseDone' <=> EraseDone)
    BY <1>5 DEF ReadSector, LastPageDone, EraseDone
  <2>. QED  BY <1>5, <2>1, SameSide DEF ReadSector
<1>. QED  BY <1>1, <1>2, <1>3, <1>4, <1>5, WriteBuffStep, PowerLossStep DEF Next

\* The driver implements SectorStore: its sectors and the operation in progress, as
\* that module sees them, change as SectorStore allows and in no other way, for every
\* geometry, every set of calls and every moment at which power is lost.
THEOREM DriverImplementsStore == Spec => ImplementsStore
<1>1. Init => WriteInv
  BY DEF Init, WriteInv, WriteResult, EraseInv, PageInv, EraseBefore, EraseAfter, PageBefore, PageAfter
<1>2. Init => SectorsInv
  BY DEF Init, SectorsInv, Erasing, EraseBefore, EraseAfter, PageBefore, PageAfter, IdleChip, NoJob
<1>3. Spec => [](CtlInv /\ WriteInv /\ SectorsInv)
  BY <1>1, <1>2, InitCtl, NextCtl, NextWrite, NextSectors, PTL DEF Spec
<1>. QED  BY <1>3, StoreInitial, StoreSteps, PTL DEF Spec, ImplementsStore, Store!StoreSpec
=============================================================================
