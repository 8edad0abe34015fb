------------------------------ MODULE FwuUpdate ------------------------------
(***************************************************************************)
(* The firmware update of NS_BL2U (fwu/ns_bl2u/ns_bl2u_main.c and          *)
(* plat/renesas/rzg/fwu_nvm_accessors.c) over the flash of SectorStore,    *)
(* with power losses and restarts.  The backup area of the flash holds a   *)
(* chain of firmware image packages (FIPs).  Each is copied to DDR, the    *)
(* images its table of contents (ToC) names are written to their places,   *)
(* and at the end the header of the first FIP is erased, so that BL2       *)
(* starts the new firmware rather than NS_BL2U.                            *)
(*                                                                         *)
(* Sizes are counted in sectors.  The content "s" (a number) is what       *)
(* sector s held before the update began, so an image is installed when    *)
(* its destination holds the number of the backup sector it comes from.    *)
(***************************************************************************)
EXTENDS SectorStore

CONSTANTS
  Cleared,     \* a FIP's first sector whose header is 0xFF, the rest kept
  FipBase,     \* sector of FIP_BKP_ADDRESS
  Packages,    \* what the backup area may hold
  MaxPowerLoss \* bound on the power losses of a behaviour

\* A chain of p.n FIPs.  FIP f starts at sector p.base[f]; its null ToC entry
\* gives its size (p.size[f]), or there is none up to the end of the flash
\* (p.terminated[f] is FALSE); p.eof[f] is the END_OF_FILE flag.  ToC entry e
\* asks for p.len[f][e] sectors from p.src[f][e] (relative to the FIP) to be
\* written at p.dst[f][e].
PackageOK(p) ==
  /\ p.n \in Nat
  /\ p.base \in [1 .. p.n -> Nat]
  /\ p.size \in [1 .. p.n -> Nat]
  /\ p.terminated \in [1 .. p.n -> BOOLEAN]
  /\ p.eof \in [1 .. p.n -> BOOLEAN]
  /\ p.ents \in [1 .. p.n -> Nat]
  /\ \A f \in 1 .. p.n : /\ p.dst[f] \in [1 .. p.ents[f] -> Nat]
                         /\ p.src[f] \in [1 .. p.ents[f] -> Nat]
                         /\ p.len[f] \in [1 .. p.ents[f] -> Nat]

ASSUME FwuAssumption ==
  /\ FipBase \in Sector
  /\ Sector \subseteq Content
  /\ Cleared \in Content
  /\ Erased \notin Sector /\ Torn \notin Sector /\ Cleared \notin Sector
  /\ \A p \in Packages : PackageOK(p)
  /\ MaxPowerLoss \in Nat

VARIABLES
  pkg,        \* the chain of FIPs this behaviour began with (never changes)
  pc,
  nvm,        \* fip_nvm_addr
  ddr,        \* the FIP copied to DDR
  cur,        \* which FIP the ToC in DDR describes
  size,       \* load_size
  ent, blk,   \* ToC entry being written; blocks of it written so far
  powerLosses,
  failed      \* history: a step of this run returned STATUS_FAIL

cursorVars == <<nvm, ddr, cur, size, ent, blk>>
vars == <<sec, op, pkg, pc, cursorVars, powerLosses, failed>>

PC == {"bl2", "load", "entry", "write", "writing", "erase", "erasing", "smc",
       "normal", "panic", "fault"}

TypeOK ==
  /\ StoreTypeOK
  /\ pkg \in Packages
  /\ pc \in PC
  /\ nvm \in Nat /\ cur \in Nat /\ size \in Nat /\ ent \in Nat /\ blk \in Nat
  /\ ddr \in [Sector -> Content]
  /\ powerLosses \in 0 .. MaxPowerLoss
  /\ failed \in BOOLEAN

-----------------------------------------------------------------------------
\* FIP f of the chain is at sector a and its header is readable.
FipAt(a, f) ==
  /\ f \in 1 .. pkg.n /\ pkg.base[f] = a
  /\ a < NSectors /\ sec[a] = a

\* fip_size after the scan of the ToC; never assigned without a null entry.
FipSize(f) ==
  IF pkg.terminated[f] THEN {pkg.size[f]} ELSE 0 .. NSectors

UnknownDdr == [j \in Sector |-> Torn]

DdrAt(j) == IF j \in Sector THEN ddr[j] ELSE Torn

Init ==
  /\ sec = [s \in Sector |-> s]
  /\ op = NoOp
  /\ pkg \in Packages
  /\ pc = "bl2"
  /\ nvm = FipBase /\ cur = 0 /\ size = 0 /\ ent = 0 /\ blk = 0
  /\ ddr = UnknownDdr
  /\ powerLosses = 0
  /\ failed = FALSE

-----------------------------------------------------------------------------
\* BL2 (not in this repository) starts NS_BL2U when it finds an update in the
\* backup area; without one it may also boot the firmware.
StartUpdate ==
  /\ pc = "bl2"
  /\ pc' = "load"
  /\ nvm' = FipBase /\ cur' = 0 /\ size' = 0 /\ ent' = 0 /\ blk' = 0
  /\ ddr' = UnknownDdr /\ failed' = FALSE
  /\ UNCHANGED <<sec, op, pkg, powerLosses>>

BootFirmware ==
  /\ pc = "bl2"
  /\ ~ \E f \in 1 .. pkg.n : FipAt(FipBase, f)
  /\ pc' = "normal"
  /\ UNCHANGED <<sec, op, pkg, cursorVars, powerLosses, failed>>

\* fwu_load_fip_data finds no FIP: load_size 0 and success, which ends the loop.
LoadNone ==
  /\ pc = "load" /\ nvm < NSectors
  /\ ~ \E f \in 1 .. pkg.n : FipAt(nvm, f)
  /\ size' = 0
  /\ pc' = "erase"
  /\ UNCHANGED <<sec, op, pkg, nvm, ddr, cur, ent, blk, powerLosses, failed>>

\* The null ToC entry says that the FIP is empty: STATUS_FAIL ends the loop.
LoadEmpty(f) ==
  /\ pc = "load" /\ FipAt(nvm, f)
  /\ 0 \in FipSize(f)
  /\ size' = 0
  /\ failed' = TRUE
  /\ pc' = "erase"
  /\ UNCHANGED <<sec, op, pkg, nvm, ddr, cur, ent, blk, powerLosses>>

\* The FIP is copied to DDR through the memory-mapped flash.
LoadFip(f) ==
  /\ pc = "load" /\ FipAt(nvm, f)
  /\ \E n \in FipSize(f) \ {0} :
       /\ nvm + n <= NSectors
       /\ size' = n
       /\ ddr' = [j \in Sector |-> IF j < n THEN sec[nvm + j] ELSE ddr[j]]
  /\ cur' = f /\ ent' = 1 /\ blk' = 0
  /\ pc' = "entry"
  /\ UNCHANGED <<sec, op, pkg, nvm, powerLosses, failed>>

\* A header or a FIP beyond the mapped flash: the access faults, for good.
LoadFault ==
  /\ pc = "load"
  /\ \/ nvm >= NSectors
     \/ \E f \in 1 .. pkg.n : \E n \in FipSize(f) :
          FipAt(nvm, f) /\ nvm + n > NSectors
  /\ pc' = "fault"
  /\ UNCHANGED <<sec, op, pkg, cursorVars, powerLosses, failed>>

\* fwu_write_fip_data: the next ToC entry has an image; seek to its place.
EntrySeek ==
  /\ pc = "entry" /\ ent <= pkg.ents[cur]
  /\ pkg.len[cur][ent] > 0 /\ pkg.dst[cur][ent] < NSectors
  /\ blk' = 0
  /\ pc' = "write"
  /\ UNCHANGED <<sec, op, pkg, nvm, ddr, cur, size, ent, powerLosses, failed>>

\* The seek refuses a place outside the flash.
EntrySeekFails ==
  /\ pc = "entry" /\ ent <= pkg.ents[cur]
  /\ pkg.len[cur][ent] > 0 /\ pkg.dst[cur][ent] >= NSectors
  /\ failed' = TRUE
  /\ pc' = "erase"
  /\ UNCHANGED <<sec, op, pkg, cursorVars, powerLosses>>

\* Mutant: toc_entry is only advanced past entries that have an image.
EntrySkipStays ==
  /\ pc = "entry" /\ ent <= pkg.ents[cur]
  /\ pkg.len[cur][ent] = 0
  /\ UNCHANGED vars

\* An entry of size 0 is passed over.
EntrySkip ==
  /\ pc = "entry" /\ ent <= pkg.ents[cur]
  /\ pkg.len[cur][ent] = 0
  /\ ent' = ent + 1
  /\ UNCHANGED <<sec, op, pkg, pc, nvm, ddr, cur, size, blk, powerLosses, failed>>

\* The loop over the ToC ends at the null entry; without one, it takes whatever
\* follows for entries and ends where the FIP as loaded ends.
TocDone == ent > pkg.ents[cur] \/ ~pkg.terminated[cur]

\* Mutant: the flags of the FIP are not looked at, the first one is the last.
NextFipIgnoresFlag ==
  /\ pc = "entry" /\ TocDone
  /\ nvm' = nvm + size
  /\ pc' = "erase"
  /\ UNCHANGED <<sec, op, pkg, ddr, cur, size, ent, blk, powerLosses, failed>>

\* Mutant: fip_nvm_addr is not advanced to the next FIP.
NextFipStays ==
  /\ pc = "entry" /\ TocDone
  /\ pc' = IF pkg.eof[cur] THEN "erase" ELSE "load"
  /\ UNCHANGED <<sec, op, pkg, cursorVars, powerLosses, failed>>

\* On to the FIP that follows, or out after the last one.
NextFip ==
  /\ pc = "entry" /\ TocDone
  /\ nvm' = nvm + size
  /\ pc' = IF pkg.eof[cur] THEN "erase" ELSE "load"
  /\ UNCHANGED <<sec, op, pkg, ddr, cur, size, ent, blk, powerLosses, failed>>

\* Mutant: the place of a block is counted from 1.
WriteBlockOffByOne ==
  /\ pc = "write" /\ blk < pkg.len[cur][ent]
  /\ StartWrite(pkg.dst[cur][ent] + blk + 1, DdrAt(pkg.src[cur][ent] + blk))
  /\ pc' = "writing"
  /\ UNCHANGED <<pkg, cursorVars, powerLosses, failed>>

\* One turn of flash_write: hand the next block to the SPI driver.
WriteBlock ==
  /\ pc = "write" /\ blk < pkg.len[cur][ent]
  /\ StartWrite(pkg.dst[cur][ent] + blk, DdrAt(pkg.src[cur][ent] + blk))
  /\ pc' = "writing"
  /\ UNCHANGED <<pkg, cursorVars, powerLosses, failed>>

\* An image need not end with a whole block.  The copy flash_partial_write
\* first makes of its last block faults when there is no such block.
PartialBlockFault ==
  /\ pc = "write" /\ blk + 1 = pkg.len[cur][ent]
  /\ pkg.dst[cur][ent] + blk >= NSectors
  /\ pc' = "fault"
  /\ UNCHANGED <<sec, op, pkg, cursorVars, powerLosses, failed>>

WriteImageDone ==
  /\ pc = "write" /\ blk = pkg.len[cur][ent]
  /\ ent' = ent + 1
  /\ pc' = "entry"
  /\ UNCHANGED <<sec, op, pkg, nvm, ddr, cur, size, blk, powerLosses, failed>>

\* Mutant: the loop counts every block twice.
BlockWrittenTwice ==
  /\ pc = "writing" /\ op.ret = "ok"
  /\ blk' = IF blk + 2 > pkg.len[cur][ent] THEN blk + 1 ELSE blk + 2
  /\ pc' = "write"
  /\ UNCHANGED <<sec, op, pkg, nvm, ddr, cur, size, ent, powerLosses, failed>>

BlockWritten ==
  /\ pc = "writing" /\ op.ret = "ok"
  /\ blk' = blk + 1
  /\ pc' = "write"
  /\ UNCHANGED <<sec, op, pkg, nvm, ddr, cur, size, ent, powerLosses, failed>>

\* A refused block ends the loop of fwu_update_fip.
BlockRefused ==
  /\ pc = "writing" /\ op.ret = "ng"
  /\ failed' = TRUE
  /\ pc' = "erase"
  /\ UNCHANGED <<sec, op, pkg, cursorVars, powerLosses>>

\* Mutant: the header is erased in the sector after it.
EraseHeaderOffByOne ==
  /\ pc = "erase"
  /\ StartWrite(FipBase + 1, Cleared)
  /\ pc' = "erasing"
  /\ UNCHANGED <<pkg, cursorVars, powerLosses, failed>>

\* fwu_erase_fip_data, reached whatever the loop's status: the first sector of
\* the backup area is copied, its header set to 0xFF, and written back.
EraseHeader ==
  /\ pc = "erase"
  /\ StartWrite(FipBase, IF sec[FipBase] = Erased THEN Erased ELSE Cleared)
  /\ pc' = "erasing"
  /\ UNCHANGED <<pkg, cursorVars, powerLosses, failed>>

\* Its result replaces the loop's status: ns_bl2u_main panics on a failure.
HeaderErased ==
  /\ pc = "erasing" /\ op.ret # "none"
  /\ pc' = IF op.ret = "ok" THEN "smc" ELSE "panic"
  /\ UNCHANGED <<sec, op, pkg, cursorVars, powerLosses, failed>>

\* FWU_SMC_UPDATE_DONE: BL2 resets the system, or the call returns: panic.
UpdateDone ==
  /\ pc = "smc"
  /\ pc' \in {"bl2", "panic"}
  /\ UNCHANGED <<sec, op, pkg, cursorVars, powerLosses, failed>>

FlashStep ==
  /\ StoreStep
  /\ UNCHANGED <<pkg, pc, cursorVars, powerLosses, failed>>

\* Power fails and comes back: DDR and the cursor are lost, the flash is not.
PowerLoss ==
  /\ powerLosses < MaxPowerLoss
  /\ StorePowerLoss
  /\ pc' = "bl2"
  /\ powerLosses' = powerLosses + 1
  /\ UNCHANGED <<pkg, cursorVars, failed>>

LoadStep ==
  \/ LoadNone
  \/ \E f \in 1 .. pkg.n : LoadEmpty(f) \/ LoadFip(f)
  \/ LoadFault

WriteStep ==
  \/ EntrySeek \/ EntrySeekFails \/ EntrySkip \/ NextFip
  \/ WriteBlock \/ PartialBlockFault \/ WriteImageDone
  \/ BlockWritten \/ BlockRefused

EraseStep == EraseHeader \/ HeaderErased \/ UpdateDone

\* What the machine does by itself; a power loss is not one of these.
Progress ==
  StartUpdate \/ BootFirmware \/ LoadStep \/ WriteStep \/ EraseStep \/ FlashStep

Next == Progress \/ PowerLoss

Spec == Init /\ [][Next]_vars

FairSpec == Spec /\ WF_vars(Progress)

-----------------------------------------------------------------------------
(***************************************************************************)
(* Properties.                                                             *)
(***************************************************************************)
\* Block k of image e of FIP f holds what the package brought for it.
Installed(f, e, k) ==
  sec[pkg.dst[f][e] + k] = pkg.base[f] + pkg.src[f][e] + k

AllInstalled ==
  \A f \in 1 .. pkg.n : \A e \in 1 .. pkg.ents[f] :
    \A k \in 0 .. pkg.len[f][e] - 1 : Installed(f, e, k)

\* BL2 and fwu_load_fip_data still find the update.
HeaderKept == pkg.n > 0 /\ sec[FipBase] = FipBase

FipArea(p) == UNION {p.base[f] .. p.base[f] + p.size[f] - 1 : f \in 1 .. p.n}

\* The order in which the blocks of a package are written.
Before(f1, e1, k1, f2, e2, k2) ==
  \/ f1 < f2
  \/ f1 = f2 /\ e1 < e2
  \/ f1 = f2 /\ e1 = e2 /\ k1 < k2

\* A chain as the packaging tool lays it out: FIPs back to back from the
\* backup address, every image inside its FIP and inside the flash.
WellFormed(p) ==
  /\ p.n > 0 => p.base[1] = FipBase
  /\ \A f \in 1 .. p.n :
       /\ p.terminated[f] /\ p.size[f] > 0
       /\ p.base[f] + p.size[f] <= NSectors
       /\ f < p.n => ~p.eof[f] /\ p.base[f + 1] = p.base[f] + p.size[f]
       /\ \A g \in 1 .. p.n : f < g => p.base[f] + p.size[f] <= p.base[g]
       /\ f = p.n => p.eof[f] \/ p.base[f] + p.size[f] < NSectors
       /\ \A e \in 1 .. p.ents[f] :
            /\ p.dst[f][e] + p.len[f][e] <= NSectors
            /\ p.src[f][e] + p.len[f][e] <= p.size[f]

\* What the double erase asks of the layout: no block may be written to, or
\* just before, the backup area or the place of a block written earlier.
LayoutSafe(p) ==
  \A f \in 1 .. p.n : \A e \in 1 .. p.ents[f] : \A k \in 0 .. p.len[f][e] - 1 :
    LET d == p.dst[f][e] + k IN
    /\ d \notin NextSector(FipBase)
    /\ ({d} \cup NextSector(d)) \cap FipArea(p) = {}
    /\ \A f1 \in 1 .. p.n : \A e1 \in 1 .. p.ents[f1] :
         \A k1 \in 0 .. p.len[f1][e1] - 1 :
           Before(f1, e1, k1, f, e, k) =>
             p.dst[f1][e1] + k1 \notin {d} \cup NextSector(d)

\* The update is recoverable: the header of the first FIP is gone only when
\* every image of every FIP is in place, whatever power losses came between
\* (README 3.1: the old firmware is replaced, after that the update deleted).
BackupUntilInstalled == ~HeaderKept => AllInstalled

\* As long as the header stands, so does everything behind it: a restart finds
\* the whole chain and not a package the update itself has damaged.
BackupIntact == HeaderKept => \A s \in FipArea(pkg) : sec[s] = s

\* No sector changes but the destinations, the first backup sector, and the
\* sectors right after these (the second erase), whatever the package says.
MayChange(s) ==
  \/ s \in {FipBase} \cup NextSector(FipBase)
  \/ \E f \in 1 .. pkg.n : \E e \in 1 .. pkg.ents[f] :
       \E k \in 0 .. pkg.len[f][e] - 1 :
         s \in {pkg.dst[f][e] + k} \cup NextSector(pkg.dst[f][e] + k)

OthersUntouched == \A s \in Sector : ~MayChange(s) => sec[s] = s

\* A run that met an error does not report FWU_SMC_UPDATE_DONE
\* (ns_bl2u_main: "Firmware Image Update Failed", panic).
FailureReported == pc = "smc" => ~failed

\* Despite power losses the update is eventually in place and gone from the
\* backup area, for good.
UpdateCompletes == <>[](~HeaderKept /\ AllInstalled)

\* A run of NS_BL2U ends, whatever the package says.
RunEnds == pc = "load" ~> pc \in {"smc", "panic", "fault", "bl2"}

\* The update seen from outside: see UpdateContract.
Contract == INSTANCE UpdateContract
              WITH fw     <- IF AllInstalled THEN "new" ELSE "mixed",
                   backup <- HeaderKept

ImplementsContract == Contract!ContractSpec
=============================================================================
