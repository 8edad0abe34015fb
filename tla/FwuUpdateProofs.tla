--------------------------- MODULE FwuUpdateProofs ---------------------------
(***************************************************************************)
(* Proofs about FwuUpdate, for every flash size, every backup address and  *)
(* every set of packages.                                                  *)
(***************************************************************************)
EXTENDS FwuUpdate, TLAPS

\* Where the cursor can be while a FIP is being written, for any package.
CursorOK ==
  /\ pc \in {"entry", "write", "writing"} =>
       cur \in 1 .. pkg.n /\ ent \in 1 .. pkg.ents[cur] + 1
  /\ pc \in {"write", "writing"} =>
       /\ ent <= pkg.ents[cur]
       /\ blk <= pkg.len[cur][ent]
  /\ pc = "writing" => blk < pkg.len[cur][ent]

\* A block write is in progress only where one was asked for.
OpOK ==
  /\ pc \notin {"writing", "erasing"} => op.ph = "idle"
  /\ pc = "writing" => op.blk = pkg.dst[cur][ent] + blk
  /\ pc = "erasing" => op.blk = FipBase
  /\ op.ph # "idle" => op.blk \in Sector /\ op.ret = "none"

Inv == TypeOK /\ CursorOK /\ OpOK

-----------------------------------------------------------------------------
\* A block write step keeps the store's types.
LEMMA StoreStepType ==
  ASSUME StoreTypeOK, StoreStep,
         op.ph # "idle" => op.blk \in Sector /\ op.ret = "none"
  PROVE  /\ StoreTypeOK'
         /\ op'.blk = op.blk /\ op'.data = op.data
         /\ op'.ph # "idle" => op'.ret = "none"
         /\ op.ph # "idle"
         /\ \A s \in Sector : s \notin {op.blk} \cup NextSector(op.blk) =>
                                sec'[s] = sec[s]
<1>1. CASE EraseTarget
  BY <1>1, StoreAssumption DEF EraseTarget, StoreTypeOK, OpType, Phase, Sector
<1>2. CASE EraseNext
  BY <1>2, StoreAssumption DEF EraseNext, StoreTypeOK, OpType, Phase, Sector
<1>3. CASE Program
  BY <1>3, StoreAssumption DEF Program, StoreTypeOK, OpType, Phase, Sector
<1>. QED  BY <1>1, <1>2, <1>3 DEF StoreStep

\* Beginning a block write changes no sector.
LEMMA StartWriteType ==
  ASSUME StoreTypeOK, NEW b \in Nat, NEW d \in Content, StartWrite(b, d)
  PROVE  /\ StoreTypeOK'
         /\ sec' = sec
         /\ op'.blk = b /\ op'.data = d
         /\ op'.ph # "idle" => b \in Sector /\ op'.ret = "none"
         /\ op'.ph \in {"idle", "eraseTarget"}
         /\ b < NSectors => op'.ph = "eraseTarget"
  BY StoreAssumption DEF StartWrite, StoreTypeOK, OpType, Phase, Sector

\* A power loss changes at most the sector being erased or programmed.
LEMMA PowerLossType ==
  ASSUME StoreTypeOK, StorePowerLoss
  PROVE  /\ StoreTypeOK'
         /\ op' = NoOp
         /\ \A s \in Sector : s \notin InFlight => sec'[s] = sec[s]
<1>1. NoOp \in OpType
  BY StoreAssumption DEF NoOp, OpType, Phase
<1>. QED
  BY <1>1, StoreAssumption DEF StorePowerLoss, StoreTypeOK, Sector

\* The destination and the source of the block under the cursor are typed.
LEMMA PackageFacts ==
  ASSUME TypeOK
  PROVE  /\ pkg.n \in Nat
         /\ \A f \in 1 .. pkg.n :
              /\ pkg.base[f] \in Nat /\ pkg.size[f] \in Nat
              /\ pkg.ents[f] \in Nat
              /\ \A e \in 1 .. pkg.ents[f] :
                   pkg.dst[f][e] \in Nat /\ pkg.src[f][e] \in Nat /\ pkg.len[f][e] \in Nat
<1>1. PackageOK(pkg)
  BY FwuAssumption DEF TypeOK
<1>2. ASSUME NEW f \in 1 .. pkg.n
      PROVE  /\ pkg.base[f] \in Nat /\ pkg.size[f] \in Nat
             /\ pkg.ents[f] \in Nat
             /\ pkg.dst[f] \in [1 .. pkg.ents[f] -> Nat]
             /\ pkg.src[f] \in [1 .. pkg.ents[f] -> Nat]
             /\ pkg.len[f] \in [1 .. pkg.ents[f] -> Nat]
  BY <1>1 DEF PackageOK
<1>3. pkg.n \in Nat
  BY <1>1 DEF PackageOK
<1>. QED  BY <1>2, <1>3

LEMMA InitInv == Init => Inv
<1>. SUFFICES ASSUME Init PROVE Inv
  OBVIOUS
<1>1. StoreTypeOK
  BY StoreAssumption, FwuAssumption
  DEF Init, StoreTypeOK, OpType, Phase, NoOp, Sector
<1>2. FipBase \in Nat /\ MaxPowerLoss \in Nat
  BY StoreAssumption, FwuAssumption DEF Sector
<1>3. UnknownDdr \in [Sector -> Content]
  BY StoreAssumption DEF UnknownDdr
<1>4. TypeOK
  <2>1. ddr \in [Sector -> Content] /\ pkg \in Packages /\ failed \in BOOLEAN
    BY <1>3 DEF Init
  <2>2. /\ nvm \in Nat /\ cur \in Nat /\ size \in Nat /\ ent \in Nat /\ blk \in Nat
        /\ powerLosses \in 0 .. MaxPowerLoss
    BY <1>2 DEF Init
  <2>3. pc \in PC
    BY DEF Init, PC
  <2>. QED  BY <1>1, <2>1, <2>2, <2>3 DEF TypeOK
<1>. QED  BY <1>4 DEF Init, Inv, CursorOK, OpOK, NoOp

LEMMA NextInv == Inv /\ [Next]_vars => Inv'
<1>. SUFFICES ASSUME Inv, [Next]_vars PROVE Inv'
  OBVIOUS
<1>. USE DEF Inv
<1>t. /\ StoreTypeOK /\ pkg \in Packages /\ pc \in PC
      /\ nvm \in Nat /\ cur \in Nat /\ size \in Nat /\ ent \in Nat /\ blk \in Nat
      /\ ddr \in [Sector -> Content]
      /\ powerLosses \in 0 .. MaxPowerLoss /\ failed \in BOOLEAN
  BY DEF TypeOK
<1>1. CASE StartUpdate
  <2>1. UnknownDdr \in [Sector -> Content]
    BY StoreAssumption DEF UnknownDdr
  <2>2. FipBase \in Nat
    BY StoreAssumption, FwuAssumption DEF Sector
  <2>3. TypeOK'
    BY <1>1, <1>t, <2>1, <2>2 DEF StartUpdate, TypeOK, StoreTypeOK, PC
  <2>. QED  BY <1>1, <2>3 DEF StartUpdate, CursorOK, OpOK
<1>2. CASE BootFirmware
  BY <1>2, <1>t DEF BootFirmware, TypeOK, StoreTypeOK, PC, cursorVars, CursorOK, OpOK
<1>3. CASE LoadNone
  BY <1>3, <1>t DEF LoadNone, TypeOK, StoreTypeOK, PC, CursorOK, OpOK
<1>4. ASSUME NEW f \in 1 .. pkg.n, LoadEmpty(f) PROVE Inv'
  BY <1>4, <1>t DEF LoadEmpty, TypeOK, StoreTypeOK, PC, CursorOK, OpOK
<1>5. ASSUME NEW f \in 1 .. pkg.n, LoadFip(f) PROVE Inv'
  <2>1. PICK n \in FipSize(f) \ {0} :
          /\ nvm + n <= NSectors
          /\ size' = n
          /\ ddr' = [j \in Sector |-> IF j < n THEN sec[nvm + j] ELSE ddr[j]]
    BY <1>5 DEF LoadFip
  <2>2. n \in Nat /\ f \in Nat
    BY PackageFacts, StoreAssumption DEF FipSize
  <2>3. ddr' \in [Sector -> Content]
    <3>. SUFFICES ASSUME NEW j \in Sector
                  PROVE (IF j < n THEN sec[nvm + j] ELSE ddr[j]) \in Content
      BY <2>1
    <3>1. ASSUME j < n PROVE nvm + j \in Sector
      BY <3>1, <2>1, <2>2, <1>t, StoreAssumption DEF Sector
    <3>. QED  BY <3>1, <1>t DEF StoreTypeOK
  <2>4. TypeOK'
    BY <1>5, <1>t, <2>1, <2>2, <2>3 DEF LoadFip, TypeOK, StoreTypeOK, PC
  <2>5. pkg.ents[f] \in Nat
    BY PackageFacts
  <2>. QED  BY <1>5, <1>t, <2>4, <2>5 DEF LoadFip, CursorOK, OpOK
<1>6. CASE LoadFault
  BY <1>6, <1>t DEF LoadFault, TypeOK, StoreTypeOK, PC, cursorVars, CursorOK, OpOK
<1>7. CASE EntrySeek
  <2>1. pkg.len[cur][ent] \in Nat /\ pkg.ents[cur] \in Nat
    BY <1>7, <1>t, PackageFacts DEF EntrySeek, CursorOK
  <2>. QED
    BY <1>7, <1>t, <2>1 DEF EntrySeek, TypeOK, StoreTypeOK, PC, CursorOK, OpOK
<1>8. CASE EntrySeekFails
  BY <1>8, <1>t
  DEF EntrySeekFails, TypeOK, StoreTypeOK, PC, cursorVars, CursorOK, OpOK
<1>9. CASE EntrySkip
  <2>1. pkg.ents[cur] \in Nat
    BY <1>9, <1>t, PackageFacts DEF EntrySkip, CursorOK
  <2>. QED
    BY <1>9, <1>t, <2>1 DEF EntrySkip, TypeOK, StoreTypeOK, PC, CursorOK, OpOK
<1>10. CASE NextFip
  BY <1>10, <1>t DEF NextFip, TypeOK, StoreTypeOK, PC, CursorOK, OpOK
<1>11. CASE WriteBlock
  <2>1. /\ cur \in 1 .. pkg.n /\ ent \in 1 .. pkg.ents[cur]
        /\ pkg.dst[cur][ent] + blk \in Nat /\ pkg.src[cur][ent] + blk \in Nat
    BY <1>11, <1>t, PackageFacts DEF WriteBlock, CursorOK
  <2>2. DdrAt(pkg.src[cur][ent] + blk) \in Content
    BY <1>t, StoreAssumption DEF DdrAt
  <2>3. /\ StoreTypeOK'
        /\ op'.blk = pkg.dst[cur][ent] + blk
        /\ op'.ph # "idle" => op'.blk \in Sector /\ op'.ret = "none"
    BY <1>11, <1>t, <2>1, <2>2, StartWriteType DEF WriteBlock
  <2>. QED
    BY <1>11, <1>t, <2>1, <2>3 DEF WriteBlock, TypeOK, PC, cursorVars, CursorOK, OpOK
<1>12. CASE WriteImageDone
  <2>1. pkg.ents[cur] \in Nat
    BY <1>12, <1>t, PackageFacts DEF WriteImageDone, CursorOK
  <2>. QED
    BY <1>12, <1>t, <2>1 DEF WriteImageDone, TypeOK, StoreTypeOK, PC, CursorOK, OpOK
<1>13. CASE BlockWritten
  <2>1. pkg.len[cur][ent] \in Nat
    BY <1>13, <1>t, PackageFacts DEF BlockWritten, CursorOK
  <2>2. op.ph = "idle"
    BY <1>13 DEF BlockWritten, OpOK
  <2>. QED
    BY <1>13, <1>t, <2>1, <2>2 DEF BlockWritten, TypeOK, StoreTypeOK, PC, CursorOK, OpOK
<1>14. CASE BlockRefused
  BY <1>14, <1>t
  DEF BlockRefused, TypeOK, StoreTypeOK, PC, cursorVars, CursorOK, OpOK
<1>21. CASE PartialBlockFault
  BY <1>21, <1>t
  DEF PartialBlockFault, TypeOK, StoreTypeOK, PC, cursorVars, CursorOK, OpOK
<1>15. CASE EraseHeader
  <2>1. FipBase \in Nat /\ FipBase \in Sector
    BY FwuAssumption, StoreAssumption DEF Sector
  <2>2. (IF sec[FipBase] = Erased THEN Erased ELSE Cleared) \in Content
    BY FwuAssumption, StoreAssumption
  <2>3. /\ StoreTypeOK'
        /\ op'.blk = FipBase
        /\ op'.ph # "idle" => op'.blk \in Sector /\ op'.ret = "none"
    BY <1>15, <1>t, <2>1, <2>2, StartWriteType DEF EraseHeader
  <2>. QED
    BY <1>15, <1>t, <2>3 DEF EraseHeader, TypeOK, PC, cursorVars, CursorOK, OpOK
<1>16. CASE HeaderErased
  BY <1>16, <1>t
  DEF HeaderErased, TypeOK, StoreTypeOK, PC, cursorVars, CursorOK, OpOK
<1>17. CASE UpdateDone
  BY <1>17, <1>t
  DEF UpdateDone, TypeOK, StoreTypeOK, PC, cursorVars, CursorOK, OpOK
<1>18. CASE FlashStep
  <2>1. /\ StoreTypeOK'
        /\ op'.blk = op.blk
        /\ op'.ph # "idle" => op'.ret = "none"
        /\ op.ph # "idle"
    BY <1>18, <1>t, StoreStepType DEF FlashStep, OpOK
  <2>. QED
    BY <1>18, <1>t, <2>1 DEF FlashStep, TypeOK, cursorVars, CursorOK, OpOK
<1>19. CASE PowerLoss
  <2>1. StoreTypeOK' /\ op' = NoOp
    BY <1>19, <1>t, PowerLossType DEF PowerLoss
  <2>2. powerLosses' \in 0 .. MaxPowerLoss
    BY <1>19, <1>t, FwuAssumption DEF PowerLoss
  <2>. QED
    BY <1>19, <1>t, <2>1, <2>2
    DEF PowerLoss, NoOp, TypeOK, PC, cursorVars, CursorOK, OpOK
<1>20. CASE UNCHANGED vars
  BY <1>20, <1>t DEF vars, cursorVars, TypeOK, StoreTypeOK, CursorOK, OpOK
<1>. QED
  BY <1>1, <1>2, <1>3, <1>4, <1>5, <1>6, <1>7, <1>8, <1>9, <1>10, <1>11, <1>12,
     <1>13, <1>14, <1>15, <1>16, <1>17, <1>18, <1>19, <1>20, <1>21
  DEF Next, Progress, LoadStep, WriteStep, EraseStep

\* The types, the cursor and the call in progress are consistent, whatever the
\* package (fwu_load_fip_data, fwu_write_fip_data, fwu_erase_fip_data).
THEOREM Inductive == Spec => []Inv
  BY InitInv, NextInv, PTL DEF Spec

\* Every variable has its type (FwuUpdate!TypeOK).
THEOREM TypeCorrect == Spec => []TypeOK
<1>1. Inv => TypeOK
  BY DEF Inv
<1>. QED  BY <1>1, Inductive, PTL

-----------------------------------------------------------------------------
\* Only a step of a block write and a power loss change the flash.
LEMMA QuietSteps ==
  ASSUME Inv, [Next]_vars
  PROVE  pkg' = pkg /\ (sec' = sec \/ FlashStep \/ PowerLoss)
<1>1. CASE WriteStep
  <2>1. CASE WriteBlock
    BY <2>1 DEF WriteBlock, StartWrite
  <2>. QED
    BY <1>1, <2>1 DEF WriteStep, EntrySeek, EntrySeekFails, EntrySkip, NextFip,
                      PartialBlockFault, WriteImageDone, BlockWritten, BlockRefused
<1>2. CASE LoadStep
  BY <1>2 DEF LoadStep, LoadNone, LoadEmpty, LoadFip, LoadFault
<1>3. CASE EraseStep
  BY <1>3 DEF EraseStep, EraseHeader, HeaderErased, UpdateDone, StartWrite
<1>4. CASE StartUpdate \/ BootFirmware
  BY <1>4 DEF StartUpdate, BootFirmware
<1>5. CASE FlashStep \/ PowerLoss
  BY <1>5 DEF FlashStep, PowerLoss
<1>6. CASE UNCHANGED vars
  BY <1>6 DEF vars
<1>. QED  BY <1>1, <1>2, <1>3, <1>4, <1>5, <1>6 DEF Next, Progress

\* Both leave alone every sector but the block written and the one after it.
LEMMA FlashFootprint ==
  ASSUME Inv, FlashStep \/ PowerLoss,
         NEW s \in Sector, s \notin {op.blk} \cup NextSector(op.blk)
  PROVE  sec'[s] = sec[s]
<1>1. CASE FlashStep
  BY <1>1, StoreStepType DEF FlashStep, Inv, TypeOK, OpOK
<1>2. CASE PowerLoss
  <2>1. s \notin InFlight
    BY DEF InFlight
  <2>. QED  BY <1>2, <2>1, PowerLossType DEF PowerLoss, Inv, TypeOK
<1>. QED  BY <1>1, <1>2

LEMMA IdleFootprint ==
  ASSUME Inv, PowerLoss, op.ph = "idle"
  PROVE  \A s \in Sector : sec'[s] = sec[s]
<1>1. InFlight = {}
  BY DEF InFlight
<1>. QED  BY <1>1, PowerLossType DEF PowerLoss, Inv, TypeOK

\* The sectors a block write can touch are ones the package accounts for.
LEMMA WritesAreDeclared ==
  ASSUME Inv, op.ph # "idle"
  PROVE  \A s \in {op.blk} \cup NextSector(op.blk) : MayChange(s)
<1>1. CASE pc = "erasing"
  BY <1>1 DEF Inv, OpOK, MayChange
<1>2. CASE pc = "writing"
  <2>1. /\ cur \in 1 .. pkg.n /\ ent \in 1 .. pkg.ents[cur]
        /\ pkg.len[cur][ent] \in Nat /\ blk \in Nat /\ blk < pkg.len[cur][ent]
    BY <1>2, PackageFacts DEF Inv, CursorOK, TypeOK
  <2>2. blk \in 0 .. pkg.len[cur][ent] - 1
    BY <2>1
  <2>3. op.blk = pkg.dst[cur][ent] + blk
    BY <1>2 DEF Inv, OpOK
  <2>. QED  BY <2>1, <2>2, <2>3 DEF MayChange
<1>. QED  BY <1>1, <1>2 DEF Inv, OpOK

\* Whatever package is in the backup area and whenever power fails, no sector
\* changes but those of its images, the first backup sector, and the sectors
\* right after these (rzg_spi_erase_sectors erases one more).
THEOREM NothingElseChanges == Spec => []OthersUntouched
<1>1. Init => OthersUntouched
  BY DEF Init, OthersUntouched
<1>2. Inv /\ OthersUntouched /\ [Next]_vars => OthersUntouched'
  <2>. SUFFICES ASSUME Inv, OthersUntouched, [Next]_vars,
                       NEW s \in Sector, ~MayChange(s)'
                PROVE  sec'[s] = s
    BY DEF OthersUntouched
  <2>1. ~MayChange(s) /\ sec[s] = s
    BY QuietSteps DEF MayChange, OthersUntouched
  <2>2. CASE sec' = sec
    BY <2>1, <2>2
  <2>3. CASE FlashStep \/ PowerLoss
    <3>1. CASE op.ph = "idle"
      <4>1. ~FlashStep
        BY <3>1 DEF FlashStep, StoreStep, EraseTarget, EraseNext, Program
      <4>. QED  BY <2>1, <2>3, <3>1, <4>1, IdleFootprint
    <3>2. CASE op.ph # "idle"
      BY <2>1, <2>3, <3>2, FlashFootprint, WritesAreDeclared
    <3>. QED  BY <3>1, <3>2
  <2>. QED  BY <2>2, <2>3, QuietSteps
<1>. QED  BY <1>1, <1>2, Inductive, PTL DEF Spec

-----------------------------------------------------------------------------
(***************************************************************************)
(* Recoverability, for chains of FIPs that are well formed and whose       *)
(* layout the double erase does not hurt.                                  *)
(***************************************************************************)
SafePackagesOnly == \A p \in Packages : WellFormed(p) /\ LayoutSafe(p)

\* Every block written before block k of image e of FIP f is in place.
InstalledBefore(f, e, k) ==
  \A f1 \in 1 .. pkg.n : \A e1 \in 1 .. pkg.ents[f1] :
    \A k1 \in 0 .. pkg.len[f1][e1] - 1 :
      Before(f1, e1, k1, f, e, k) => Installed(f1, e1, k1)

\* At the top of the loop, fip_nvm_addr is at the next FIP or past the last.
LoadInv ==
  pc = "load" =>
    IF HeaderKept
      THEN \/ \E f \in 1 .. pkg.n : nvm = pkg.base[f] /\ InstalledBefore(f, 1, 0)
           \/ AllInstalled /\ \A f \in 1 .. pkg.n : nvm # pkg.base[f]
      ELSE nvm = FipBase

\* While a FIP is written, DDR holds it and the blocks so far are in place.
WriteInv ==
  pc \in {"entry", "write", "writing"} =>
    /\ HeaderKept
    /\ nvm = pkg.base[cur] /\ size = pkg.size[cur]
    /\ \A j \in 0 .. size - 1 : ddr[j] = pkg.base[cur] + j
    /\ InstalledBefore(cur, ent, IF pc = "entry" THEN 0 ELSE blk)

BusyInv ==
  pc = "writing" =>
    /\ op.data = pkg.base[cur] + pkg.src[cur][ent] + blk
    /\ op.ph = "idle" => op.ret = "ok" /\ sec[op.blk] = op.data

EraseInv ==
  /\ pc \in {"erase", "erasing", "smc"} => AllInstalled
  /\ pc = "erasing" => /\ op.data \notin Sector
                       /\ op.ph # "eraseTarget" => ~HeaderKept

SafeInv ==
  /\ Inv
  /\ BackupUntilInstalled /\ BackupIntact
  /\ LoadInv /\ WriteInv /\ BusyInv /\ EraseInv

-----------------------------------------------------------------------------
\* What SafePackagesOnly says of the chain in the backup area.
LEMMA ChainFacts ==
  ASSUME SafePackagesOnly, TypeOK, NEW f \in 1 .. pkg.n
  PROVE  /\ pkg.base[1] = FipBase
         /\ FipSize(f) = {pkg.size[f]} /\ pkg.size[f] > 0
         /\ pkg.base[f] + pkg.size[f] <= NSectors
         /\ f < pkg.n => ~pkg.eof[f] /\ pkg.base[f + 1] = pkg.base[f] + pkg.size[f]
         /\ \A g \in 1 .. pkg.n : f < g => pkg.base[f] + pkg.size[f] <= pkg.base[g]
         /\ \A e \in 1 .. pkg.ents[f] :
              /\ pkg.dst[f][e] + pkg.len[f][e] <= NSectors
              /\ pkg.src[f][e] + pkg.len[f][e] <= pkg.size[f]
<1>1. WellFormed(pkg) /\ pkg.n \in Nat /\ pkg.n > 0
  BY PackageFacts DEF SafePackagesOnly, TypeOK
<1>. QED  BY <1>1 DEF WellFormed, FipSize

\* The sectors of a FIP are in the backup area, and so is its first one.
LEMMA FipSectors ==
  ASSUME SafePackagesOnly, TypeOK, NEW f \in 1 .. pkg.n
  PROVE  /\ \A j \in 0 .. pkg.size[f] - 1 : pkg.base[f] + j \in FipArea(pkg)
         /\ pkg.base[f] \in FipArea(pkg) /\ pkg.base[f] \in Sector
         /\ FipBase \in FipArea(pkg)
<1>1. /\ pkg.n \in Nat /\ 1 \in 1 .. pkg.n
      /\ pkg.base[f] \in Nat /\ pkg.size[f] \in Nat
      /\ pkg.base[1] \in Nat /\ pkg.size[1] \in Nat
  BY PackageFacts
<1>2. /\ pkg.size[f] > 0 /\ pkg.base[f] + pkg.size[f] <= NSectors
      /\ pkg.size[1] > 0 /\ pkg.base[1] = FipBase
  BY <1>1, ChainFacts
<1>3. ASSUME NEW j \in 0 .. pkg.size[f] - 1
      PROVE pkg.base[f] + j \in pkg.base[f] .. pkg.base[f] + pkg.size[f] - 1
  BY <1>1, <1>2
<1>4. FipBase \in pkg.base[1] .. pkg.base[1] + pkg.size[1] - 1
  BY <1>1, <1>2
<1>5. pkg.base[f] \in pkg.base[f] .. pkg.base[f] + pkg.size[f] - 1
  BY <1>1, <1>2
<1>6. pkg.base[f] \in Sector
  BY <1>1, <1>2, StoreAssumption DEF Sector
<1>. QED  BY <1>1, <1>3, <1>4, <1>5, <1>6 DEF FipArea

\* What LayoutSafe says of one block of one image.
LEMMA LayoutFacts ==
  ASSUME SafePackagesOnly, TypeOK,
         NEW f \in 1 .. pkg.n, NEW e \in 1 .. pkg.ents[f],
         NEW k \in 0 .. pkg.len[f][e] - 1
  PROVE  /\ pkg.dst[f][e] + k \notin NextSector(FipBase)
         /\ \A s \in {pkg.dst[f][e] + k} \cup NextSector(pkg.dst[f][e] + k) :
              s \notin FipArea(pkg)
         /\ \A f1 \in 1 .. pkg.n : \A e1 \in 1 .. pkg.ents[f1] :
              \A k1 \in 0 .. pkg.len[f1][e1] - 1 :
                Before(f1, e1, k1, f, e, k) =>
                  pkg.dst[f1][e1] + k1
                    \notin {pkg.dst[f][e] + k} \cup NextSector(pkg.dst[f][e] + k)
<1>1. LayoutSafe(pkg)
  BY DEF SafePackagesOnly, TypeOK
<1>. QED  BY <1>1 DEF LayoutSafe

\* The destination of a block is a sector, and its source one of its FIP.
LEMMA BlockFacts ==
  ASSUME SafePackagesOnly, TypeOK,
         NEW f \in 1 .. pkg.n, NEW e \in 1 .. pkg.ents[f],
         NEW k \in 0 .. pkg.len[f][e] - 1
  PROVE  /\ pkg.dst[f][e] + k \in Sector
         /\ pkg.src[f][e] + k \in 0 .. pkg.size[f] - 1
         /\ pkg.src[f][e] + k \in Sector
<1>1. /\ pkg.dst[f][e] \in Nat /\ pkg.src[f][e] \in Nat /\ pkg.len[f][e] \in Nat
      /\ pkg.base[f] \in Nat /\ pkg.size[f] \in Nat
  BY PackageFacts
<1>2. /\ pkg.dst[f][e] + pkg.len[f][e] <= NSectors
      /\ pkg.src[f][e] + pkg.len[f][e] <= pkg.size[f]
      /\ pkg.base[f] + pkg.size[f] <= NSectors
  BY ChainFacts
<1>. QED  BY <1>1, <1>2, StoreAssumption DEF Sector

\* The destination of every block stays put under a write of the header sector.
LEMMA HeaderWriteKeepsImages ==
  ASSUME SafePackagesOnly, TypeOK, pkg' = pkg, AllInstalled,
         \A s \in Sector : s \notin {FipBase} \cup NextSector(FipBase) => sec'[s] = sec[s]
  PROVE  AllInstalled'
<1>. SUFFICES ASSUME NEW f \in 1 .. pkg.n, NEW e \in 1 .. pkg.ents[f],
                     NEW k \in 0 .. pkg.len[f][e] - 1
              PROVE sec'[pkg.dst[f][e] + k] = pkg.base[f] + pkg.src[f][e] + k
  BY DEF AllInstalled, Installed
<1>1. sec[pkg.dst[f][e] + k] = pkg.base[f] + pkg.src[f][e] + k
  BY DEF AllInstalled, Installed
<1>2. pkg.dst[f][e] + k \in Sector
  BY BlockFacts
<1>3. pkg.dst[f][e] + k \notin {FipBase} \cup NextSector(FipBase)
  BY LayoutFacts, FipSectors
<1>. QED  BY <1>1, <1>2, <1>3

\* A write of an image block spares the backup area and the blocks before it.
LEMMA ImageWriteKeeps ==
  ASSUME SafePackagesOnly, TypeOK, pkg' = pkg, BackupIntact, HeaderKept,
         NEW f \in 1 .. pkg.n, NEW e \in 1 .. pkg.ents[f],
         NEW k \in 0 .. pkg.len[f][e] - 1, InstalledBefore(f, e, k),
         \A s \in Sector :
           s \notin {pkg.dst[f][e] + k} \cup NextSector(pkg.dst[f][e] + k)
             => sec'[s] = sec[s]
  PROVE  /\ HeaderKept' /\ BackupIntact'
         /\ \A f1 \in 1 .. pkg.n : \A e1 \in 1 .. pkg.ents[f1] :
              \A k1 \in 0 .. pkg.len[f1][e1] - 1 :
                Before(f1, e1, k1, f, e, k) => Installed(f1, e1, k1)'
<1>1. ASSUME NEW s \in FipArea(pkg) PROVE sec'[s] = s
  <2>1. PICK g \in 1 .. pkg.n : s \in pkg.base[g] .. pkg.base[g] + pkg.size[g] - 1
    BY <1>1 DEF FipArea
  <2>2. pkg.base[g] \in Nat /\ pkg.size[g] \in Nat /\ pkg.base[g] + pkg.size[g] <= NSectors
    BY PackageFacts, ChainFacts
  <2>3. s \in Sector
    BY <2>1, <2>2, StoreAssumption DEF Sector
  <2>4. s \notin {pkg.dst[f][e] + k} \cup NextSector(pkg.dst[f][e] + k)
    BY <1>1, LayoutFacts
  <2>. QED  BY <1>1, <2>3, <2>4 DEF BackupIntact
<1>2. FipBase \in FipArea(pkg)
  BY FipSectors
<1>3. HeaderKept' /\ BackupIntact'
  BY <1>1, <1>2 DEF HeaderKept, BackupIntact
<1>4. ASSUME NEW f1 \in 1 .. pkg.n, NEW e1 \in 1 .. pkg.ents[f1],
             NEW k1 \in 0 .. pkg.len[f1][e1] - 1, Before(f1, e1, k1, f, e, k)
      PROVE Installed(f1, e1, k1)'
  <2>1. sec[pkg.dst[f1][e1] + k1] = pkg.base[f1] + pkg.src[f1][e1] + k1
    BY <1>4 DEF InstalledBefore, Installed
  <2>2. pkg.dst[f1][e1] + k1 \in Sector
    BY BlockFacts
  <2>3. pkg.dst[f1][e1] + k1 \notin {pkg.dst[f][e] + k} \cup NextSector(pkg.dst[f][e] + k)
    BY <1>4, LayoutFacts
  <2>. QED  BY <2>1, <2>2, <2>3 DEF Installed
<1>. QED  BY <1>3, <1>4

\* The facts an action that leaves the flash alone hands on.
LEMMA SameFlash ==
  ASSUME SafeInv, sec' = sec, pkg' = pkg
  PROVE  /\ BackupUntilInstalled' /\ BackupIntact'
         /\ HeaderKept' = HeaderKept
         /\ AllInstalled => AllInstalled'
  BY DEF SafeInv, BackupUntilInstalled, BackupIntact, HeaderKept, AllInstalled,
         Installed

\* Loading: the chain is found again at every turn as long as it is there.
LEMMA LoadSafe ==
  ASSUME SafePackagesOnly, SafeInv, Inv', LoadStep
  PROVE  SafeInv'
<1>. TypeOK
  BY DEF SafeInv, Inv
<1>0. pc = "load" /\ sec' = sec /\ op' = op /\ pkg' = pkg
  BY DEF LoadStep, LoadNone, LoadEmpty, LoadFip, LoadFault
<1>1. BackupUntilInstalled' /\ BackupIntact' /\ HeaderKept' = HeaderKept
      /\ (AllInstalled => AllInstalled')
  BY <1>0, SameFlash
<1>2. ASSUME HeaderKept, NEW f \in 1 .. pkg.n, nvm = pkg.base[f]
      PROVE FipAt(nvm, f)
  <2>1. pkg.base[f] \in FipArea(pkg) /\ pkg.base[f] \in Sector
    BY FipSectors
  <2>. QED
    BY <1>2, <2>1, StoreAssumption DEF SafeInv, BackupIntact, FipAt, Sector
<1>3. CASE LoadNone
  <2>1. AllInstalled
    <3>1. CASE HeaderKept
      BY <1>0, <1>2, <1>3, <3>1 DEF LoadNone, SafeInv, LoadInv
    <3>2. CASE ~HeaderKept
      BY <3>2 DEF SafeInv, BackupUntilInstalled
    <3>. QED  BY <3>1, <3>2
  <2>. QED
    BY <1>1, <1>3, <2>1
    DEF LoadNone, SafeInv, LoadInv, WriteInv, BusyInv, EraseInv
<1>4. ASSUME NEW f \in 1 .. pkg.n, LoadEmpty(f) PROVE FALSE
  <2>1. FipSize(f) = {pkg.size[f]} /\ pkg.size[f] > 0
    BY ChainFacts
  <2>. QED  BY <1>4, <2>1 DEF LoadEmpty
<1>5. ASSUME NEW f \in 1 .. pkg.n, LoadFip(f) PROVE SafeInv'
  <2>1. FipSize(f) = {pkg.size[f]} /\ pkg.size[f] > 0 /\ pkg.base[1] = FipBase
    BY ChainFacts
  <2>2. nvm = pkg.base[f] /\ sec[nvm] = nvm
    BY <1>5 DEF LoadFip, FipAt
  <2>3. HeaderKept
    <3>1. pkg.n > 0
      BY PackageFacts
    <3>. QED  BY <1>0, <2>2, <3>1 DEF SafeInv, LoadInv, HeaderKept
  <2>4. InstalledBefore(f, 1, 0)
    <3>1. PICK g \in 1 .. pkg.n : nvm = pkg.base[g] /\ InstalledBefore(g, 1, 0)
      BY <1>0, <2>2, <2>3 DEF SafeInv, LoadInv
    <3>2. g = f
      <4>1. /\ pkg.base[f] \in Nat /\ pkg.base[g] \in Nat
            /\ pkg.size[f] > 0 /\ pkg.size[g] > 0
            /\ pkg.size[f] \in Nat /\ pkg.size[g] \in Nat
            /\ f < g => pkg.base[f] + pkg.size[f] <= pkg.base[g]
            /\ g < f => pkg.base[g] + pkg.size[g] <= pkg.base[f]
        BY PackageFacts, ChainFacts
      <4>2. pkg.base[f] = pkg.base[g] /\ f \in Nat /\ g \in Nat
        BY <2>2, <3>1, PackageFacts
      <4>. QED  BY <4>1, <4>2
    <3>. QED  BY <3>1, <3>2
  <2>5. /\ size' = pkg.size[f] /\ nvm + pkg.size[f] <= NSectors
        /\ ddr' = [j \in Sector |-> IF j < pkg.size[f] THEN sec[nvm + j] ELSE ddr[j]]
        /\ pc' = "entry" /\ cur' = f /\ ent' = 1 /\ blk' = 0 /\ nvm' = nvm
    BY <1>5, <2>1 DEF LoadFip
  <2>6. ASSUME NEW j \in 0 .. pkg.size[f] - 1 PROVE ddr'[j] = pkg.base[f] + j
    <3>1. pkg.base[f] \in Nat /\ pkg.size[f] \in Nat
      BY PackageFacts
    <3>2. j \in Sector /\ j < pkg.size[f]
      BY <2>2, <2>5, <3>1, StoreAssumption DEF Sector
    <3>3. pkg.base[f] + j \in FipArea(pkg)
      BY FipSectors
    <3>4. sec[pkg.base[f] + j] = pkg.base[f] + j
      BY <2>3, <3>3 DEF SafeInv, BackupIntact
    <3>. QED  BY <2>2, <2>5, <3>2, <3>4
  <2>7. InstalledBefore(f, 1, 0)'
    BY <1>0, <2>4 DEF InstalledBefore, Installed
  <2>8. WriteInv'
    BY <1>0, <1>1, <2>2, <2>3, <2>5, <2>6, <2>7 DEF WriteInv
  <2>. QED
    BY <1>1, <2>5, <2>8 DEF SafeInv, LoadInv, BusyInv, EraseInv
<1>6. CASE LoadFault
  BY <1>1, <1>6 DEF LoadFault, SafeInv, LoadInv, WriteInv, BusyInv, EraseInv
<1>. QED  BY <1>3, <1>4, <1>5, <1>6 DEF LoadStep

\* The cursor moves over the ToC without losing count of what is in place.
LEMMA CursorSafe ==
  ASSUME SafePackagesOnly, SafeInv, Inv',
         EntrySeek \/ EntrySkip \/ WriteImageDone \/ BlockWritten
  PROVE  SafeInv'
<1>. TypeOK /\ CursorOK
  BY DEF SafeInv, Inv
<1>0. /\ sec' = sec /\ op' = op /\ pkg' = pkg
      /\ nvm' = nvm /\ size' = size /\ cur' = cur /\ ddr' = ddr
      /\ pc \in {"entry", "write", "writing"} /\ pc' \in {"entry", "write"}
  BY DEF EntrySeek, EntrySkip, WriteImageDone, BlockWritten
<1>1. BackupUntilInstalled' /\ BackupIntact' /\ HeaderKept' = HeaderKept
  BY <1>0, SameFlash
<1>2. /\ cur \in 1 .. pkg.n /\ ent \in 1 .. pkg.ents[cur]
      /\ blk \in Nat
  BY <1>0 DEF EntrySeek, EntrySkip, WriteImageDone, BlockWritten, CursorOK, TypeOK
<1>3. /\ pkg.len[cur][ent] \in Nat /\ pkg.ents[cur] \in Nat /\ cur \in Nat /\ ent \in Nat
      /\ \A f \in 1 .. pkg.n : f \in Nat
      /\ \A f \in 1 .. pkg.n : \A e \in 1 .. pkg.ents[f] : e \in Nat /\ pkg.len[f][e] \in Nat
  BY <1>2, PackageFacts
<1>4. InstalledBefore(cur, ent, IF pc = "entry" THEN 0 ELSE blk)
  BY <1>0 DEF SafeInv, WriteInv
<1>5. InstalledBefore(cur, ent', IF pc' = "entry" THEN 0 ELSE blk')
  <2>. SUFFICES ASSUME NEW f \in 1 .. pkg.n, NEW e \in 1 .. pkg.ents[f],
                       NEW k \in 0 .. pkg.len[f][e] - 1,
                       Before(f, e, k, cur, ent', IF pc' = "entry" THEN 0 ELSE blk')
                PROVE  Installed(f, e, k)
    BY DEF InstalledBefore
  <2>. k \in Nat /\ k < pkg.len[f][e] /\ e \in Nat /\ f \in Nat
    BY <1>3
  <2>1. CASE EntrySeek
    <3>1. Before(f, e, k, cur, ent, 0)
      BY <2>1 DEF EntrySeek, Before
    <3>. QED  BY <1>4, <2>1, <3>1 DEF EntrySeek, InstalledBefore
  <2>2. CASE EntrySkip
    <3>1. Before(f, e, k, cur, ent, 0)
      BY <1>3, <2>2 DEF EntrySkip, Before
    <3>. QED  BY <1>4, <2>2, <3>1 DEF EntrySkip, InstalledBefore
  <2>3. CASE WriteImageDone
    <3>1. Before(f, e, k, cur, ent, blk)
      BY <1>2, <1>3, <2>3 DEF WriteImageDone, Before
    <3>. QED  BY <1>4, <2>3, <3>1 DEF WriteImageDone, InstalledBefore
  <2>4. CASE BlockWritten
    <3>1. CASE Before(f, e, k, cur, ent, blk)
      BY <1>4, <2>4, <3>1 DEF BlockWritten, InstalledBefore
    <3>2. CASE f = cur /\ e = ent /\ k = blk
      <4>1. op.ph = "idle" /\ op.blk = pkg.dst[cur][ent] + blk
        BY <2>4 DEF BlockWritten, SafeInv, Inv, OpOK
      <4>. QED
        BY <2>4, <3>2, <4>1 DEF BlockWritten, SafeInv, BusyInv, Installed
    <3>. QED  BY <1>2, <1>3, <2>4, <3>1, <3>2 DEF BlockWritten, Before
  <2>. QED  BY <2>1, <2>2, <2>3, <2>4
<1>6. InstalledBefore(cur, ent, IF pc = "entry" THEN 0 ELSE blk)'
  BY <1>0, <1>5 DEF InstalledBefore, Installed
<1>7. WriteInv'
  BY <1>0, <1>1, <1>6 DEF SafeInv, WriteInv
<1>. QED
  BY <1>0, <1>1, <1>7 DEF SafeInv, LoadInv, BusyInv, EraseInv

\* After the last entry of a FIP: every block of the chain up to it is in place.
LEMMA NextFipSafe ==
  ASSUME SafePackagesOnly, SafeInv, Inv', NextFip
  PROVE  SafeInv'
<1>. TypeOK /\ CursorOK
  BY DEF SafeInv, Inv
<1>0. /\ sec' = sec /\ op' = op /\ pkg' = pkg /\ cur' = cur
      /\ pc = "entry" /\ nvm' = nvm + size
      /\ pc' = IF pkg.eof[cur] THEN "erase" ELSE "load"
  BY DEF NextFip
<1>1. /\ BackupUntilInstalled' /\ BackupIntact' /\ HeaderKept' = HeaderKept
      /\ AllInstalled => AllInstalled'
  BY <1>0, SameFlash
<1>2. cur \in 1 .. pkg.n /\ pkg.n \in Nat /\ cur \in Nat
  BY <1>0, PackageFacts DEF CursorOK
<1>3. ASSUME NEW f \in 1 .. pkg.n, f <= cur, NEW e \in 1 .. pkg.ents[f],
             NEW k \in 0 .. pkg.len[f][e] - 1
      PROVE  Installed(f, e, k)
  <2>0. pkg.terminated[cur]
    BY <1>2, PackageFacts DEF SafePackagesOnly, WellFormed, TypeOK
  <2>1. ent > pkg.ents[cur] /\ pkg.ents[cur] \in Nat /\ ent \in Nat
    BY <1>2, <2>0, PackageFacts DEF NextFip, TocDone, TypeOK
  <2>2. f \in Nat /\ e \in Nat /\ pkg.ents[f] \in Nat
    BY <1>2, PackageFacts
  <2>3. Before(f, e, k, cur, ent, 0)
    BY <1>2, <1>3, <2>1, <2>2 DEF Before
  <2>. QED  BY <1>0, <2>3 DEF SafeInv, WriteInv, InstalledBefore
<1>4. HeaderKept /\ nvm = pkg.base[cur] /\ size = pkg.size[cur]
  BY <1>0 DEF SafeInv, WriteInv
<1>5. CASE cur = pkg.n
  <2>1. AllInstalled
    BY <1>2, <1>3, <1>5 DEF AllInstalled
  <2>2. ASSUME NEW f \in 1 .. pkg.n PROVE nvm' # pkg.base[f]
    <3>1. /\ pkg.base[f] \in Nat /\ pkg.size[f] \in Nat /\ pkg.size[f] > 0
          /\ pkg.base[cur] \in Nat /\ pkg.size[cur] \in Nat /\ pkg.size[cur] > 0
          /\ f < cur => pkg.base[f] + pkg.size[f] <= pkg.base[cur]
      BY <1>2, PackageFacts, ChainFacts
    <3>. QED  BY <1>0, <1>2, <1>4, <1>5, <3>1
  <2>. QED
    BY <1>0, <1>1, <1>4, <2>1, <2>2 DEF SafeInv, LoadInv, WriteInv, BusyInv, EraseInv
<1>6. CASE cur # pkg.n
  <2>1. cur + 1 \in 1 .. pkg.n /\ cur < pkg.n
    BY <1>2, <1>6
  <2>2. ~pkg.eof[cur] /\ nvm' = pkg.base[cur + 1]
    BY <1>0, <1>2, <1>4, <2>1, ChainFacts
  <2>3. InstalledBefore(cur + 1, 1, 0)
    <3>. SUFFICES ASSUME NEW f \in 1 .. pkg.n, NEW e \in 1 .. pkg.ents[f],
                         NEW k \in 0 .. pkg.len[f][e] - 1,
                         Before(f, e, k, cur + 1, 1, 0)
                  PROVE  Installed(f, e, k)
      BY DEF InstalledBefore
    <3>1. f <= cur
      BY <1>2, PackageFacts DEF Before
    <3>. QED  BY <1>3, <3>1
  <2>4. InstalledBefore(cur + 1, 1, 0)'
    BY <1>0, <2>3 DEF InstalledBefore, Installed
  <2>. QED
    BY <1>0, <1>1, <1>4, <2>1, <2>2, <2>4
    DEF SafeInv, LoadInv, WriteInv, BusyInv, EraseInv
<1>. QED  BY <1>5, <1>6

\* The block under the cursor while the ToC is being worked on.
LEMMA CursorBlock ==
  ASSUME SafePackagesOnly, SafeInv, pc \in {"write", "writing"}
  PROVE  /\ cur \in 1 .. pkg.n /\ ent \in 1 .. pkg.ents[cur] /\ blk \in Nat
         /\ pkg.len[cur][ent] \in Nat
         /\ blk < pkg.len[cur][ent] => blk \in 0 .. pkg.len[cur][ent] - 1
<1>1. cur \in 1 .. pkg.n /\ ent \in 1 .. pkg.ents[cur] /\ blk \in Nat
  BY PackageFacts DEF SafeInv, Inv, CursorOK, TypeOK
<1>2. pkg.len[cur][ent] \in Nat
  BY <1>1, PackageFacts DEF SafeInv, Inv
<1>. QED  BY <1>1, <1>2

\* Every block of a well-formed package lies in the flash: neither the seek nor
\* the range check refuses it, and its copy does not fault.
LEMMA NeverRefused ==
  ASSUME SafePackagesOnly, SafeInv
  PROVE  ~EntrySeekFails /\ ~BlockRefused /\ ~PartialBlockFault
<1>1. ASSUME pc \in {"entry", "write"}, pc = "entry" => ent <= pkg.ents[cur]
      PROVE  /\ pkg.dst[cur][ent] + pkg.len[cur][ent] <= NSectors
             /\ pkg.dst[cur][ent] \in Nat /\ pkg.len[cur][ent] \in Nat
  <2>1. cur \in 1 .. pkg.n /\ ent \in 1 .. pkg.ents[cur]
    BY <1>1, PackageFacts DEF SafeInv, Inv, CursorOK, TypeOK
  <2>. QED  BY <2>1, PackageFacts, ChainFacts DEF SafeInv, Inv
<1>2. ~EntrySeekFails
  BY <1>1, StoreAssumption DEF EntrySeekFails
<1>3. ASSUME PartialBlockFault PROVE FALSE
  <2>1. blk \in Nat
    BY DEF SafeInv, Inv, TypeOK
  <2>. QED  BY <1>1, <1>3, <2>1, StoreAssumption DEF PartialBlockFault
<1>4. ASSUME BlockRefused PROVE FALSE
  <2>1. pc = "writing" /\ op.ret = "ng"
    BY <1>4 DEF BlockRefused
  <2>. QED  BY <2>1 DEF SafeInv, Inv, OpOK, BusyInv
<1>. QED  BY <1>2, <1>3, <1>4

LEMMA WriteBlockSafe ==
  ASSUME SafePackagesOnly, SafeInv, Inv', WriteBlock
  PROVE  SafeInv'
<1>. TypeOK
  BY DEF SafeInv, Inv
<1>1. /\ cur \in 1 .. pkg.n /\ ent \in 1 .. pkg.ents[cur]
      /\ blk \in 0 .. pkg.len[cur][ent] - 1
  BY CursorBlock DEF WriteBlock
<1>2. /\ pkg.dst[cur][ent] + blk \in Sector
      /\ pkg.src[cur][ent] + blk \in 0 .. pkg.size[cur] - 1
      /\ pkg.src[cur][ent] + blk \in Sector
  BY <1>1, BlockFacts
<1>3. DdrAt(pkg.src[cur][ent] + blk) = pkg.base[cur] + pkg.src[cur][ent] + blk
  <2>1. /\ size = pkg.size[cur]
        /\ \A j \in 0 .. size - 1 : ddr[j] = pkg.base[cur] + j
    BY DEF WriteBlock, SafeInv, WriteInv
  <2>2. ddr[pkg.src[cur][ent] + blk] = pkg.base[cur] + (pkg.src[cur][ent] + blk)
    BY <1>2, <2>1
  <2>3. pkg.base[cur] \in Nat /\ pkg.src[cur][ent] \in Nat /\ blk \in Nat
    BY <1>1, PackageFacts DEF TypeOK
  <2>. QED  BY <1>2, <2>2, <2>3 DEF DdrAt
<1>4. /\ op'.data = pkg.base[cur] + pkg.src[cur][ent] + blk
      /\ op'.ph = "eraseTarget"
      /\ sec' = sec /\ pkg' = pkg /\ pc' = "writing"
      /\ nvm' = nvm /\ size' = size /\ cur' = cur /\ ddr' = ddr /\ ent' = ent /\ blk' = blk
  <2>1. pkg.dst[cur][ent] + blk < NSectors
    BY <1>2, StoreAssumption DEF Sector
  <2>. QED
    BY <1>3, <2>1 DEF WriteBlock, StartWrite, cursorVars
<1>5. BackupUntilInstalled' /\ BackupIntact' /\ HeaderKept' = HeaderKept
  BY <1>4, SameFlash
<1>6. InstalledBefore(cur, ent, blk)'
  BY <1>4 DEF WriteBlock, SafeInv, WriteInv, InstalledBefore, Installed
<1>7. WriteInv'
  BY <1>4, <1>5, <1>6 DEF WriteBlock, SafeInv, WriteInv
<1>8. BusyInv'
  BY <1>4 DEF BusyInv
<1>. QED  BY <1>4, <1>5, <1>7, <1>8 DEF SafeInv, LoadInv, EraseInv

\* Erasing the header starts only once everything is in place, and what will
\* be written there is not a FIP any more.
LEMMA EraseSafe ==
  ASSUME SafePackagesOnly, SafeInv, Inv', EraseStep
  PROVE  SafeInv'
<1>. TypeOK
  BY DEF SafeInv, Inv
<1>1. sec' = sec /\ pkg' = pkg
  BY DEF EraseStep, EraseHeader, StartWrite, HeaderErased, UpdateDone
<1>2. /\ BackupUntilInstalled' /\ BackupIntact' /\ HeaderKept' = HeaderKept
      /\ AllInstalled => AllInstalled'
  BY <1>1, SameFlash
<1>3. CASE EraseHeader
  <2>1. op'.data \notin Sector /\ op'.ph = "eraseTarget" /\ pc' = "erasing"
    BY <1>3, FwuAssumption, StoreAssumption DEF EraseHeader, StartWrite, Sector
  <2>. QED
    BY <1>2, <1>3, <2>1 DEF EraseHeader, SafeInv, LoadInv, WriteInv, BusyInv, EraseInv
<1>4. CASE HeaderErased
  BY <1>2, <1>4 DEF HeaderErased, SafeInv, LoadInv, WriteInv, BusyInv, EraseInv
<1>5. CASE UpdateDone
  BY <1>2, <1>5 DEF UpdateDone, SafeInv, LoadInv, WriteInv, BusyInv, EraseInv
<1>. QED  BY <1>3, <1>4, <1>5 DEF EraseStep

\* A step of a block write, or a power loss during one, under the two writers.
LEMMA ImageWriteSafe ==
  ASSUME SafePackagesOnly, SafeInv, FlashStep \/ PowerLoss, pc = "writing"
  PROVE  /\ HeaderKept' /\ BackupIntact'
         /\ FlashStep => InstalledBefore(cur, ent, blk)'
<1>. TypeOK
  BY DEF SafeInv, Inv
<1>1. /\ cur \in 1 .. pkg.n /\ ent \in 1 .. pkg.ents[cur]
      /\ blk \in 0 .. pkg.len[cur][ent] - 1
      /\ op.blk = pkg.dst[cur][ent] + blk
  BY CursorBlock DEF SafeInv, Inv, CursorOK, OpOK
<1>2. HeaderKept /\ BackupIntact /\ InstalledBefore(cur, ent, blk)
  BY DEF SafeInv, WriteInv
<1>3. pkg' = pkg
  BY DEF FlashStep, PowerLoss
<1>4. \A s \in Sector :
        s \notin {pkg.dst[cur][ent] + blk} \cup NextSector(pkg.dst[cur][ent] + blk)
          => sec'[s] = sec[s]
  BY <1>1, FlashFootprint DEF SafeInv
<1>5. /\ HeaderKept' /\ BackupIntact'
      /\ \A f1 \in 1 .. pkg.n : \A e1 \in 1 .. pkg.ents[f1] :
           \A k1 \in 0 .. pkg.len[f1][e1] - 1 :
             Before(f1, e1, k1, cur, ent, blk) => Installed(f1, e1, k1)'
  BY <1>1, <1>2, <1>3, <1>4, ImageWriteKeeps
<1>6. FlashStep => cur' = cur /\ ent' = ent /\ blk' = blk
  BY DEF FlashStep, cursorVars
<1>. QED  BY <1>3, <1>5, <1>6 DEF InstalledBefore

LEMMA HeaderWriteSafe ==
  ASSUME SafePackagesOnly, SafeInv, FlashStep \/ PowerLoss, pc = "erasing"
  PROVE  /\ AllInstalled' /\ BackupIntact'
         /\ FlashStep => ~HeaderKept'
         /\ ~HeaderKept => ~HeaderKept'
<1>. TypeOK
  BY DEF SafeInv, Inv
<1>1. AllInstalled /\ op.blk = FipBase /\ op.data \notin Sector /\ pkg' = pkg
  BY DEF SafeInv, Inv, OpOK, EraseInv, FlashStep, PowerLoss
<1>2. AllInstalled'
  BY <1>1, FlashFootprint, HeaderWriteKeepsImages DEF SafeInv
<1>3. /\ FipBase \in Sector /\ Erased \notin Sector /\ Torn \notin Sector
      /\ sec \in [Sector -> Content]
  BY FwuAssumption DEF TypeOK, StoreTypeOK
<1>4. CASE FlashStep
  <2>1. ~HeaderKept'
    <3>1. CASE EraseTarget
      BY <1>1, <1>3, <3>1 DEF EraseTarget, HeaderKept
    <3>2. CASE EraseNext
      <4>1. ~HeaderKept
        BY <3>2 DEF EraseNext, SafeInv, EraseInv
      <4>2. sec'[FipBase] = Erased \/ sec'[FipBase] = sec[FipBase]
        BY <1>3, <3>2 DEF EraseNext
      <4>. QED  BY <1>1, <1>3, <4>1, <4>2 DEF HeaderKept
    <3>3. CASE Program
      BY <1>1, <1>3, <3>3 DEF Program, HeaderKept
    <3>. QED  BY <1>4, <3>1, <3>2, <3>3 DEF FlashStep, StoreStep
  <2>. QED  BY <1>2, <2>1 DEF BackupIntact
<1>5. CASE PowerLoss
  <2>1. ~FlashStep
    BY <1>5 DEF PowerLoss, FlashStep
  <2>2. ASSUME NEW t \in InFlight,
               sec' = [s \in Sector |-> IF s = t THEN Torn ELSE sec[s]]
        PROVE  ~HeaderKept'
    <3>1. sec'[FipBase] = Torn \/ sec'[FipBase] = sec[FipBase]
      BY <1>3, <2>2
    <3>2. CASE op.ph = "eraseTarget"
      <4>1. t = FipBase
        BY <1>1, <2>2, <3>2 DEF InFlight
      <4>. QED  BY <1>1, <1>3, <2>2, <4>1 DEF HeaderKept
    <3>3. CASE op.ph # "eraseTarget"
      <4>1. ~HeaderKept
        BY <3>3 DEF SafeInv, EraseInv
      <4>. QED  BY <1>1, <1>3, <3>1, <4>1 DEF HeaderKept
    <3>. QED  BY <3>2, <3>3
  <2>3. CASE UNCHANGED sec
    <3>1. HeaderKept' = HeaderKept /\ BackupIntact'
      BY <1>1, <2>3, SameFlash
    <3>. QED  BY <1>2, <2>1, <3>1
  <2>4. CASE ~HeaderKept'
    BY <1>2, <2>1, <2>4 DEF BackupIntact
  <2>. QED
    BY <1>5, <2>2, <2>3, <2>4 DEF PowerLoss, StorePowerLoss
<1>. QED  BY <1>4, <1>5

LEMMA FlashStepSafe ==
  ASSUME SafePackagesOnly, SafeInv, Inv', FlashStep
  PROVE  SafeInv'
<1>. TypeOK
  BY DEF SafeInv, Inv
<1>1. /\ op.ph # "idle" /\ op'.blk = op.blk /\ op'.data = op.data
      /\ pkg' = pkg /\ pc' = pc /\ nvm' = nvm /\ size' = size /\ cur' = cur
      /\ ddr' = ddr /\ ent' = ent /\ blk' = blk
  BY StoreStepType DEF FlashStep, cursorVars, SafeInv, Inv, TypeOK, OpOK
<1>2. CASE pc = "writing"
  <2>1. HeaderKept' /\ BackupIntact' /\ InstalledBefore(cur, ent, blk)'
    BY <1>2, ImageWriteSafe
  <2>2. WriteInv'
    BY <1>1, <1>2, <2>1 DEF SafeInv, WriteInv
  <2>3. op'.ph = "idle" => op'.ret = "ok" /\ sec'[op.blk] = op.data
    <3>1. op.blk \in Sector
      BY <1>1 DEF SafeInv, Inv, OpOK
    <3>2. CASE Program
      BY <3>1, <3>2 DEF Program, TypeOK, StoreTypeOK, OpType
    <3>3. CASE EraseTarget \/ EraseNext
      BY <3>3 DEF EraseTarget, EraseNext, TypeOK, StoreTypeOK, OpType
    <3>. QED  BY <3>2, <3>3 DEF FlashStep, StoreStep
  <2>4. BusyInv'
    BY <1>1, <1>2, <2>3 DEF SafeInv, BusyInv
  <2>. QED
    BY <1>1, <1>2, <2>1, <2>2, <2>4 DEF SafeInv, BackupUntilInstalled, LoadInv, EraseInv
<1>3. CASE pc = "erasing"
  <2>1. AllInstalled' /\ BackupIntact' /\ ~HeaderKept'
    BY <1>3, HeaderWriteSafe
  <2>2. op'.data \notin Sector
    BY <1>1, <1>3 DEF SafeInv, EraseInv
  <2>. QED
    BY <1>1, <1>3, <2>1, <2>2
    DEF SafeInv, BackupUntilInstalled, LoadInv, WriteInv, BusyInv, EraseInv
<1>. QED  BY <1>1, <1>2, <1>3 DEF SafeInv, Inv, OpOK

LEMMA PowerLossSafe ==
  ASSUME SafePackagesOnly, SafeInv, Inv', PowerLoss
  PROVE  SafeInv'
<1>1. pc' = "bl2" /\ pkg' = pkg
  BY DEF PowerLoss
<1>2. BackupUntilInstalled' /\ BackupIntact'
  <2>1. CASE op.ph = "idle"
    <3>1. \A s \in Sector : sec'[s] = sec[s]
      BY <2>1, IdleFootprint DEF SafeInv
    <3>2. sec \in [Sector -> Content] /\ sec' \in [Sector -> Content]
      BY DEF SafeInv, Inv, TypeOK, StoreTypeOK
    <3>3. sec' = sec
      BY <3>1, <3>2
    <3>. QED  BY <1>1, <3>3, SameFlash
  <2>2. CASE pc = "writing"
    BY <2>2, ImageWriteSafe DEF BackupUntilInstalled
  <2>3. CASE pc = "erasing"
    BY <2>3, HeaderWriteSafe DEF BackupUntilInstalled
  <2>. QED  BY <2>1, <2>2, <2>3 DEF SafeInv, Inv, OpOK
<1>. QED  BY <1>1, <1>2 DEF SafeInv, LoadInv, WriteInv, BusyInv, EraseInv

LEMMA BootSafe ==
  ASSUME SafePackagesOnly, SafeInv, Inv', StartUpdate \/ BootFirmware
  PROVE  SafeInv'
<1>. TypeOK
  BY DEF SafeInv, Inv
<1>1. /\ sec' = sec /\ pkg' = pkg /\ pc' \in {"load", "normal"}
      /\ pc' = "load" => nvm' = FipBase
  BY DEF StartUpdate, BootFirmware
<1>2. BackupUntilInstalled' /\ BackupIntact' /\ HeaderKept' = HeaderKept
  BY <1>1, SameFlash
<1>3. CASE HeaderKept
  <2>1. pkg.n \in Nat /\ 1 \in 1 .. pkg.n
    BY <1>3, PackageFacts DEF HeaderKept
  <2>2. pkg.base[1] = FipBase
    BY <2>1, ChainFacts
  <2>3. InstalledBefore(1, 1, 0)'
    <3>. SUFFICES ASSUME NEW f \in 1 .. pkg.n, NEW e \in 1 .. pkg.ents[f],
                         NEW k \in 0 .. pkg.len[f][e] - 1, Before(f, e, k, 1, 1, 0)
                  PROVE  FALSE
      BY <1>1 DEF InstalledBefore
    <3>1. f \in Nat /\ e \in Nat /\ k \in Nat /\ f >= 1 /\ e >= 1
      BY PackageFacts
    <3>. QED  BY <3>1 DEF Before
  <2>. QED
    BY <1>1, <1>2, <1>3, <2>1, <2>2, <2>3
    DEF SafeInv, LoadInv, WriteInv, BusyInv, EraseInv
<1>4. CASE ~HeaderKept
  BY <1>1, <1>2, <1>4 DEF SafeInv, LoadInv, WriteInv, BusyInv, EraseInv
<1>. QED  BY <1>3, <1>4

LEMMA InitSafe == ASSUME SafePackagesOnly, Init PROVE SafeInv
<1>1. Inv
  BY InitInv
<1>2. /\ sec = [s \in Sector |-> s] /\ pc = "bl2"
  BY DEF Init
<1>3. BackupIntact
  <2>. SUFFICES ASSUME NEW s \in FipArea(pkg) PROVE s \in Sector
    BY <1>2 DEF BackupIntact
  <2>1. PICK f \in 1 .. pkg.n : s \in pkg.base[f] .. pkg.base[f] + pkg.size[f] - 1
    BY DEF FipArea
  <2>2. pkg.base[f] \in Nat /\ pkg.size[f] \in Nat /\ pkg.base[f] + pkg.size[f] <= NSectors
    BY <1>1, PackageFacts, ChainFacts DEF Inv
  <2>. QED  BY <2>1, <2>2, StoreAssumption DEF Sector
<1>4. BackupUntilInstalled
  <2>1. CASE pkg.n > 0
    BY <1>2, <2>1, FwuAssumption DEF BackupUntilInstalled, HeaderKept
  <2>2. CASE ~(pkg.n > 0)
    <3>1. 1 .. pkg.n = {}
      BY <1>1, <2>2, PackageFacts DEF Inv
    <3>. QED  BY <3>1 DEF BackupUntilInstalled, AllInstalled
  <2>. QED  BY <2>1, <2>2
<1>. QED
  BY <1>1, <1>2, <1>3, <1>4 DEF SafeInv, LoadInv, WriteInv, BusyInv, EraseInv

LEMMA NextSafe == ASSUME SafePackagesOnly, SafeInv, [Next]_vars PROVE SafeInv'
<1>1. Inv'
  BY NextInv DEF SafeInv
<1>2. CASE LoadStep
  BY <1>1, <1>2, LoadSafe
<1>3. CASE WriteStep
  BY <1>1, <1>3, CursorSafe, NextFipSafe, NeverRefused, WriteBlockSafe DEF WriteStep
<1>4. CASE EraseStep
  BY <1>1, <1>4, EraseSafe
<1>5. CASE FlashStep
  BY <1>1, <1>5, FlashStepSafe
<1>6. CASE PowerLoss
  BY <1>1, <1>6, PowerLossSafe
<1>7. CASE StartUpdate \/ BootFirmware
  BY <1>1, <1>7, BootSafe
<1>8. CASE UNCHANGED vars
  <2>1. BackupUntilInstalled' /\ BackupIntact' /\ HeaderKept' = HeaderKept
        /\ (AllInstalled => AllInstalled')
    BY <1>8, SameFlash DEF vars
  <2>. QED
    BY <1>1, <1>8, <2>1
    DEF vars, cursorVars, SafeInv, LoadInv, WriteInv, BusyInv, EraseInv,
        InstalledBefore, Installed
<1>. QED
  BY <1>2, <1>3, <1>4, <1>5, <1>6, <1>7, <1>8 DEF Next, Progress

-----------------------------------------------------------------------------
\* The inductive invariant of the update on safe layouts.
THEOREM SafeInvariant == ASSUME SafePackagesOnly PROVE Spec => []SafeInv
<1>1. Init => SafeInv
  BY InitSafe
<1>2. SafeInv /\ [Next]_vars => SafeInv'
  BY NextSafe
<1>. QED  BY <1>1, <1>2, PTL DEF Spec

\* On safe layouts the backup header is given up only when every image of the
\* chain is installed, whatever power losses interrupt fwu_update_fip.
THEOREM Recoverable == ASSUME SafePackagesOnly PROVE Spec => []BackupUntilInstalled
<1>1. SafeInv => BackupUntilInstalled
  BY DEF SafeInv
<1>. QED  BY <1>1, SafeInvariant, PTL

\* On safe layouts the chain in the backup area is whole while its header
\* stands, so fwu_load_fip_data finds all of it after a restart.
THEOREM BackupWhole == ASSUME SafePackagesOnly PROVE Spec => []BackupIntact
<1>1. SafeInv => BackupIntact
  BY DEF SafeInv
<1>. QED  BY <1>1, SafeInvariant, PTL

\* On safe layouts the update as coded (fwu_update_fip) is an UpdateContract.
THEOREM UpdateImplementsContract ==
  ASSUME SafePackagesOnly PROVE Spec => ImplementsContract
<1>1. ASSUME Init, SafeInv PROVE Contract!ContractInit
  BY <1>1 DEF SafeInv, BackupUntilInstalled, Contract!ContractInit, Contract!Firmware,
              HeaderKept
<1>2. ASSUME SafeInv, SafeInv', [Next]_vars
      PROVE  \/ Contract!ContractNext
             \/ UNCHANGED <<IF AllInstalled THEN "new" ELSE "mixed", HeaderKept>>
  <2>1. CASE HeaderKept /\ HeaderKept'
    BY <2>1 DEF Contract!ContractNext, Contract!Rewrite, Contract!Firmware
  <2>2. CASE ~HeaderKept /\ ~HeaderKept'
    <3>1. AllInstalled /\ AllInstalled'
      BY <1>2, <2>2 DEF SafeInv, BackupUntilInstalled
    <3>2. HeaderKept = HeaderKept'
      BY <2>2 DEF HeaderKept
    <3>3. (IF AllInstalled THEN "new" ELSE "mixed")' =
            IF AllInstalled THEN "new" ELSE "mixed"
      BY <3>1
    <3>. QED  BY <3>2, <3>3
  <2>3. HeaderKept => AllInstalled \/ HeaderKept'
    <3>1. CASE sec' = sec
      BY <1>2, <3>1, QuietSteps, SameFlash DEF SafeInv
    <3>2. CASE FlashStep \/ PowerLoss
      <4>1. CASE pc = "writing"
        BY <1>2, <3>2, <4>1, ImageWriteSafe
      <4>2. CASE pc = "erasing"
        BY <1>2, <4>2 DEF SafeInv, EraseInv
      <4>3. CASE op.ph = "idle"
        <5>1. ~FlashStep
          BY <4>3 DEF FlashStep, StoreStep, EraseTarget, EraseNext, Program
        <5>2. sec'[FipBase] = sec[FipBase] /\ pkg' = pkg
          BY <1>2, <3>2, <4>3, <5>1, IdleFootprint, FwuAssumption
          DEF SafeInv, PowerLoss
        <5>. QED  BY <5>2 DEF HeaderKept
      <4>. QED  BY <1>2, <4>1, <4>2, <4>3 DEF SafeInv, Inv, OpOK
    <3>. QED  BY <1>2, <3>1, <3>2, QuietSteps DEF SafeInv
  <2>4. ~HeaderKept => ~HeaderKept'
    <3>1. CASE sec' = sec
      BY <1>2, <3>1, QuietSteps, SameFlash DEF SafeInv
    <3>2. CASE FlashStep \/ PowerLoss
      <4>1. CASE pc = "writing"
        BY <1>2, <4>1 DEF SafeInv, WriteInv
      <4>2. CASE pc = "erasing"
        BY <1>2, <3>2, <4>2, HeaderWriteSafe
      <4>3. CASE op.ph = "idle"
        <5>1. ~FlashStep
          BY <4>3 DEF FlashStep, StoreStep, EraseTarget, EraseNext, Program
        <5>2. sec'[FipBase] = sec[FipBase] /\ pkg' = pkg
          BY <1>2, <3>2, <4>3, <5>1, IdleFootprint, FwuAssumption
          DEF SafeInv, PowerLoss
        <5>. QED  BY <5>2 DEF HeaderKept
      <4>. QED  BY <1>2, <4>1, <4>2, <4>3 DEF SafeInv, Inv, OpOK
    <3>. QED  BY <1>2, <3>1, <3>2, QuietSteps DEF SafeInv
  <2>5. CASE HeaderKept /\ ~HeaderKept'
    BY <1>2, <2>3, <2>5
    DEF SafeInv, BackupUntilInstalled, Contract!ContractNext, Contract!GiveUpBackup,
        HeaderKept
  <2>. QED  BY <2>1, <2>2, <2>4, <2>5
<1>. QED
  BY <1>1, <1>2, SafeInvariant, PTL DEF Spec, ImplementsContract, Contract!ContractSpec
=============================================================================
