----------------------------- MODULE SectorStore -----------------------------
(***************************************************************************)
(* What a caller of rzg_spi_write_buff (drivers/renesas/spi/spi.c) sees    *)
(* of the serial flash when it writes one block: the block is erased, the  *)
(* sector after it is erased as well (the end address of the erase loop is *)
(* rounded up past the block), and the block is programmed.  The flash is  *)
(* a function from sectors to contents.  A call that ends inside its block *)
(* spares the sector after it; the program never makes one, so only        *)
(* StoreSpec has those.  The register-level driver in                      *)
(* module SpiDriver implements this module; modules FwuUpdate and IoSpi    *)
(* are built on it.                                                        *)
(***************************************************************************)
EXTENDS Integers

CONSTANTS
  NSectors,   \* sectors of the part: QSPI_END_ADDR / QSPI_BLOCK_SIZE
  Content,    \* what a sector can hold
  Erased,     \* every byte 0xFF
  Torn,       \* an erase or a program was cut short: no usable data
  PastEnd     \* what an erase addressed one past the end may hit: a sector
              \* (the part ignores the high address bits) or NSectors: nothing

Sector == 0 .. NSectors - 1

ASSUME StoreAssumption ==
  /\ NSectors \in Nat \ {0}
  /\ Erased \in Content /\ Torn \in Content
  /\ PastEnd \subseteq 0 .. NSectors /\ PastEnd # {}

VARIABLES
  sec,        \* contents of every sector
  op          \* the call in progress, or the result of the last one

storeVars == <<sec, op>>

\* The phases of a call that writes one block to its end.
Phase == {"idle", "eraseTarget", "eraseNext", "program"}

OpType == [ph : Phase, blk : Nat, data : Content, ret : {"none", "ok", "ng"}]

StoreTypeOK ==
  /\ sec \in [Sector -> Content]
  /\ op \in OpType

NoOp == [ph |-> "idle", blk |-> 0, data |-> Erased, ret |-> "none"]

StoreInit ==
  /\ sec \in [Sector -> Content]
  /\ op = NoOp

\* The sectors the second erase of a write to block b can hit.
NextSector(b) == IF b + 1 < NSectors THEN {b + 1} ELSE PastEnd

-----------------------------------------------------------------------------
\* The range check refuses a block past the end before anything is erased.
StartWrite(b, d) ==
  /\ op.ph = "idle"
  /\ op' = [ph   |-> IF b < NSectors THEN "eraseTarget" ELSE "idle",
            blk  |-> b,
            data |-> d,
            ret  |-> IF b < NSectors THEN "none" ELSE "ng"]
  /\ UNCHANGED sec

\* A block at the very end of the 32-bit addresses.  Its end address wraps around to 0:
\* the range check lets it pass, the erase loop and the page loop are over before they
\* begin, and the call succeeds.  In op NSectors stands for it.
StartAtTop(d) ==
  /\ op.ph = "idle"
  /\ op' = [ph |-> "idle", blk |-> NSectors, data |-> d, ret |-> "ok"]
  /\ UNCHANGED sec

\* A call that ends inside the block: the contents d end with erased bytes.
StartPart(b, d) ==
  /\ op.ph = "idle"
  /\ op' = [ph   |-> IF b < NSectors THEN "erasePart" ELSE "idle",
            blk  |-> b,
            data |-> d,
            ret  |-> IF b < NSectors THEN "none" ELSE "ng"]
  /\ UNCHANGED sec

ErasePart ==
  /\ op.ph = "erasePart"
  /\ sec' = [sec EXCEPT ![op.blk] = Erased]
  /\ op' = [op EXCEPT !.ph = "program"]

EraseTarget ==
  /\ op.ph = "eraseTarget"
  /\ sec' = [sec EXCEPT ![op.blk] = Erased]
  /\ op' = [op EXCEPT !.ph = "eraseNext"]

EraseNext ==
  /\ op.ph = "eraseNext"
  /\ \E t \in NextSector(op.blk) :
       sec' = [s \in Sector |-> IF s = t THEN Erased ELSE sec[s]]
  /\ op' = [op EXCEPT !.ph = "program"]

Program ==
  /\ op.ph = "program"
  /\ sec' = [sec EXCEPT ![op.blk] = op.data]
  /\ op' = [op EXCEPT !.ph = "idle", !.ret = "ok"]

\* The steps of a call that writes one block and has begun.
StoreStep == EraseTarget \/ EraseNext \/ Program

\* The sectors an erase or a program is working on.
InFlight ==
  CASE op.ph = "idle"      -> {}
    [] op.ph = "eraseNext" -> NextSector(op.blk)
    [] OTHER               -> {op.blk}

\* Power is lost: the sector being erased or programmed may be left torn.
StorePowerLoss ==
  /\ \/ UNCHANGED sec
     \/ \E t \in InFlight :
          sec' = [s \in Sector |-> IF s = t THEN Torn ELSE sec[s]]
  /\ op' = NoOp

StoreNext ==
  \/ \E b \in 0 .. NSectors, d \in Content : StartWrite(b, d) \/ StartPart(b, d)
  \/ \E d \in Content : StartAtTop(d)
  \/ StoreStep \/ ErasePart
  \/ StorePowerLoss

StoreSpec == StoreInit /\ [][StoreNext]_storeVars
=============================================================================
