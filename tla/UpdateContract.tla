--------------------------- MODULE UpdateContract ---------------------------
(***************************************************************************)
(* What a firmware update owes the board, with all mechanism left out: as  *)
(* long as the update is kept in the backup area the installed firmware    *)
(* may be anything; the update is given up only when the new firmware is   *)
(* complete, and from then on the new firmware stays.  A board that loses  *)
(* power at any moment is therefore never left with neither.               *)
(***************************************************************************)
VARIABLES
  fw,      \* "new": every image is the new one; "mixed": some is not
  backup   \* the update is still in the backup area

Firmware == {"mixed", "new"}

ContractInit ==
  /\ fw \in Firmware
  /\ backup \in BOOLEAN
  /\ backup \/ fw = "new"

\* Images are being written, or written again after a restart.
Rewrite ==
  /\ backup
  /\ fw' \in Firmware
  /\ UNCHANGED backup

GiveUpBackup ==
  /\ backup /\ fw = "new"
  /\ backup' = FALSE
  /\ UNCHANGED fw

ContractNext == Rewrite \/ GiveUpBackup

ContractSpec == ContractInit /\ [][ContractNext]_<<fw, backup>>
=============================================================================
