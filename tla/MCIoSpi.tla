------------------------------- MODULE MCIoSpi -------------------------------
(* Instances of IoSpi for TLC: three blocks of two cells, mapped at 12; 32   *)
(* cells can be addressed by the driver, and 64 by a cursor.                 *)
EXTENDS IoSpi

MCData(n, i) == 10 * n + i

MCCell == 0 .. 5 \cup 10 .. 29 \cup {255}

MCContent == [0 .. 1 -> MCCell]

MCErased == [c \in 0 .. 1 |-> 255]

MCPastEnd == {0, 3}

\* Every cell holds its own address at first.
MCFlash0 == [s \in Sector |-> [c \in 0 .. 1 |-> 2 * s + c]]

\* From the end: to 0 and 5, to the last blocks of 32 bits, and to what the driver takes
\* for 1, 2 and the last block when the upper bits are gone.
SignedOffsets == {-49, -48, -20, -21, -18, -13, -7, -1, 0, 1, 4}

\* Of what lies behind the flash, some is mapped.
MCReadable == {4, 7}
MCLengths == 1 .. 5
=============================================================================
