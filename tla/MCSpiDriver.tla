----------------------------- MODULE MCSpiDriver -----------------------------
(* Instances of SpiDriver for TLC: three sectors of two pages of two bytes.  *)
EXTENDS SpiDriver

MCByte == {0, 255, 256, 257} \cup 10 .. 29

\* A call that writes the bytes first, first + 1, ... at addr.
CallOf(addr, len, first) ==
  [addr |-> addr, len |-> len, data |-> [i \in 0 .. len - 1 |-> first + i]]

\* What the program makes: one block, at a block; and one past the end.
BlockCalls == {CallOf(b * 4, 4, 10) : b \in 0 .. 3} \cup {CallOf(4, 4, 20)}

\* Less than a block, from a page on, as the interface in spi.h allows: ending
\* inside a page, inside the sector, at its end, and past the end of the part.
\* A block half written may hold the very bytes of a part call that is complete.
PartCalls == {CallOf(0, 3, 10), CallOf(4, 2, 20), CallOf(6, 1, 12), CallOf(10, 2, 12), CallOf(12, 1, 10)}

\* To the end of the addresses, where the end wraps around to 0, and not quite.
TopCalls == {CallOf(16, 4, 10), CallOf(18, 2, 10), CallOf(18, 1, 10)}

WriteCalls == BlockCalls \cup PartCalls \cup TopCalls

MCPastEnd == {0, 3}
=============================================================================
