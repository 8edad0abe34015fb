----------------------------- MODULE MCXlatTables -----------------------------
(* The instance of XlatTables for TLC: a small address space of three        *)
(* levels.  That of the platform is in RzgMemoryMap.                         *)
EXTENDS RzgMemoryMap, TableListing

Reg(pa, va, size, attr, gran) ==
  [pa |-> pa, va |-> va, size |-> size, attr |-> attr, gran |-> gran, alloc |-> FALSE]

\* 64 bytes of address space: two blocks of level 1, each of four blocks of
\* level 2, each of four pages of 2 bytes.

\* Nested regions differ in size, and so in their attributes.
AttrOf(size) ==
  CASE size \in {6, 64} -> MT_DEVICE_RW
    [] size = 8 -> MT_CODE
    [] OTHER -> [MT_RW_DATA EXCEPT !.user = TRUE]

TinyAttr == MapAttr \cup [mem : {"memory"}, rw : {TRUE}, xn : {TRUE}, ns : {TRUE}, user : {TRUE}]

Flat == {Reg(a, a, n, AttrOf(n), 32) : a \in {0, 4, 8, 32, 56}, n \in {2, 6, 8, 32, 64}}

\* Physical addresses that are not aligned as the virtual ones are, and
\* granularities that forbid blocks.
Shifted == {Reg(a + 36, a, n, AttrOf(n), 32) : a \in {0, 16}, n \in {8, 32}}
Fine == {Reg(a, a, n, AttrOf(n), g) : a \in {0, 32}, n \in {8, 32}, g \in {2, 8}}

\* Sizes of the physical address space: a region ends below 32, below 64 or above.
Sizes == <<32, 64, 128>>

\* Arguments that the check refuses: not aligned, a granularity there is none of,
\* past the end of either address space or of the word; and no region at all.
Refused == {Reg(1, 1, 2, MT_CODE, 8), Reg(0, 0, 3, MT_CODE, 8), Reg(0, 0, 2, MT_CODE, 3),
            Reg(64, 64, 2, MT_CODE, 8), Reg(106, 0, 8, MT_CODE, 8), Reg(126, 126, 4, MT_CODE, 8),
            Reg(0, 0, 0, MT_CODE, 8)}

Alloc == {[Reg(p, 0, n, MT_RO_DATA, 32) EXCEPT !.alloc = TRUE] : p \in {6, 32}, n \in {2, 32}}

Mixed == Flat \cup Shifted \cup Fine

\* The fourth region finds the list full when the first three are in it.
SmallCalls ==
  <<Flat \cup Refused, Flat, Mixed \cup Alloc,
    {Reg(0, 0, 64, MT_DEVICE_RW, 32), Reg(14, 14, 2, MT_MEMORY_RW, 8)}>>
=============================================================================
