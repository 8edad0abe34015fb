----------------------------- MODULE MCXlatDynamic -----------------------------
(* The instance of XlatDynamic for TLC: sixteen bytes of address space, two  *)
(* blocks of level 1, pages of 2 bytes, as in MCXlatTables.                  *)
EXTENDS XlatDynamic

Attribute(mem, rw, xn) ==
  [mem |-> mem, rw |-> rw, xn |-> xn, ns |-> TRUE, user |-> FALSE]

DynAttr == [mem : {"device", "memory"}, rw : BOOLEAN, xn : BOOLEAN, ns : {TRUE}, user : BOOLEAN]

Reg(pa, va, size, attr) ==
  [pa |-> pa, va |-> va, size |-> size, attr |-> attr, gran |-> 8, alloc |-> FALSE]

Code == Attribute("memory", FALSE, FALSE)
Data == Attribute("memory", TRUE, TRUE)
Device == Attribute("device", TRUE, TRUE)

\* A region that may be static or dynamic and one inside it that needs pages.
DynCalls == <<{Reg(0, 0, 8, Code), Reg(14, 14, 2, Code)}, {Reg(2, 2, 2, Data), Reg(12, 12, 4, Data)}>>

\* Regions after the initialisation: pages beside others in one table, one that
\* spans both blocks of level 1, one that the library places.
DynRequests ==
  {Reg(8, 8, 2, Device), Reg(10, 10, 4, Data), Reg(6, 6, 4, Device), Reg(2, 2, 12, Code),
   [Reg(10, 0, 2, Data) EXCEPT !.alloc = TRUE]}

NewAttributes == {[rw |-> FALSE, xn |-> FALSE, user |-> FALSE], [rw |-> TRUE, xn |-> TRUE, user |-> FALSE]}
=============================================================================
