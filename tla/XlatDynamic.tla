------------------------------ MODULE XlatDynamic ------------------------------
(***************************************************************************)
(* The translation tables of lib/xlat_tables_v2 in a build with            *)
(* PLAT_XLAT_TABLES_DYNAMIC: regions are added and removed, and attributes *)
(* changed (xlat_tables_utils.c), while the MMU is on.  Tables come from   *)
(* the pool with a count of the regions mapped in each, and go back to it  *)
(* when the count is 0.  The list of regions and the walk that maps one    *)
(* are those of XlatTables; next_table is not used.                        *)
(*                                                                         *)
(* A call that is refused changes nothing.                                 *)
(***************************************************************************)
EXTENDS XlatTables

CONSTANTS
  Requests,     \* the regions that calls after the initialisation may pass
  NewAttr,      \* the attributes that they may ask for
  MaxOps        \* bound on these calls

ASSUME DynamicAssumption ==
  /\ Requests \subseteq RegionArg
  /\ NewAttr \subseteq [rw : BOOLEAN, xn : BOOLEAN, user : BOOLEAN]
  /\ MaxOps \in Nat

VARIABLES
  dynamic,    \* the regions of the list that have MT_DYNAMIC
  count,      \* tables_mapped_regions
  op,         \* the call in progress
  ops,        \* calls made after the initialisation
  held,       \* leaf descriptors that a TLB may hold
  told,       \* those of them it was told to forget, without a sync since
  failed,     \* history: a dynamic region could not be mapped
  altered     \* history: the pages whose attributes were changed

dynVars == <<dynamic, count, op, ops, held, told, failed, altered>>
dynAllVars == <<vars, dynVars>>

Subtables == 1 .. TablesNum
Idle == [name |-> "none"]

InitDynamic ==
  /\ Init
  /\ dynamic = {} /\ count = [t \in Subtables |-> 0]
  /\ op = Idle /\ ops = 0
  /\ held = {} /\ told = {} /\ failed = FALSE /\ altered = {}

\* xlat_arch_tlbi_va: the TLBs are told to forget what translates this address.
Told(va) == told \cup {e \in held : e.va <= va /\ va < e.va + BlockSize(e.level)}

\* xlat_arch_tlbi_va_sync: they have.  They may have before; the model waits.
Sync(forget) == held' = held \ forget /\ told' = {}

-----------------------------------------------------------------------------
(* The list of regions.                                                      *)

\* The check of this build: a dynamic region does not overlap any other.
Allowed(r, dyn) ==
  /\ r.size # 0 /\ Accepts(r)
  /\ \A i \in DOMAIN mmap :
       dyn \/ mmap[i] \in dynamic => ~Inside(r, mmap[i]) /\ ~Inside(mmap[i], r)

\* mmap_add_region and mmap_add_dynamic_region before init_xlat_tables
AddEarly ==
  /\ pc = "add" /\ calls < Len(Calls)
  /\ \E arg \in Calls[calls + 1], dyn \in BOOLEAN :
       LET r == Placed(arg)
       IN /\ Allowed(r, dyn) /\ Insert(r) /\ Raise(r)
          /\ dynamic' = IF dyn THEN dynamic \cup {r} ELSE dynamic
  /\ calls' = calls + 1
  /\ UNCHANGED <<tables, next_table, todo, stack, ret, pc, count, op, ops, held, told,
                 failed, altered>>

\* init_xlat_tables_ctx
StartInitDynamic ==
  /\ pc = "add"
  /\ tables' = [t \in TableIds |-> [i \in Indexes(t) |-> Invalid]]
  /\ count' = [t \in Subtables |-> 0]
  /\ Begin(mmap)
  /\ op' = IF mmap = <<>> THEN Idle ELSE [name |-> "init"]
  /\ UNCHANGED <<mmapVars, next_table, ret, dynamic, ops, held, told, failed, altered>>

\* mmap_add_dynamic_region_ctx, and with an address that the library chooses
AddDynamic ==
  /\ pc = "done" /\ ops < MaxOps
  /\ \E arg \in Requests :
       LET r == Placed(arg)
       IN /\ ~(arg.alloc /\ r.va < max_va)
          /\ Allowed(r, TRUE) /\ Insert(r)
          /\ dynamic' = dynamic \cup {r}
          /\ Begin(<<r>>)
  /\ op' = [name |-> "add"] /\ ops' = ops + 1
  /\ UNCHANGED <<calls, max_va, max_pa, tables, next_table, ret, count, held, told,
                 failed, altered>>

\* The list without r: those behind it move down by one place.
Without(r) == RemoveAt(mmap, CHOOSE i \in DOMAIN mmap : mmap[i] = r)

\* Mutant: the maxima stay as they were.
DelistKeepsMax(r) ==
  /\ mmap' = Without(r)
  /\ dynamic' = dynamic \ {r}
  /\ UNCHANGED <<max_va, max_pa>>

\* Take r off the list; if it was at the top, look for the new top.
Delist(r) ==
  LET rest == Range(Without(r))
  IN /\ mmap' = Without(r)
     /\ dynamic' = dynamic \ {r}
     /\ max_va' = IF EndVa(r) = max_va THEN Max({0} \cup {EndVa(q) : q \in rest}) ELSE max_va
     /\ max_pa' = IF EndPa(r) = max_pa THEN Max({0} \cup {EndPa(q) : q \in rest}) ELSE max_pa

\* mmap_remove_dynamic_region_ctx before init_xlat_tables
RemoveEarly ==
  /\ pc = "add"
  /\ \E r \in dynamic : Delist(r)
  /\ UNCHANGED <<calls, tables, next_table, todo, stack, ret, pc, count, op, ops, held, told,
                 failed, altered>>

\* mmap_remove_dynamic_region_ctx
RemoveDynamic ==
  /\ pc = "done" /\ ops < MaxOps
  /\ \E r \in dynamic :
       /\ todo' = <<r>> /\ stack' = <<Frame(0, 0, BaseLevel, r)>>
  /\ pc' = "unmap"
  /\ op' = [name |-> "remove"] /\ ops' = ops + 1
  /\ UNCHANGED <<mmapVars, tables, next_table, ret, dynamic, count, held, told, failed, altered>>

-----------------------------------------------------------------------------
(* Mapping: xlat_tables_map_region with the counts.                          *)

\* WriteEntries, which the MMU sees at once
MapWrite ==
  /\ WriteEntries
  /\ LET new == {[level |-> Level, va |-> Top.va + (i - Top.idx) * BlockSize(Level),
                  desc |-> tables'[Top.tab][i]] : i \in FreeEntries}
     IN held' = held \cup new /\ told' = told \ new
  /\ UNCHANGED <<dynamic, count, op, ops, failed, altered>>

\* xlat_table_get_empty
FreeTables == {t \in Subtables : count[t] = 0}

\* Mutant: a table counts as one region for whoever made it, and no more.
CountedOnce(t) == [count EXCEPT ![t] = 1]

\* One more region in table t
Counted(t) == [count EXCEPT ![t] = @ + 1]

MapCreate ==
  /\ NeedsTable /\ FreeTables # {}
  /\ LET t == Min(FreeTables)
     IN /\ tables' = [tables EXCEPT ![Top.tab][Top.idx] = TableDesc(t)]
        /\ Enter(t)
        /\ count' = Counted(t)
  /\ UNCHANGED <<mmapVars, next_table, todo, ret, pc, dynamic, op, ops, held, told,
                 failed, altered>>

\* No table is left: the address of the entry is returned.
MapStops ==
  /\ NeedsTable /\ FreeTables = {}
  /\ ret' = Top.va /\ stack' = Front(stack) /\ pc' = "return"
  /\ UNCHANGED <<mmapVars, tables, next_table, todo, dynVars>>

MapRecurse ==
  /\ RecurseIntoTable
  /\ count' = Counted(Entry.to)
  /\ UNCHANGED <<dynamic, op, ops, held, told, failed, altered>>

MapGoesOn ==
  /\ KeepEntry \/ ReturnWhole \/ ReturnEarly
  /\ UNCHANGED dynVars

InitNext ==
  /\ op.name = "init" /\ NextRegion
  /\ op' = IF Len(todo) = 1 THEN Idle ELSE op
  /\ UNCHANGED <<dynamic, count, ops, held, told, failed, altered>>

\* init_xlat_tables_ctx panics.
InitFails ==
  /\ op.name = "init" /\ pc = "return" /\ stack = <<>> /\ ret # EndVa(Region)
  /\ pc' = "panic"
  /\ UNCHANGED <<mmapVars, tables, next_table, todo, stack, ret, dynVars>>

WalkOver == op.name = "add" /\ pc = "return" /\ stack = <<>>

AddDone ==
  /\ WalkOver /\ ret = EndVa(Region)
  /\ Raise(Region)
  /\ todo' = <<>> /\ pc' = "done" /\ op' = Idle
  /\ UNCHANGED <<calls, mmap, tables, next_table, stack, ret, dynamic, count, ops, held, told,
                 failed, altered>>

\* Mutant: what has been mapped stays.
UndoNothing == todo' = <<>> /\ pc' = "done" /\ op' = Idle /\ UNCHANGED stack

\* Undo what has been mapped of the region, if anything has.
Undo ==
  IF Region.va >= ret
  THEN todo' = <<>> /\ pc' = "done" /\ op' = Idle /\ UNCHANGED stack
  ELSE LET part == [Region EXCEPT !.size = ret - Region.va]
       IN /\ todo' = <<part>> /\ stack' = <<Frame(0, 0, BaseLevel, part)>>
          /\ pc' = "unmap" /\ op' = [name |-> "undo"]

AddFails ==
  /\ WalkOver /\ ret # EndVa(Region)
  /\ mmap' = Without(Region) /\ dynamic' = dynamic \ {Region}
  /\ failed' = TRUE
  /\ Undo
  /\ UNCHANGED <<calls, max_va, max_pa, tables, next_table, ret, count, ops, held, told,
                 altered>>

-----------------------------------------------------------------------------
(* Unmapping: xlat_tables_unmap_region.                                      *)

\* The next entry, or out of the table, which one region less is then mapped in.
Onward ==
  LET next == [Top EXCEPT !.idx = @ + 1, !.va = @ + BlockSize(Level)]
  IN IF next.idx \in Indexes(Top.tab) /\ EndVa(Region) > next.va
     THEN stack' = Append(Front(stack), next) /\ pc' = "unmap" /\ UNCHANGED count
     ELSE /\ stack' = Front(stack) /\ pc' = "unmapped"
          /\ count' = IF Level > BaseLevel THEN [count EXCEPT ![Top.tab] = @ - 1] ELSE count

Erased == [tables EXCEPT ![Top.tab][Top.idx] = Invalid]

\* Mutant: the TLB is not told.
UnmapEntrySilently ==
  /\ pc = "unmap" /\ Covered /\ (Level = 3 \/ Entry.type # "table")
  /\ tables' = Erased
  /\ Onward
  /\ UNCHANGED <<mmapVars, next_table, todo, ret, dynamic, op, ops, held, told, failed, altered>>

\* ACTION_WRITE_BLOCK_ENTRY
UnmapEntry ==
  /\ pc = "unmap" /\ Covered /\ (Level = 3 \/ Entry.type # "table")
  /\ tables' = Erased /\ told' = Told(Top.va)
  /\ Onward
  /\ UNCHANGED <<mmapVars, next_table, todo, ret, dynamic, op, ops, held, failed, altered>>

\* ACTION_RECURSE_INTO_TABLE
UnmapRecurse ==
  /\ pc = "unmap" /\ Level < 3 /\ Entry.type = "table"
  /\ Enter(Entry.to)
  /\ UNCHANGED <<mmapVars, tables, next_table, todo, ret, pc, dynVars>>

\* Mutant: the subtable is taken out whatever is left in it.
UnmapReturnErases ==
  /\ pc = "unmapped" /\ stack # <<>>
  /\ tables' = Erased /\ told' = Told(Top.va)
  /\ Onward
  /\ UNCHANGED <<mmapVars, next_table, todo, ret, dynamic, op, ops, held, failed, altered>>

\* Back from a subtable, which is taken out if no region is left in it.
UnmapReturn ==
  /\ pc = "unmapped" /\ stack # <<>>
  /\ IF count[Entry.to] = 0
     THEN tables' = Erased /\ told' = Told(Top.va)
     ELSE UNCHANGED <<tables, told>>
  /\ Onward
  /\ UNCHANGED <<mmapVars, next_table, todo, ret, dynamic, op, ops, held, failed, altered>>

UnmapDone ==
  /\ pc = "unmapped" /\ stack = <<>>
  /\ IF op.name = "remove"
     THEN Sync(told) /\ Delist(Region)
     ELSE UNCHANGED <<mmap, max_va, max_pa, held, told, dynamic>>
  /\ altered' = {a \in altered : a.va < Region.va \/ a.va > EndVa(Region)}
  /\ todo' = <<>> /\ pc' = "done" /\ op' = Idle
  /\ UNCHANGED <<calls, tables, next_table, stack, ret, count, ops, failed>>

-----------------------------------------------------------------------------
(* Changing attributes: xlat_change_mem_attributes_ctx.                      *)

\* find_xlat_table_entry: the table, index and level of the leaf for va.
EntriesAt(va) ==
  {[tab |-> TableAt(va)[l], level |-> l,
    idx |-> (va \div BlockSize(l)) % (IF l = BaseLevel THEN BaseEntries ELSE Entries)] :
   l \in LeafLevels(va)}

\* The checks on every page: a page descriptor, and no executable device memory.
MayChange(va, attr) ==
  \E e \in EntriesAt(va) :
    /\ e.level = 3
    /\ tables[e.tab][e.idx].mem = "device" => attr.xn

\* Callers change pages of regions, which end at VaMax: find_xlat_table_entry masks the
\* index, and so takes an address that is larger by the span of a full base table for this
\* one; those are outside.
StartChange ==
  /\ pc = "done" /\ ops < MaxOps
  /\ \E attr \in NewAttr, va \in 0 .. VaMax, pages \in 1 .. 2 :
       /\ va % PageSize = 0
       /\ attr.rw => attr.xn
       /\ \A k \in 0 .. pages - 1 : va + k * PageSize <= VaMax
       /\ \A k \in 0 .. pages - 1 : MayChange(va + k * PageSize, attr)
       /\ op' = [name |-> "change", va |-> va, left |-> pages, attr |-> attr, desc |-> Invalid]
  /\ ops' = ops + 1 /\ pc' = "break"
  /\ UNCHANGED <<mmapVars, tables, next_table, todo, stack, ret, dynamic, count, held, told,
                 failed, altered>>

\* The descriptor that xlat_get_mem_attributes_internal has read, with the
\* attributes that may be changed put in.
Rebuilt(old, attr) ==
  XlatDesc([mem |-> old.mem, ns |-> old.ns, rw |-> attr.rw, xn |-> attr.xn, user |-> attr.user],
           old.pa)

\* Break before make: the entry is made invalid and the TLBs forget it,
BreakPage ==
  /\ pc = "break"
  /\ \E e \in EntriesAt(op.va) :
       /\ op' = [op EXCEPT !.desc = Rebuilt(tables[e.tab][e.idx], op.attr), !.left = @ - 1]
       /\ tables' = [tables EXCEPT ![e.tab][e.idx] = Invalid]
  /\ Sync(Told(op.va))
  /\ pc' = "make"
  /\ UNCHANGED <<mmapVars, next_table, todo, stack, ret, dynamic, count, ops, failed, altered>>

\* and then the new one is written.
MakePage ==
  /\ pc = "make"
  /\ LET t == TableAt(op.va)[3]
     IN tables' = [tables EXCEPT ![t][(op.va \div PageSize) % Entries] = op.desc]
  /\ held' = held \cup {[level |-> 3, va |-> op.va, desc |-> op.desc]}
  /\ altered' = {a \in altered : a.va # op.va} \cup {[va |-> op.va, attr |-> op.attr]}
  /\ IF op.left = 0
     THEN op' = Idle /\ pc' = "done"
     ELSE op' = [op EXCEPT !.va = @ + PageSize] /\ pc' = "break"
  /\ UNCHANGED <<mmapVars, next_table, todo, stack, ret, dynamic, count, ops, told, failed>>

-----------------------------------------------------------------------------
Mapping ==
  \/ MapWrite \/ MapCreate \/ MapStops \/ MapRecurse \/ MapGoesOn
  \/ InitNext \/ InitFails \/ AddDone \/ AddFails

Unmapping == UnmapEntry \/ UnmapRecurse \/ UnmapReturn \/ UnmapDone

Changing == BreakPage \/ MakePage

CallStarts ==
  \/ AddEarly \/ RemoveEarly \/ StartInitDynamic
  \/ AddDynamic \/ RemoveDynamic \/ StartChange

NextDynamic == CallStarts \/ Mapping \/ Unmapping \/ Changing

SpecDynamic == InitDynamic /\ [][NextDynamic]_dynAllVars

-----------------------------------------------------------------------------
(* Properties.                                                               *)

InCall == pc \in {"map", "return", "unmap", "unmapped", "break", "make"}

\* The list is still in order between calls, with its maxima those of its ends,
\* after any sequence of additions and removals.
ListExact ==
  pc = "done" =>
    /\ ListConsistent
    /\ max_va = Max({0} \cup {EndVa(q) : q \in Range(mmap)})
    /\ max_pa = Max({0} \cup {EndPa(q) : q \in Range(mmap)})

\* The regions of the list that lie in the part of the address space that
\* table t translates.
RegionsIn(t) ==
  {i \in DOMAIN mmap : \E va \in mmap[i].va .. EndVa(mmap[i]) :
     \E l \in Levels \ {BaseLevel} : TableAt(va)[l] = t}

\* The count of each table is the number of regions mapped in it, and never less
\* even when a region could not be mapped, whose undo may leave a table; one that counts as
\* free is empty and nothing points to it, since xlat_table_get_empty does not clear it.
TableCounts ==
  /\ pc = "done" => \A t \in Subtables :
       /\ count[t] >= Cardinality(RegionsIn(t))
       /\ ~failed => count[t] = Cardinality(RegionsIn(t))
  /\ pc \in {"done", "map"} => \A t \in FreeTables :
       /\ tables[t] = [i \in Indexes(t) |-> Invalid]
       /\ \A u \in TableIds : \A i \in Indexes(u) : tables[u][i] # TableDesc(t)

Expected(va) ==
  LET w == Wanted(va)
  IN IF \E a \in altered : a.va = va - (va % PageSize)
     THEN LET a == (CHOOSE a \in altered : a.va = va - (va % PageSize)).attr
          IN [w EXCEPT !.write = a.rw, !.user = Regime = "EL1&0" /\ a.user,
                       !.exec = w.mem # "device" /\ ~a.rw /\ ~a.xn]
     ELSE w

\* Between calls every address translates as the list says, with the attributes
\* that were changed since, whatever was added, removed or failed.
MapFollowsList ==
  pc = "done" => \A va \in 0 .. VaMax : Lookup(va) = Expected(va)

Concerned(va) ==
  \/ todo # <<>> /\ Region.va <= va /\ va <= EndVa(Region)
  \/ op.name = "change" /\ op.va <= va /\ va < op.va + PageSize

\* A call changes how the addresses of its own region translate and no other,
\* not even for a moment: the MMU is on.
OthersUndisturbed ==
  [][InCall /\ op.name # "init" =>
       \A va \in 0 .. VaMax : ~Concerned(va) => Lookup(va)' = Lookup(va)]_dynAllVars

\* xlat_arch_tlbi_va "must be called for every translation table entry that is
\* modified" (xlat_tables_private.h): what a TLB was not told to forget is in the
\* tables, and is all there is for an address.  A call returns when the TLBs have
\* forgotten the rest; one that failed has told them but does not wait.
TlbFresh ==
  /\ \A e, f \in held \ told : e # f =>
       e.va + BlockSize(e.level) <= f.va \/ f.va + BlockSize(f.level) <= e.va
  /\ \A e \in held \ told : LET t == TableAt(e.va)[e.level]
                          IN t # -1 /\ EntryFor(t, e.level, e.va) = e.desc
  /\ pc = "done" /\ ~failed => told = {}
=============================================================================
