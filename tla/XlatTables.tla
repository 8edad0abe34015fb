------------------------------ MODULE XlatTables ------------------------------
(***************************************************************************)
(* Building the translation tables (lib/xlat_tables_v2): the list of       *)
(* regions that mmap_add_region keeps sorted, and init_xlat_tables, which  *)
(* maps each region into tables taken from a pool of fixed size.  It is    *)
(* the build the program has, without dynamic regions and with the         *)
(* assertions compiled out: a refused region is dropped.                   *)
(*                                                                         *)
(* Addresses are numbers below Word (2^64 in the code).  A region is       *)
(* [pa, va, size, attr, gran, alloc]; alloc says that the library chooses  *)
(* the virtual address.  The recursion of xlat_tables_map_region is a      *)
(* stack of frames, one per table the walk is in.                          *)
(***************************************************************************)
EXTENDS Integers, Sequences, FiniteSets, SequencesExt

CONSTANTS
  Word,         \* addresses are modulo this
  PageSize, Entries, BaseEntries,   \* bytes of a page, entries of a table
  BaseLevel,    \* the initial lookup level
  MinBlock,     \* MIN_LVL_BLOCK_DESC
  TablesNum,    \* subtables in the pool (MAX_XLAT_TABLES)
  MmapNum,      \* regions in the list (MAX_MMAP_REGIONS)
  VaMax, PaMax, \* va_max_address, pa_max_address
  Regime,       \* the translation regime
  Attr,         \* the attributes in use
  Calls         \* for each call that adds a region, the regions it may pass

RegionArg ==
  [pa : 0 .. Word - 1, va : 0 .. Word - 1, size : 0 .. Word - 1,
   attr : Attr, gran : Nat, alloc : BOOLEAN]

ASSUME XlatAssumption ==
  /\ {Word, Entries, BaseEntries, VaMax, PaMax} \subseteq Nat \ {0}
  /\ PageSize \in Nat /\ PageSize >= 2
  /\ BaseLevel \in 0 .. 3 /\ MinBlock \in 1 .. 3
  /\ TablesNum \in Nat /\ MmapNum \in Nat
  /\ VaMax < Word /\ PaMax < Word
  /\ Attr \subseteq [mem : {"device", "memory", "non_cacheable"},
                     rw : BOOLEAN, xn : BOOLEAN, ns : BOOLEAN, user : BOOLEAN]
  /\ Calls \in Seq(SUBSET RegionArg)

Levels == BaseLevel .. 3

\* XLAT_BLOCK_SIZE
BlockSize(l) == PageSize * <<Entries * Entries * Entries, Entries * Entries, Entries, 1>>[l + 1]

\* GET_NUM_BASE_LEVEL_ENTRIES: the base table reaches to va_max_address.
ASSUME BaseTableReaches == VaMax < BaseEntries * BlockSize(BaseLevel)

VARIABLES
  calls,      \* calls that add a region made so far
  mmap,       \* ctx->mmap up to its sentinel
  max_va, max_pa,
  tables,     \* the base table, 0, and the subtables
  next_table,
  todo,       \* regions still to be mapped, the one at hand first
  stack,      \* frames of xlat_tables_map_region
  ret,        \* what the last frame to return has returned
  pc          \* "add", "map", "return", "done"; "overrun": a table past the pool

mmapVars == <<calls, mmap, max_va, max_pa>>
vars == <<mmapVars, tables, next_table, todo, stack, ret, pc>>

TableIds == 0 .. TablesNum
Indexes(t) == 0 .. (IF t = 0 THEN BaseEntries ELSE Entries) - 1

Invalid == [type |-> "invalid"]
TableDesc(t) == [type |-> "table", to |-> t]

\* The block or page descriptor of an address with attributes a.
XlatDesc(a, pa) ==
  [type |-> "leaf", pa |-> pa, ns |-> a.ns, write |-> a.rw,
   user |-> Regime = "EL1&0" /\ a.user,
   mem |-> a.mem, shared |-> IF a.mem = "memory" THEN "inner" ELSE "outer",
   xn |-> a.mem = "device" \/ a.rw \/ a.xn]

\* The section of the subtables is not loaded nor cleared: they hold anything at
\* first.  The base table is in .bss, all zero.
Garbage == [type |-> "garbage"]

Init ==
  /\ calls = 0 /\ mmap = <<>> /\ max_va = 0 /\ max_pa = 0
  /\ tables = [t \in TableIds |-> [i \in Indexes(t) |-> IF t = 0 THEN Invalid ELSE Garbage]]
  /\ next_table = 1
  /\ todo = <<>> /\ stack = <<>> /\ ret = 0
  /\ pc = "add"

-----------------------------------------------------------------------------
(* The list of regions.                                                      *)

EndVa(r) == (r.va + r.size - 1) % Word
EndPa(r) == (r.pa + r.size - 1) % Word

Inside(a, b) == a.va >= b.va /\ EndVa(a) <= EndVa(b)
SeparateVa(a, b) == EndVa(a) < b.va \/ a.va > EndVa(b)
SeparatePa(a, b) == EndPa(a) < b.pa \/ a.pa > EndPa(b)

\* Mutant: a region may overlap the beginning of another.
CompatiblePartial(a, b) ==
  IF Inside(a, b) \/ Inside(b, a)
  THEN /\ (a.va - a.pa) % Word = (b.va - b.pa) % Word
       /\ ~(a.va = b.va /\ a.size = b.size)
  ELSE \/ SeparateVa(a, b) /\ SeparatePa(a, b)
       \/ a.va < b.va /\ a.va = a.pa /\ b.va = b.pa

\* What mmap_add_region_check lets two regions of the list be: one inside the
\* other with the same offset, or apart in both address spaces.
Compatible(a, b) ==
  IF Inside(a, b) \/ Inside(b, a)
  THEN /\ (a.va - a.pa) % Word = (b.va - b.pa) % Word
       /\ ~(a.va = b.va /\ a.size = b.size)
  ELSE SeparateVa(a, b) /\ SeparatePa(a, b)

\* mmap_add_region_check
Accepts(r) ==
  /\ r.pa % PageSize = 0 /\ r.va % PageSize = 0 /\ r.size % PageSize = 0
  /\ \E l \in 1 .. 3 : r.gran = BlockSize(l)
  /\ r.pa <= EndPa(r) /\ r.va <= EndVa(r)
  /\ EndVa(r) <= VaMax /\ EndPa(r) <= PaMax
  /\ Len(mmap) < MmapNum
  /\ \A i \in DOMAIN mmap : Compatible(r, mmap[i])

\* Mutant: regions that end at the same address stay in the order of the calls.
PlacesByEnd(r) ==
  {k \in 1 .. Len(mmap) + 1 :
     /\ \A j \in 1 .. k - 1 : EndVa(mmap[j]) <= EndVa(r)
     /\ k <= Len(mmap) => EndVa(mmap[k]) > EndVa(r)}

\* Where the two loops of mmap_add_region_ctx leave mm_cursor: the first stops
\* at m, the second at k.
Places(r) ==
  {k \in 1 .. Len(mmap) + 1 : \E m \in 1 .. k :
     /\ \A j \in 1 .. m - 1 : EndVa(mmap[j]) < EndVa(r)
     /\ m <= Len(mmap) => EndVa(mmap[m]) >= EndVa(r)
     /\ \A j \in m .. k - 1 : EndVa(mmap[j]) = EndVa(r) /\ mmap[j].size < r.size
     /\ k <= Len(mmap) => EndVa(mmap[k]) # EndVa(r) \/ mmap[k].size >= r.size}

\* mmap_add_region_alloc_va_ctx: the next free address, aligned to the largest
\* block that the physical address and the size allow.
AllocVa(r) ==
  LET fits == {l \in BaseLevel .. 2 : r.pa % BlockSize(l) = 0 /\ r.size % BlockSize(l) = 0}
      first == CHOOSE l \in fits : \A k \in fits : l <= k
      up(b) == ((max_va + b) \div b) * b
  IN (IF fits = {} THEN max_va + 1 ELSE up(BlockSize(first))) % Word

Placed(r) == [r EXCEPT !.va = IF r.alloc THEN AllocVa(r) ELSE @]

Insert(r) == \E k \in Places(r) : mmap' = InsertAt(mmap, k, r)

Raise(r) ==
  /\ max_va' = IF EndVa(r) > max_va THEN EndVa(r) ELSE max_va
  /\ max_pa' = IF EndPa(r) > max_pa THEN EndPa(r) ELSE max_pa

\* mmap_add_region_ctx with a region that passes the check
AddRegion ==
  /\ pc = "add" /\ calls < Len(Calls)
  /\ \E arg \in Calls[calls + 1] :
       LET r == Placed(arg)
       IN r.size # 0 /\ Accepts(r) /\ Insert(r) /\ Raise(r)
  /\ calls' = calls + 1
  /\ UNCHANGED <<tables, next_table, todo, stack, ret, pc>>

\* An empty region, or one that fails the check.
DropRegion ==
  /\ pc = "add" /\ calls < Len(Calls)
  /\ \E arg \in Calls[calls + 1] :
       LET r == Placed(arg) IN r.size = 0 \/ ~Accepts(r)
  /\ calls' = calls + 1
  /\ UNCHANGED <<mmap, max_va, max_pa, tables, next_table, todo, stack, ret, pc>>

-----------------------------------------------------------------------------
(* Mapping a region.                                                         *)

Level == BaseLevel + Len(stack) - 1
Top == stack[Len(stack)]
Region == Head(todo)
Entry == tables[Top.tab][Top.idx]
EntryEnd == Top.va + BlockSize(Level) - 1
EntryPa == Region.pa + Top.va - Region.va

\* The frame with which the walk for region r enters table t at level l, which
\* translates the addresses from base on: xlat_tables_find_start_va.
Frame(t, base, l, r) ==
  LET va == IF r.va > base THEN r.va - (r.va % BlockSize(l)) ELSE base
  IN [tab |-> t, va |-> va, idx |-> (va - base) \div BlockSize(l)]

\* init_xlat_tables_ctx has these regions left to map.
Begin(regions) ==
  /\ todo' = regions
  /\ IF regions # <<>>
     THEN stack' = <<Frame(0, 0, BaseLevel, Head(regions))>> /\ pc' = "map"
     ELSE stack' = <<>> /\ pc' = "done"

\* Mutant: only the base table is cleared.
StartInitDirty ==
  /\ pc = "add" /\ calls = Len(Calls)
  /\ tables' = [tables EXCEPT ![0] = [i \in Indexes(0) |-> Invalid]]
  /\ Begin(mmap)
  /\ UNCHANGED <<mmapVars, next_table, ret>>

\* init_xlat_tables_ctx, which clears all tables
StartInit ==
  /\ pc = "add" /\ calls = Len(Calls)
  /\ tables' = [t \in TableIds |-> [i \in Indexes(t) |-> Invalid]]
  /\ Begin(mmap)
  /\ UNCHANGED <<mmapVars, next_table, ret>>

\* The end of the loop's body, after n entries: the next one, or the end of the
\* table or of the region.
Advance(n) ==
  LET next == [Top EXCEPT !.idx = @ + n, !.va = @ + n * BlockSize(Level)]
  IN IF next.idx \in Indexes(Top.tab) /\ EndVa(Region) > next.va
     THEN stack' = Append(Front(stack), next) /\ pc' = "map" /\ UNCHANGED ret
     ELSE stack' = Front(stack) /\ ret' = next.va - 1 /\ pc' = "return"

Covered == Region.va <= Top.va /\ EndVa(Region) >= EntryEnd

\* Mutant: the granularity is forgotten.
FitsBlockAnyGran ==
  \/ Level = 3
  \/ EntryPa % BlockSize(Level) = 0 /\ Level >= MinBlock

\* Mutant: the alignment of the physical address is forgotten.
FitsBlockAnyPa ==
  \/ Level = 3
  \/ Level >= MinBlock /\ Region.gran >= BlockSize(Level)

\* A block of this level can describe the entry (a page always can).
FitsBlock ==
  \/ Level = 3
  \/ /\ EntryPa % BlockSize(Level) = 0
     /\ Level >= MinBlock
     /\ Region.gran >= BlockSize(Level)

\* Mutant: entries in use are not looked at.
FreeEntriesAny ==
  {i \in Indexes(Top.tab) : i >= Top.idx /\
     EndVa(Region) >= Top.va + (i - Top.idx + 1) * BlockSize(Level) - 1}

\* The entries from this one on that the region covers, up to one in use.
FreeEntries ==
  LET used == {i \in Indexes(Top.tab) : i >= Top.idx /\ tables[Top.tab][i] # Invalid}
  IN {i \in Indexes(Top.tab) : i >= Top.idx /\
        /\ \A u \in used : i < u
        /\ EndVa(Region) >= Top.va + (i - Top.idx + 1) * BlockSize(Level) - 1}

\* Table t with these entries written.
Filled(t, free) ==
  [i \in DOMAIN t |->
     IF i \in free
     THEN XlatDesc(Region.attr, EntryPa + (i - Top.idx) * BlockSize(Level))
     ELSE t[i]]

\* ACTION_WRITE_BLOCK_ENTRY, as many times as the loop takes it in a row.
WriteEntries ==
  /\ pc = "map" /\ Entry = Invalid /\ Covered /\ FitsBlock
  /\ LET free == FreeEntries
     IN /\ tables' = [tables EXCEPT ![Top.tab] = Filled(@, free)]
        /\ Advance(Cardinality(free))
  /\ UNCHANGED <<mmapVars, next_table, todo>>

NeedsTable == pc = "map" /\ Entry = Invalid /\ ~(Covered /\ FitsBlock)

Enter(t) == stack' = Append(stack, Frame(t, Top.va, Level + 1, Region))

\* ACTION_CREATE_NEW_TABLE: a table from the pool
CreateTable ==
  /\ NeedsTable /\ next_table <= TablesNum
  /\ tables' = [tables EXCEPT ![Top.tab][Top.idx] = TableDesc(next_table)]
  /\ Enter(next_table)
  /\ next_table' = next_table + 1
  /\ UNCHANGED <<mmapVars, todo, ret, pc>>

\* ACTION_CREATE_NEW_TABLE when the pool is used up.  xlat_table_get_empty only
\* asserts that it is not: the memory behind the pool is taken for a table.
OverrunPool ==
  /\ NeedsTable /\ next_table > TablesNum
  /\ pc' = "overrun"
  /\ UNCHANGED <<mmapVars, tables, next_table, todo, stack, ret>>

\* ACTION_RECURSE_INTO_TABLE
RecurseIntoTable ==
  /\ pc = "map" /\ Entry.type = "table"
  /\ Enter(Entry.to)
  /\ UNCHANGED <<mmapVars, tables, next_table, todo, ret, pc>>

\* ACTION_NONE: another region is mapped here.
KeepEntry ==
  /\ pc = "map" /\ Entry.type = "leaf" /\ Covered
  /\ Advance(1)
  /\ UNCHANGED <<mmapVars, tables, next_table, todo>>

\* A call returns to the frame that made it: the whole entry has been walked,
ReturnWhole ==
  /\ pc = "return" /\ stack # <<>> /\ ret = EntryEnd
  /\ Advance(1)
  /\ UNCHANGED <<mmapVars, tables, next_table, todo>>

\* or not, which the frame passes on.
ReturnEarly ==
  /\ pc = "return" /\ stack # <<>> /\ ret # EntryEnd
  /\ stack' = Front(stack)
  /\ UNCHANGED <<mmapVars, tables, next_table, todo, ret, pc>>

\* Back in init_xlat_tables_ctx, which panics if the region is not all mapped.
NextRegion ==
  /\ pc = "return" /\ stack = <<>> /\ ret = EndVa(Region)
  /\ Begin(Tail(todo))
  /\ UNCHANGED <<mmapVars, tables, next_table, ret>>

MapStep ==
  \/ WriteEntries \/ CreateTable \/ OverrunPool \/ RecurseIntoTable \/ KeepEntry
  \/ ReturnWhole \/ ReturnEarly \/ NextRegion

Next == AddRegion \/ DropRegion \/ StartInit \/ MapStep

Spec == Init /\ [][Next]_vars

-----------------------------------------------------------------------------
(* What an address is mapped to: the walk of the hardware, and the list.     *)

EntryFor(t, l, va) ==
  IF t = -1 THEN Invalid
  ELSE tables[t][(va \div BlockSize(l)) % (IF t = 0 THEN BaseEntries ELSE Entries)]

\* The table that the walk for va reads at each level, or -1.
TableAt(va) ==
  LET t[l \in Levels] ==
        IF l = BaseLevel THEN 0
        ELSE LET e == EntryFor(t[l - 1], l - 1, va)
             IN IF e.type = "table" THEN e.to ELSE -1
  IN t

\* The level at which the walk for va ends in a block or page, if any.
LeafLevels(va) ==
  LET t == TableAt(va)
  IN {l \in Levels : EntryFor(t[l], l, va).type = "leaf"}

Fault == [type |-> "fault"]

Lookup(va) ==
  IF LeafLevels(va) = {} THEN Fault
  ELSE LET l == CHOOSE l \in LeafLevels(va) : TRUE
           d == EntryFor(TableAt(va)[l], l, va)
       IN [pa |-> (d.pa - (d.pa % BlockSize(l))) + (va % BlockSize(l)),
           mem |-> d.mem, ns |-> d.ns, user |-> d.user,
           write |-> d.write, exec |-> ~d.xn]

At(va) == {i \in DOMAIN mmap : mmap[i].va <= va /\ va <= EndVa(mmap[i])}

\* The innermost region at va.
Inner(va) == CHOOSE i \in At(va) : \A j \in At(va) : mmap[i].size <= mmap[j].size

Wanted(va) ==
  IF At(va) = {} THEN Fault
  ELSE LET r == mmap[Inner(va)]
       IN [pa |-> r.pa + va - r.va,
           mem |-> r.attr.mem, ns |-> r.attr.ns,
           user |-> Regime = "EL1&0" /\ r.attr.user,
           write |-> r.attr.rw,
           exec |-> r.attr.mem # "device" /\ ~r.attr.rw /\ ~r.attr.xn]

\* Region r alone fills the block of level l around va, and may be mapped by it.
OneBlock(va, l) ==
  LET r == mmap[Inner(va)]
      first == va - (va % BlockSize(l))
      last == first + BlockSize(l) - 1
  IN /\ l = 3 \/ (l >= MinBlock /\ r.gran >= BlockSize(l))
     /\ (r.pa - r.va) % BlockSize(l) = 0
     /\ r.va <= first /\ last <= EndVa(r)
     /\ \A i \in DOMAIN mmap :
          mmap[i].size < r.size => EndVa(mmap[i]) < first \/ last < mmap[i].va

-----------------------------------------------------------------------------
(* Properties.                                                               *)

\* The list stays as the comment in mmap_add_region_ctx draws it (lower end
\* first, then smaller size), two regions are nested or apart, and none ends
\* beyond max_va or max_pa, which addresses are allocated from and the MMU is
\* set up with.  (That some region ends there is ListExact of XlatDynamic.)
ListConsistent ==
  /\ \A i, j \in DOMAIN mmap : i < j =>
       /\ \/ EndVa(mmap[i]) < EndVa(mmap[j])
          \/ EndVa(mmap[i]) = EndVa(mmap[j]) /\ mmap[i].size < mmap[j].size
       /\ Compatible(mmap[i], mmap[j])
  /\ \A i \in DOMAIN mmap : EndVa(mmap[i]) <= max_va /\ EndPa(mmap[i]) <= max_pa

\* Each address is mapped by the largest block that its region, the regions
\* nested in it, the physical address and the granularity asked for allow:
\* xlat_tables_v2.h promises both that the granularity is kept and that the
\* number of tables is as small as possible.
LargestBlocks ==
  pc = "done" => \A va \in 0 .. VaMax : At(va) # {} =>
    \A l \in LeafLevels(va) :
      OneBlock(va, l) /\ \A k \in Levels : k < l => ~OneBlock(va, k)

\* The panic of init_xlat_tables_ctx and the assertions on the descriptors of
\* xlat_tables_map_region_action never fire: a region that returns has been
\* mapped to its end, and no block is split.
NoPanic ==
  /\ pc = "return" /\ stack = <<>> => ret = EndVa(Region)
  /\ pc = "map" => \/ Entry.type \in {"invalid", "table"}
                   \/ Entry.type = "leaf" /\ Covered
  /\ pc = "map" /\ Level = 3 => Covered

\* Outer regions do not overwrite descriptors of the regions added previously.
NotOverwritten ==
  [][\A t \in TableIds : \A i \in Indexes(t) :
       tables[t][i].type \in {"leaf", "table"} =>
         tables'[t][i] = tables[t][i]]_vars

\* init_xlat_tables_ctx comes to an end whatever the regions are.
InitEnds == <>(pc \in {"done", "overrun"})

\* xlat_tables_core.c:95, assert(ctx->next_table < ctx->tables_num): the pool is
\* never asked for a table when it has none.
PoolSuffices == pc # "overrun"
=============================================================================
