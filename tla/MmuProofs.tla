------------------------------- MODULE MmuProofs -------------------------------
(***************************************************************************)
(* What rests on the tables.  With the MMU on (MmuSetup), every virtual    *)
(* address is accessed as the list of regions says: for every size of the  *)
(* address spaces and of the tables, whatever regions were added, on both  *)
(* architectures and whenever the hardware lets a register or an           *)
(* invalidation take effect.  With dynamic regions (XlatDynamic), the list *)
(* stays exact whatever is added, removed or undone.                       *)
(***************************************************************************)
EXTENDS MmuSetup, XlatDynamic, XlatTablesProofs, NaturalsInduction

\* What the registers must say for the walk to agree with the tables.
Suits(r) ==
  /\ r.mair = Mair /\ r.ttbr0 = 0
  /\ 2 ^ (RegBits - r.tcr.t0sz) = VaMax + 1
  /\ r.tcr.epd1 = (Regime = "EL1&0")
  /\ PaSizes[r.tcr.ps] \in Nat /\ max_pa < PaSizes[r.tcr.ps]

-----------------------------------------------------------------------------
(* The values that setup_mmu_cfg computes.                                   *)

\* TCR.PS reaches to the highest address mapped: below the size it is given for
\* there is no range with a bit, down to the first.
LEMMA PhysicalSize ==
  ASSUME max_pa \in Nat, max_pa <= PaMax
  PROVE  /\ PhysicalAddrSize(max_pa) \in DOMAIN PaSizes
         /\ max_pa < PaSizes[PhysicalAddrSize(max_pa)]
<1>. DEFINE P == PaSizes
            n == Len(PaSizes)
            used == {i \in 2 .. n : (max_pa % P[i]) \div P[i - 1] # 0}
<1>1. /\ P \in Seq(Nat \ {0}) /\ n \in Nat /\ DOMAIN P = 1 .. n
      /\ \A i \in 1 .. n : P[i] \in Nat \ {0}
      /\ \A i, j \in 1 .. n : i < j => P[i] < P[j]
  BY ContextAssumption
<1>2. PaRange \in 1 .. n /\ max_pa < P[PaRange]
  BY <1>1, SupportedPa, XlatAssumption DEF xlat_arch_get_max_supported_pa
<1>. HIDE DEF P, n
\* The size from which on the ranges are empty; 1 if all are.
<1>3. ASSUME NEW top \in 1 .. n, \A i \in used : i <= top
      PROVE  max_pa < P[top]
  <2>. DEFINE S == {j \in top .. n : max_pa < P[j]}
  <2>1. S # {}
    <3>1. CASE top <= PaRange
      BY <1>1, <1>2, <3>1
    <3>2. CASE PaRange < top
      <4>1. P[PaRange] < P[top]
        BY <1>1, <1>2, <3>2
      <4>. QED  BY <1>1, <1>2, <4>1
    <3>. QED  BY <1>1, <1>2, <3>1, <3>2
  <2>2. PICK j \in S : \A k \in S : ~(k < j)
    <3>1. S \subseteq Nat
      BY <1>1
    <3>2. \E j \in S : \A k \in S : ~(<<k, j>> \in OpToRel(<, Nat))
      BY <2>1, <3>1, NatLessThanWellFounded, WFMin
    <3>. QED  BY <3>1, <3>2 DEF OpToRel
  <2>3. CASE j = top
    BY <2>2, <2>3
  <2>4. CASE j > top
    <3>1. j \in 2 .. n /\ j - 1 \in top .. n /\ j - 1 \in 1 .. n /\ j \notin used
      BY <1>1, <1>3, <2>2, <2>4
    <3>2. (max_pa % P[j]) \div P[j - 1] = 0
      BY <3>1
    <3>3. PICK a, b : a = P[j] /\ b = P[j - 1]
      OBVIOUS
    <3>4. a \in Nat \ {0} /\ b \in Nat \ {0} /\ max_pa < a
      BY <1>1, <2>2, <3>1, <3>3
    <3>5. max_pa % a = max_pa
      BY <3>4
    <3>6. max_pa \div b = 0
      BY <3>2, <3>3, <3>5
    <3>7. max_pa < b
      BY <3>4, <3>6
    <3>8. j - 1 \in S
      BY <3>1, <3>3, <3>7
    <3>. QED  BY <2>2, <3>1, <3>8
  <2>. QED  BY <1>1, <2>2, <2>3, <2>4
<1>4. PhysicalAddrSize(max_pa) =
        IF used = {} THEN 1 ELSE CHOOSE i \in used : \A j \in used : j <= i
  BY DEF PhysicalAddrSize, P, n
<1>5. CASE used = {}
  <2>1. 1 \in 1 .. n
    BY <1>1, <1>2
  <2>2. max_pa < P[1]
    BY <1>3, <1>5, <2>1
  <2>. QED  BY <1>1, <1>4, <1>5, <2>1, <2>2 DEF P
<1>6. CASE used # {}
  <2>1. \E i \in used : \A j \in used : j <= i
    <3>. DEFINE D == {d \in Nat : n - d \in used}
    <3>1. D # {}
      <4>1. PICK i \in used : TRUE
        BY <1>6
      <4>2. n - i \in Nat /\ n - (n - i) = i
        BY <1>1, <4>1
      <4>. QED  BY <4>1, <4>2
    <3>2. PICK d \in D : \A k \in D : ~(k < d)
      <4>1. \E d \in D : \A k \in D : ~(<<k, d>> \in OpToRel(<, Nat))
        BY <3>1, NatLessThanWellFounded, WFMin
      <4>. QED  BY <4>1 DEF OpToRel
    <3>3. ASSUME NEW j \in used PROVE j <= n - d
      <4>1. n - j \in Nat /\ n - (n - j) = j
        BY <1>1
      <4>2. ~(n - j < d)
        BY <3>2, <4>1
      <4>. QED  BY <1>1, <4>1, <4>2
    <3>. QED  BY <3>2, <3>3
  <2>2. PICK top \in used : /\ top = PhysicalAddrSize(max_pa)
                            /\ \A j \in used : j <= top
    BY <1>4, <1>6, <2>1
  <2>3. top \in 1 .. n
    BY <1>1, <2>2
  <2>. QED  BY <1>1, <1>3, <2>2, <2>3 DEF P
<1>. QED  BY <1>5, <1>6

LEMMA CfgSuits ==
  ASSUME max_pa \in Nat, max_pa <= PaMax, NEW flags
  PROVE  Suits(SetupMmuCfg64(flags)) /\ Suits(SetupMmuCfg32(flags))
<1>1. RegBits \in Nat /\ Word = 2 ^ RegBits /\ VaMax \in Nat
  BY ContextAssumption, XlatAssumption
<1>2. Ctz(VaMax + 1) \in 0 .. RegBits /\ VaMax + 1 = 2 ^ Ctz(VaMax + 1)
  <2>1. PICK k \in 1 .. RegBits : VaMax + 1 = 2 ^ k
    BY ContextAssumption
  <2>2. k \in 0 .. RegBits
    BY <1>1
  <2>. QED  BY <2>1, <2>2 DEF Ctz
<1>3. RegBits - (RegBits - Ctz(VaMax + 1)) = Ctz(VaMax + 1) /\ RegBits - 0 = RegBits
  BY <1>1, <1>2
<1>4. VaMax = Word - 1 => 2 ^ RegBits = VaMax + 1
  BY <1>1, XlatAssumption
<1>5. /\ PaSizes[PhysicalAddrSize(max_pa)] \in Nat
      /\ max_pa < PaSizes[PhysicalAddrSize(max_pa)]
  BY PhysicalSize, ContextAssumption
<1>6. PaSizes[Len(PaSizes)] \in Nat /\ max_pa < PaSizes[Len(PaSizes)]
  <2>. DEFINE n == Len(PaSizes)
  <2>1. /\ n \in Nat /\ DOMAIN PaSizes = 1 .. n /\ \A i \in 1 .. n : PaSizes[i] \in Nat
        /\ \A i, j \in 1 .. n : i < j => PaSizes[i] < PaSizes[j]
    BY ContextAssumption
  <2>2. PaRange \in 1 .. n /\ max_pa < PaSizes[PaRange]
    BY <2>1, SupportedPa, XlatAssumption DEF xlat_arch_get_max_supported_pa
  <2>. HIDE DEF n
  <2>3. n \in 1 .. n /\ (PaRange = n \/ PaRange < n)
    BY <2>1, <2>2
  <2>4. max_pa < PaSizes[n] /\ PaSizes[n] \in Nat
    BY <2>1, <2>2, <2>3
  <2>. QED  BY <2>4 DEF n
<1>7. Suits(SetupMmuCfg64(flags))
  BY <1>2, <1>3, <1>5 DEF SetupMmuCfg64, Suits
<1>8. Suits(SetupMmuCfg32(flags))
  BY <1>2, <1>3, <1>4, <1>6 DEF SetupMmuCfg32, Suits
<1>. QED  BY <1>7, <1>8

-----------------------------------------------------------------------------
(* The walk that the MMU does.                                               *)

\* What it reads in table t at level l, and what it does with it.
HwEntries(l) == IF l = StartLevel THEN 2 ^ VaBits \div BlockSize(l) ELSE Entries
HwIndex(va, l) == (va \div BlockSize(l)) % HwEntries(l)

HwRead(va, t, l) ==
  [level |-> l,
   desc |-> IF t \in TableIds /\ HwIndex(va, l) \in Indexes(t) THEN tables[t][HwIndex(va, l)]
            ELSE Garbage]

HwNext(va, w, l) == IF w.desc.type = "table" THEN HwRead(va, w.desc.to, l) ELSE w

LEMMA HardwareWalk ==
  ASSUME NEW va, StartLevel \in 0 .. 3
  PROVE  \E w : /\ Walk(va) = w[3]
                /\ w[StartLevel] = HwRead(va, live.ttbr0, StartLevel)
                /\ \A l \in StartLevel .. 3 : l # StartLevel => w[l] = HwNext(va, w[l - 1], l)
<1>. DEFINE S == StartLevel
            G(f) == [l \in S .. 3 |-> IF l = S THEN HwRead(va, live.ttbr0, l)
                                      ELSE IF f[l - 1].desc.type = "table"
                                      THEN HwRead(va, f[l - 1].desc.to, l) ELSE f[l - 1]]
            w0 == HwRead(va, live.ttbr0, S)
            w1 == HwNext(va, w0, S + 1)
            w2 == HwNext(va, w1, S + 2)
            w3 == HwNext(va, w2, S + 3)
            f == [l \in S .. 3 |-> CASE l = S -> w0 [] l = S + 1 -> w1
                                     [] l = S + 2 -> w2 [] OTHER -> w3]
<1>1. ASSUME NEW l \in S .. 3
      PROVE  f[l] = IF l = S THEN HwRead(va, live.ttbr0, l) ELSE HwNext(va, f[l - 1], l)
  <2>. HIDE DEF w1, w2, w3
  <2>1. CASE l = S
    BY <2>1
  <2>2. CASE l = S + 1
    <3>1. l - 1 = S /\ l - 1 \in S .. 3 /\ l # S
      BY <2>2
    <3>2. f[l - 1] = w0 /\ f[l] = w1
      BY <2>2, <3>1
    <3>. QED  BY <2>2, <3>1, <3>2 DEF w1
  <2>3. CASE l = S + 2
    <3>1. l - 1 = S + 1 /\ l - 1 \in S .. 3 /\ l # S
      BY <2>3
    <3>2. f[l - 1] = w1 /\ f[l] = w2
      BY <2>3, <3>1
    <3>. QED  BY <2>3, <3>1, <3>2 DEF w2
  <2>4. CASE l = S + 3
    <3>1. l - 1 = S + 2 /\ l - 1 \in S .. 3 /\ l # S
      BY <2>4
    <3>2. f[l - 1] = w2 /\ f[l] = w3
      BY <2>4, <3>1
    <3>. QED  BY <2>4, <3>1, <3>2 DEF w3
  <2>5. l = S \/ l = S + 1 \/ l = S + 2 \/ l = S + 3
    OBVIOUS
  <2>. QED  BY <2>1, <2>2, <2>3, <2>4, <2>5
<1>2. \E w : w = G(w)
  <2>1. f = [l \in S .. 3 |-> f[l]]
    OBVIOUS
  <2>. HIDE DEF f
  <2>2. f = G(f)
    BY <1>1, <2>1 DEF HwNext
  <2>. QED  BY <2>2
<1>3. Walk(va) = (CHOOSE w : w = G(w))[3]
  BY DEF Walk, HwRead, HwIndex, HwEntries
<1>4. PICK w : w = G(w) /\ Walk(va) = w[3]
  BY <1>2, <1>3
<1>5. S \in S .. 3
  OBVIOUS
<1>. QED  BY <1>4, <1>5 DEF HwNext

\* The sizes of the base table and the level it is at.
LEMMA BaseSizes ==
  ASSUME Suits(live)
  PROVE  /\ 2 ^ VaBits = VaMax + 1 /\ StartLevel = BaseLevel
         /\ HwEntries(BaseLevel) = BaseEntries
<1>1. 2 ^ VaBits = VaMax + 1
  BY DEF Suits, VaBits
<1>. DEFINE size == VaMax + 1
            b0 == BlockSize(0)
            b1 == BlockSize(1)
            b2 == BlockSize(2)
            b3 == BlockSize(3)
<1>2. size \in Nat /\ b0 \in Nat /\ b1 \in Nat /\ b2 \in Nat /\ b3 \in Nat
  BY XlatAssumption, BlockPositive
<1>3. b0 = Entries * b1 /\ b1 = Entries * b2 /\ b2 = Entries * b3
  BY BlockStep
<1>4. b1 <= b0 /\ b2 <= b1 /\ b3 <= b2
  <2>. HIDE DEF b0, b1, b2, b3
  <2>. QED  BY <1>2, <1>3, Constants
<1>5. BaseLevel = IF size > b0 THEN 0 ELSE IF size > b1 THEN 1 ELSE IF size > b2 THEN 2 ELSE 3
  BY ContextAssumption DEF GET_XLAT_TABLE_LEVEL_BASE
<1>6. StartLevel = CHOOSE l \in 0 .. 3 :
                /\ l = 0 \/ size <= Entries * BlockSize(l)
                /\ l = 3 \/ size > Entries * BlockSize(l + 1)
  BY <1>1 DEF StartLevel
<1>. DEFINE OK(l) == /\ l = 0 \/ size <= Entries * BlockSize(l)
                     /\ l = 3 \/ size > Entries * BlockSize(l + 1)
<1>7. /\ OK(0) <=> size > b0
      /\ OK(1) <=> size <= b0 /\ size > b1
      /\ OK(2) <=> size <= b1 /\ size > b2
      /\ OK(3) <=> size <= b2
  BY <1>3
<1>8. StartLevel = CHOOSE l \in 0 .. 3 : OK(l)
  BY <1>6
<1>. HIDE DEF OK, size, b0, b1, b2, b3
<1>9. OK(BaseLevel) /\ BaseLevel \in 0 .. 3
  BY <1>2, <1>4, <1>5, <1>7
<1>10. ASSUME NEW l \in 0 .. 3, OK(l) PROVE l = BaseLevel
  BY <1>2, <1>4, <1>5, <1>7, <1>10
<1>11. StartLevel = BaseLevel
  BY <1>8, <1>9, <1>10
<1>12. HwEntries(BaseLevel) = BaseEntries
  BY <1>1, <1>11, ContextAssumption DEF HwEntries, GET_NUM_BASE_LEVEL_ENTRIES
<1>. QED  BY <1>1, <1>11, <1>12

\* In a table in use at its level the MMU reads what EntryFor says.
LEMMA HardwareReads ==
  ASSUME Suits(live), TodoInv, NEW lev, NEW tag, Tree(lev, tag), NEW va \in 0 .. VaMax,
         NEW t \in Live, NEW l, l = lev[t]
  PROVE  HwRead(va, t, l) = [level |-> l, desc |-> EntryFor(t, l, va)]
<1>1. t \in TableIds /\ l \in 0 .. 3 /\ (l = BaseLevel <=> t = 0) /\ t # -1
  BY TreeTypes, BaseTable DEF Live
<1>2. HwEntries(l) = (IF t = 0 THEN BaseEntries ELSE Entries) /\ HwEntries(l) \in Nat \ {0}
  <2>1. CASE t = 0
    BY <1>1, <2>1, BaseSizes, Constants
  <2>2. CASE t # 0
    <3>1. l # StartLevel
      BY <1>1, <2>2, BaseSizes
    <3>. QED  BY <2>2, <3>1, Constants DEF HwEntries
  <2>. QED  BY <2>1, <2>2
<1>3. HwIndex(va, l) \in 0 .. HwEntries(l) - 1
  <2>1. va \in Int /\ BlockSize(l) \in Nat \ {0}
    BY <1>1, BlockPositive
  <2>2. va \div BlockSize(l) \in Int
    BY <2>1, Division
  <2>. QED  BY <1>2, <2>2, Division DEF HwIndex
<1>4. HwIndex(va, l) \in Indexes(t)
  BY <1>2, <1>3 DEF Indexes
<1>5. EntryFor(t, l, va) = tables[t][HwIndex(va, l)]
  BY <1>1, <1>2 DEF EntryFor, HwIndex
<1>. QED  BY <1>1, <1>4, <1>5 DEF HwRead

\* The MMU ends where the walk of the tables does: at an entry that leads no further.
LEMMA WalkEnds ==
  ASSUME Suits(live), NEW lev, NEW tag, Here(lev, tag), NEW va \in 0 .. VaMax
  PROVE  \E k \in Levels :
           /\ TableAt(va)[k] # -1
           /\ EntryFor(TableAt(va)[k], k, va).type # "table"
           /\ Walk(va) = [level |-> k, desc |-> EntryFor(TableAt(va)[k], k, va)]
<1>. USE DEF Here, MapInv
<1>. DEFINE T == TableAt(va)
            E(k) == EntryFor(T[k], k, va)
            R(k) == [level |-> k, desc |-> E(k)]
<1>1. BaseLevel \in 0 .. 3 /\ Levels = BaseLevel .. 3
  BY Constants DEF Levels
<1>2. StartLevel = BaseLevel /\ live.ttbr0 = 0
  BY BaseSizes DEF Suits
<1>3. PICK w : /\ Walk(va) = w[3]
               /\ w[BaseLevel] = HwRead(va, 0, BaseLevel)
               /\ \A l \in Levels : l # BaseLevel => w[l] = HwNext(va, w[l - 1], l)
  BY <1>1, <1>2, HardwareWalk
<1>4. T[BaseLevel] = 0 /\ \A l \in Levels : l # BaseLevel => T[l] = Below(T[l - 1], l - 1, va)
  BY WalkEquation, Zenon
<1>5. ASSUME NEW l \in Levels, T[l] # -1
      PROVE  T[l] \in Live /\ lev[T[l]] = l /\ HwRead(va, T[l], l) = R(l)
  <2>1. PICK i : Reads(lev, tag, va, T[l], l, i)
    BY <1>5, WalkReads
  <2>2. T[l] \in Live /\ lev[T[l]] = l
    BY <2>1 DEF Reads
  <2>. QED  BY <2>2, HardwareReads
\* At level 3 there is no table descriptor.
<1>6. ASSUME 3 \in Levels, T[3] # -1 PROVE E(3).type # "table"
  <2>1. PICK i : Reads(lev, tag, va, T[3], 3, i)
    BY <1>6, WalkReads
  <2>2. SUFFICES ASSUME E(3).type = "table" PROVE FALSE
    OBVIOUS
  <2>3. tables[T[3]][i].type = "table"
    BY <2>1, <2>2 DEF Reads
  <2>4. 3 \in 0 .. 2
    BY <2>1, <2>3, WalkDescends
  <2>. QED  BY <2>4
<1>. DEFINE Stopped(l) == \E k \in Levels : k < l /\ T[k] # -1 /\ E(k).type # "table" /\ w[l] = R(k)
            Q(l) == (T[l] # -1 /\ w[l] = R(l)) \/ Stopped(l)
<1>. HIDE DEF T
<1>7. Q(BaseLevel)
  <2>1. T[BaseLevel] # -1 /\ BaseLevel \in Levels
    BY <1>1, <1>4
  <2>. QED  BY <1>3, <1>4, <1>5, <2>1
<1>8. ASSUME NEW l \in Levels, NEW m \in Levels, m = l + 1, Q(l) PROVE Q(m)
  <2>1. m # BaseLevel /\ m - 1 = l
    BY <1>1, <1>8
  <2>2. w[m] = HwNext(va, w[l], m) /\ T[m] = Below(T[l], l, va)
    BY <1>3, <1>4, <2>1
  <2>3. CASE Stopped(l)
    <3>1. PICK k \in Levels : k < l /\ T[k] # -1 /\ E(k).type # "table" /\ w[l] = R(k)
      BY <2>3
    <3>2. w[m] = R(k)
      BY <2>2, <3>1 DEF HwNext
    <3>3. k < m
      BY <1>1, <1>8, <3>1
    <3>. QED  BY <3>1, <3>2, <3>3
  <2>4. CASE T[l] # -1 /\ w[l] = R(l) /\ E(l).type # "table"
    <3>1. w[m] = R(l)
      BY <2>2, <2>4 DEF HwNext
    <3>2. l < m
      BY <1>1, <1>8
    <3>. QED  BY <2>4, <3>1, <3>2
  <2>5. CASE T[l] # -1 /\ w[l] = R(l) /\ E(l).type = "table"
    <3>1. T[m] = E(l).to /\ w[m] = HwRead(va, E(l).to, m)
      BY <2>2, <2>5 DEF HwNext, Below
    <3>2. PICK i : Reads(lev, tag, va, T[l], l, i)
      BY <2>5, WalkReads DEF T
    <3>3. tables[T[l]][i].type = "table"
      BY <2>5, <3>2 DEF Reads
    <3>4. T[m] # -1
      BY <2>2, <3>2, <3>3, WalkDescends
    <3>. QED  BY <1>5, <3>1, <3>4
  <2>. QED  BY <1>8, <2>3, <2>4, <2>5
<1>. HIDE DEF Q
<1>9. Q(3)
  <2>1. PICK a, b, c : a = BaseLevel + 1 /\ b = a + 1 /\ c = b + 1
    OBVIOUS
  <2>2. /\ BaseLevel \in Levels /\ 3 \in {BaseLevel, a, b, c}
        /\ 3 = a => a \in Levels
        /\ 3 = b => a \in Levels /\ b \in Levels
        /\ 3 = c => a \in Levels /\ b \in Levels /\ c \in Levels
    BY <1>1, <2>1
  <2>3. a \in Levels => Q(a)
    BY <1>7, <1>8, <2>1, <2>2
  <2>4. a \in Levels /\ b \in Levels => Q(b)
    BY <1>8, <2>1, <2>3
  <2>5. a \in Levels /\ b \in Levels /\ c \in Levels => Q(c)
    BY <1>8, <2>1, <2>4
  <2>. QED  BY <1>7, <2>2, <2>3, <2>4, <2>5
<1>10. 3 \in Levels
  BY <1>1
<1>. QED  BY <1>3, <1>6, <1>9, <1>10 DEF Q, T

-----------------------------------------------------------------------------
(* What an access gets.                                                      *)

\* Each memory type is found in MAIR at the index that descriptors have for it.
LEMMA MairTypes ==
  ASSUME NEW mem \in {"memory", "device", "non_cacheable"}
  PROVE  Mair[AttrIndex(mem)] = mem
<1>1. AttrIndex("memory") = 0 /\ AttrIndex("device") = 1 /\ AttrIndex("non_cacheable") = 2
  BY DEF AttrIndex
<1>2. AttrIndex(mem) \in 0 .. 2
  BY <1>1
<1>3. ASSUME NEW m \in {"memory", "device", "non_cacheable"}, AttrIndex(m) = AttrIndex(mem)
      PROVE  m = mem
  BY <1>1, <1>3
<1>. QED  BY <1>2, <1>3 DEF Mair

\* The part of the address space that the tables do not cover is not mapped.
LEMMA BeyondTables ==
  ASSUME Inv, Suits(live), NEW va \in 0 .. Word - 1, va > VaMax
  PROVE  HardwareLookup(va) = Wanted(va)
<1>1. 2 ^ VaBits = VaMax + 1 /\ live.tcr.epd1 = (Regime = "EL1&0")
  BY BaseSizes DEF Suits
<1>2. HardwareLookup(va) = Fault
  <2>1. va >= 2 ^ VaBits
    BY <1>1, XlatAssumption
  <2>2. Regime # "EL1&0" \/ live.tcr.epd1
    BY <1>1
  <2>. QED  BY <2>1, <2>2 DEF HardwareLookup
<1>3. At(va) = {}
  <2>1. ASSUME NEW i \in DOMAIN mmap PROVE ~(va <= EndVa(mmap[i]))
    <3>1. mmap[i] \in Regions
      BY DEF Inv, ListInv
    <3>2. EndVa(mmap[i]) \in Nat /\ EndVa(mmap[i]) <= VaMax
      BY <3>1, RegionFacts DEF Regions, Proper
    <3>. QED  BY <3>2, XlatAssumption
  <2>. QED  BY <2>1 DEF At
<1>. QED  BY <1>2, <1>3 DEF Wanted

LEMMA MappedLookup ==
  ASSUME NEW lev, NEW tag, Here(lev, tag), pc = "done", Suits(live), live.sctlr.wxn = TRUE,
         NEW va \in 0 .. VaMax, NEW k \in LeafLevels(va),
         Walk(va) = [level |-> k, desc |-> EntryFor(TableAt(va)[k], k, va)]
  PROVE  HardwareLookup(va) = Wanted(va)
<1>1. ListInv /\ k \in 0 .. 3
  BY LeafFound DEF Here, Inv
<1>2. PICK n \in Nat : \E j \in 1 .. Len(mmap) :
            /\ va \in Span(k, n) /\ At(va) # {} /\ Inner(va) = j
            /\ Maker(j, EntryFor(TableAt(va)[k], k, va), k, n)
  BY LeafFound
<1>3. PICK j \in 1 .. Len(mmap) :
            /\ va \in Span(k, n) /\ At(va) # {} /\ Inner(va) = j
            /\ Maker(j, EntryFor(TableAt(va)[k], k, va), k, n)
  BY <1>2
<1>4. PICK d : d = EntryFor(TableAt(va)[k], k, va)
  OBVIOUS
<1>5. PICK r : r = mmap[j]
  OBVIOUS
<1>6. PICK pa : pa = (d.pa - (d.pa % BlockSize(k))) + (va % BlockSize(k))
  OBVIOUS
<1>7. /\ pa = r.pa + va - r.va
      /\ d.mem = r.attr.mem /\ d.ns = r.attr.ns /\ d.write = r.attr.rw
      /\ d.user = (Regime = "EL1&0" /\ r.attr.user)
      /\ (~d.xn) = (r.attr.mem # "device" /\ ~r.attr.rw /\ ~r.attr.xn)
  BY <1>1, <1>3, <1>4, <1>5, <1>6, LeafMeans
<1>8. r \in Regions /\ r.attr \in Attr
  BY SMTT(20), <1>1, <1>3, <1>5 DEF ListInv, Regions, RegionArg
<1>9. r.attr.mem \in {"memory", "device", "non_cacheable"} /\ r.attr.rw \in BOOLEAN
  BY <1>8, XlatAssumption
<1>10. pa < PaSizes[live.tcr.ps]
  <2>1. In(va, r)
    BY <1>3, <1>5 DEF Maker, Fills
  <2>2. /\ r.va \in Nat /\ r.pa \in Nat /\ r.size \in Nat /\ va \in Nat
        /\ EndVa(r) = r.va + r.size - 1 /\ EndPa(r) = r.pa + r.size - 1
    <3>1. va \in Nat
      OBVIOUS
    <3>. QED  BY <1>8, <3>1, RegionFacts
  <2>3. pa <= EndPa(r) /\ pa \in Int /\ EndPa(r) \in Int
    <3>1. r.va <= va /\ va <= EndVa(r)
      BY <2>1 DEF In
    <3>2. PICK x, y, z : x = r.va /\ y = r.pa /\ z = r.size
      OBVIOUS
    <3>3. pa = y + va - x /\ EndVa(r) = x + z - 1 /\ EndPa(r) = y + z - 1
      BY <1>7, <2>2, <3>2
    <3>. QED  BY SMTT(20), <2>2, <3>1, <3>2, <3>3
  <2>4. EndPa(r) <= max_pa /\ max_pa \in Nat
    <3>1. j \in DOMAIN mmap
      BY <1>1 DEF ListInv
    <3>. QED  BY <1>1, <1>5, <3>1 DEF ListInv, ListConsistent
  <2>5. PaSizes[live.tcr.ps] \in Nat /\ max_pa < PaSizes[live.tcr.ps]
    BY DEF Suits
  <2>6. PICK p : p = PaSizes[live.tcr.ps]
    OBVIOUS
  <2>. QED  BY <2>3, <2>4, <2>5, <2>6
<1>11. d.type = "leaf"
  BY <1>4 DEF LeafLevels
<1>12. ~(va >= 2 ^ VaBits)
  <2>1. 2 ^ VaBits = VaMax + 1
    BY BaseSizes
  <2>. QED  BY <2>1, XlatAssumption
<1>13. live.mair[AttrIndex(d.mem)] = r.attr.mem
  BY <1>7, <1>9, MairTypes DEF Suits
<1>14. ~(pa >= PaSizes[live.tcr.ps])
  <2>1. PICK p : p = PaSizes[live.tcr.ps]
    OBVIOUS
  <2>2. p \in Nat /\ pa \in Int
    <3>1. r.va \in Nat /\ r.pa \in Nat /\ va \in Nat
      BY <1>8, RegionFacts, XlatAssumption
    <3>. QED  BY <1>7, <2>1, <3>1 DEF Suits
  <2>. QED  BY <1>10, <2>1, <2>2
<1>15. Walk(va).desc = d /\ Walk(va).level = k
  BY <1>4
<1>16. HardwareLookup(va) =
         [pa |-> pa, mem |-> live.mair[AttrIndex(d.mem)], ns |-> d.ns, user |-> d.user,
          write |-> d.write, exec |-> ~d.xn /\ ~(d.write /\ live.sctlr.wxn)]
  BY <1>6, <1>11, <1>12, <1>14, <1>15 DEF HardwareLookup
<1>17. (~d.xn /\ ~(d.write /\ live.sctlr.wxn)) =
         (r.attr.mem # "device" /\ ~r.attr.rw /\ ~r.attr.xn)
  BY <1>7, <1>9, Zenon
<1>18. Wanted(va) = [pa |-> r.pa + va - r.va, mem |-> r.attr.mem, ns |-> r.attr.ns,
                     user |-> Regime = "EL1&0" /\ r.attr.user, write |-> r.attr.rw,
                     exec |-> r.attr.mem # "device" /\ ~r.attr.rw /\ ~r.attr.xn]
  BY <1>3, <1>5, Zenon DEF Wanted
<1>. QED  BY <1>7, <1>13, <1>16, <1>17, <1>18, Zenon

LEMMA Translates ==
  ASSUME BuiltInv, pc = "done", Suits(live), live.sctlr.wxn = TRUE, NEW va \in 0 .. Word - 1
  PROVE  HardwareLookup(va) = Wanted(va)
<1>1. CASE va > VaMax
  BY <1>1, BeyondTables DEF BuiltInv
<1>2. CASE ~(va > VaMax)
  <2>1. va \in 0 .. VaMax
    BY <1>2, XlatAssumption
  <2>2. PICK lev, tag : Here(lev, tag)
    BY DEF BuiltInv, Built, Here
  <2>3. PICK k \in Levels :
          /\ TableAt(va)[k] # -1
          /\ EntryFor(TableAt(va)[k], k, va).type # "table"
          /\ Walk(va) = [level |-> k, desc |-> EntryFor(TableAt(va)[k], k, va)]
    BY <2>1, <2>2, WalkEnds
  <2>4. PICK d : d = EntryFor(TableAt(va)[k], k, va)
    OBVIOUS
  <2>5. d = Invalid \/ d.type = "leaf"
    <3>1. PICK i : Reads(lev, tag, va, TableAt(va)[k], k, i)
      BY <2>1, <2>2, <2>3, WalkReads DEF Here, MapInv
    <3>2. /\ TableAt(va)[k] \in Live /\ i \in Indexes(TableAt(va)[k])
          /\ d = tables[TableAt(va)[k]][i]
      BY <2>4, <3>1 DEF Reads
    <3>3. TableAt(va)[k] \in TableIds
      BY <2>2, <3>2, TreeTypes DEF Here, MapInv
    <3>. QED  BY <2>2, <2>3, <2>4, <3>2, <3>3 DEF Here, MapInv, EntryTypes
  <2>6. CASE d.type = "leaf"
    <3>1. k \in LeafLevels(va)
      BY <2>3, <2>4, <2>6 DEF LeafLevels
    <3>. QED  BY <2>1, <2>2, <2>3, <3>1, MappedLookup
  <2>7. CASE d = Invalid
    <3>1. LeafLevels(va) = {}
      <4>1. SUFFICES ASSUME NEW m \in LeafLevels(va) PROVE FALSE
        OBVIOUS
      <4>2. /\ m \in Levels /\ TableAt(va)[m] # -1
            /\ EntryFor(TableAt(va)[m], m, va).type = "leaf"
        <5>1. m \in Levels /\ TableAt(va)[m] # -1
          BY <2>1, <2>2, <4>1, LeafFound
        <5>2. EntryFor(TableAt(va)[m], m, va).type = "leaf"
          BY <4>1, Zenon DEF LeafLevels
        <5>. QED  BY <5>1, <5>2
      <4>3. m # k
        <5>1. d.type # "leaf"
          BY <2>7 DEF Invalid
        <5>2. m = k => d.type = "leaf"
          BY <2>4, <4>2, Zenon
        <5>. QED  BY <5>1, <5>2
      <4>4. ~(m < k)
        BY <2>1, <2>2, <2>3, <4>2, WalkGoesOn DEF Here, MapInv
      <4>5. ~(k < m)
        BY <2>1, <2>2, <2>3, <4>2, WalkGoesOn DEF Here, MapInv
      <4>. QED  BY <4>2, <4>3, <4>4, <4>5, Constants DEF Levels
    <3>2. At(va) = {}
      BY <2>1, <2>2, <3>1, LeafExists
    <3>3. ~(va >= 2 ^ VaBits)
      <4>1. 2 ^ VaBits = VaMax + 1
        BY BaseSizes
      <4>. QED  BY <2>1, <4>1, XlatAssumption
    <3>4. HardwareLookup(va) = Fault
      BY <2>3, <2>4, <2>7, <3>3 DEF HardwareLookup, Invalid
    <3>. QED  BY <3>2, <3>4 DEF Wanted
  <2>. QED  BY <2>5, <2>6, <2>7
<1>. QED  BY <1>1, <1>2

-----------------------------------------------------------------------------
(* The registers while the MMU is turned on.                                 *)

MmuSteps == {"idle", "tlbi", "msr", "barrier", "sctlr", "isb", "ret"}

IsRegs(r) ==
  r = [mair |-> r.mair, tcr |-> r.tcr, ttbr0 |-> r.ttbr0, sctlr |-> r.sctlr]

\* What has been written when, and what of it is in effect: nothing but SCTLR can
\* still be under way when SCTLR.M is written.
RegsInv ==
  /\ max_pa <= PaMax /\ step \in MmuSteps /\ IsRegs(regs) /\ IsRegs(live)
  /\ step # "idle" => pc = "done" /\ Suits(cfg.params)
  /\ step \in {"idle", "tlbi", "msr", "barrier", "sctlr"} =>
       regs.sctlr.m = FALSE /\ live.sctlr.m = FALSE
  /\ step \in {"barrier", "sctlr", "isb", "ret"} => Suits(regs)
  /\ step \in {"sctlr", "isb", "ret"} => Suits(live) /\ tlb = "clean"
  /\ step \in {"isb", "ret"} => regs.sctlr.m = TRUE /\ regs.sctlr.wxn = TRUE
  /\ step \in {"isb", "ret"} => live.sctlr.m \in BOOLEAN
  /\ live.sctlr.m = TRUE => live.sctlr.wxn = TRUE
  /\ step = "ret" => live.sctlr.m = TRUE

LEMMA MmuStart == MmuInit => RegsInv
  BY XlatAssumption DEF MmuInit, Init, RegsInv, MmuSteps, IsRegs, Unset

\* The steps that build the tables.
LEMMA TablesFirst ==
  ASSUME BuiltInv, RegsInv, Next, UNCHANGED mmuVars
  PROVE  RegsInv'
<1>. USE DEF mmuVars
<1>1. max_pa' <= PaMax
  <2>1. CASE AddRegion
    <3>1. PICK r : Accepts(r) /\ Raise(r)
      BY <2>1 DEF AddRegion
    <3>. QED  BY <3>1 DEF RegsInv, Accepts, Raise
  <2>2. CASE ~AddRegion
    <3>1. max_pa' = max_pa
      BY <2>2 DEF Next, DropRegion, StartInit, MapStep, mmapVars, WriteEntries, CreateTable,
                  OverrunPool, RecurseIntoTable, KeepEntry, ReturnWhole, ReturnEarly, NextRegion
    <3>. QED  BY <3>1 DEF RegsInv
  <2>. QED  BY <2>1, <2>2
<1>2. pc # "done"
  BY DEF Next, AddRegion, DropRegion, StartInit, MapStep, WriteEntries, CreateTable,
         NeedsTable, OverrunPool, RecurseIntoTable, KeepEntry, ReturnWhole, ReturnEarly, NextRegion
<1>3. step = "idle"
  BY <1>2 DEF RegsInv
<1>. QED  BY <1>1, <1>3 DEF RegsInv, IsRegs

LEMMA SuitsStays ==
  ASSUME max_pa' = max_pa
  PROVE  /\ (/\ Suits(regs) /\ regs'.mair = regs.mair /\ regs'.tcr = regs.tcr
             /\ regs'.ttbr0 = regs.ttbr0) => Suits(regs)'
         /\ (/\ Suits(live) /\ live'.mair = live.mair /\ live'.tcr = live.tcr
             /\ live'.ttbr0 = live.ttbr0) => Suits(live)'
         /\ (/\ Suits(regs) /\ live'.mair = regs.mair /\ live'.tcr = regs.tcr
             /\ live'.ttbr0 = regs.ttbr0) => Suits(live)'
  BY DEF Suits

\* The instructions of enable_mmu_direct, and the call of setup_mmu_cfg before them.
LEMMA InstructionsKeep ==
  ASSUME BuiltInv, RegsInv, MmuStep
  PROVE  RegsInv'
<1>. USE DEF Go, vars, mmapVars
<1>1. max_pa' = max_pa /\ pc' = pc /\ max_pa' <= PaMax
  BY DEF MmuStep, SetupCfg, TlbiAll, WriteRegs, Barriers, WriteSctlr, Isb, RegsInv
<1>2. CASE SetupCfg
  <2>1. /\ step = "idle" /\ step' = "tlbi" /\ pc = "done" /\ regs' = regs /\ live' = live
        /\ \E flags : cfg'.params = SetupMmuCfg64(flags) \/ cfg'.params = SetupMmuCfg32(flags)
    BY <1>2 DEF SetupCfg
  <2>2. PICK params : params = cfg'.params
    OBVIOUS
  <2>3. Suits(params)
    <3>1. max_pa \in Nat /\ max_pa <= PaMax
      BY DEF BuiltInv, Inv, ListInv, RegsInv
    <3>. QED  BY <2>1, <2>2, <3>1, CfgSuits
  <2>4. Suits(cfg.params)'
    BY <1>1, <2>2, <2>3 DEF Suits
  <2>. QED  BY <1>1, <2>1, <2>4 DEF RegsInv, MmuSteps, IsRegs
<1>3. ASSUME step # "idle", cfg' = cfg PROVE pc' = "done" /\ Suits(cfg.params)'
  <2>1. pc = "done" /\ Suits(cfg.params)
    BY <1>3 DEF RegsInv
  <2>. QED  BY <1>1, <1>3, <2>1 DEF Suits
<1>4. CASE TlbiAll
  <2>1. step = "tlbi" /\ step' = "msr" /\ cfg' = cfg /\ regs' = regs /\ live' = live
    BY <1>4 DEF TlbiAll
  <2>. QED  BY <1>1, <1>3, <2>1 DEF RegsInv, MmuSteps, IsRegs
<1>5. CASE WriteRegs
  <2>1. /\ step = "msr" /\ step' = "barrier" /\ cfg' = cfg /\ live' = live
        /\ regs' = [regs EXCEPT !.mair = cfg.params.mair, !.tcr = cfg.params.tcr,
                                !.ttbr0 = cfg.params.ttbr0]
    BY <1>5 DEF WriteRegs
  <2>2. /\ IsRegs(regs)' /\ regs'.mair = cfg.params.mair /\ regs'.tcr = cfg.params.tcr
        /\ regs'.ttbr0 = cfg.params.ttbr0 /\ regs'.sctlr = regs.sctlr
    BY <2>1 DEF RegsInv, IsRegs
  <2>3. Suits(regs)'
    <3>1. Suits(cfg.params)
      BY <2>1 DEF RegsInv
    <3>. QED  BY <1>1, <2>2, <3>1 DEF Suits
  <2>. QED  BY <1>1, <1>3, <2>1, <2>2, <2>3 DEF RegsInv, MmuSteps, IsRegs
<1>6. CASE Barriers
  <2>1. /\ step = "barrier" /\ step' = "sctlr" /\ cfg' = cfg /\ regs' = regs /\ live' = regs
        /\ tlb' = "clean"
    BY <1>6 DEF Barriers
  <2>2. Suits(regs)' /\ Suits(live)'
    BY <1>1, <2>1, SuitsStays DEF RegsInv
  <2>. QED  BY <1>1, <1>3, <2>1, <2>2 DEF RegsInv, MmuSteps, IsRegs
<1>7. CASE WriteSctlr
  <2>1. /\ step = "sctlr" /\ step' = "isb" /\ cfg' = cfg /\ live' = live /\ tlb' = tlb
        /\ \E on : on.m = TRUE /\ on.wxn = TRUE /\ regs' = [regs EXCEPT !.sctlr = on]
    <3>. DEFINE on == [m |-> TRUE, c |-> "DISABLE_DCACHE" \notin cfg.flags, wxn |-> TRUE]
    <3>1. on.m = TRUE /\ on.wxn = TRUE
      OBVIOUS
    <3>2. regs' = [regs EXCEPT !.sctlr = on]
      BY <1>7 DEF WriteSctlr
    <3>. HIDE DEF on
    <3>. QED  BY <1>7, <3>1, <3>2 DEF WriteSctlr
  <2>2. /\ IsRegs(regs)' /\ regs'.mair = regs.mair /\ regs'.tcr = regs.tcr
        /\ regs'.ttbr0 = regs.ttbr0 /\ regs'.sctlr.m = TRUE /\ regs'.sctlr.wxn = TRUE
    <3>1. PICK on : on.m = TRUE /\ on.wxn = TRUE /\ regs' = [regs EXCEPT !.sctlr = on]
      BY <2>1
    <3>. QED  BY <3>1 DEF RegsInv, IsRegs
  <2>3. Suits(regs)' /\ Suits(live)'
    BY <1>1, <2>1, <2>2, SuitsStays DEF RegsInv
  <2>. QED  BY <1>1, <1>3, <2>1, <2>2, <2>3 DEF RegsInv, MmuSteps, IsRegs
<1>8. CASE Isb
  <2>1. /\ step = "isb" /\ step' = "ret" /\ cfg' = cfg /\ regs' = regs /\ live' = regs /\ tlb' = tlb
    BY <1>8 DEF Isb
  <2>2. Suits(regs)' /\ Suits(live)'
    BY <1>1, <2>1, SuitsStays DEF RegsInv
  <2>. QED  BY <1>1, <1>3, <2>1, <2>2 DEF RegsInv, MmuSteps, IsRegs
<1>. QED  BY <1>2, <1>4, <1>5, <1>6, <1>7, <1>8 DEF MmuStep

\* What the hardware does on its own.
LEMMA HardwareKeeps ==
  ASSUME RegsInv, Hardware
  PROVE  RegsInv'
<1>1. /\ max_pa' = max_pa /\ pc' = pc /\ step' = step /\ cfg' = cfg /\ regs' = regs
      /\ max_pa' <= PaMax
  BY DEF Hardware, vars, mmapVars, RegsInv
<1>2. Suits(cfg.params) => Suits(cfg.params)'
  BY <1>1 DEF Suits
<1>3. CASE live' = live /\ tlb = "invalidating" /\ tlb' = "clean"
  <2>1. (Suits(live) => Suits(live)') /\ (Suits(regs) => Suits(regs)')
    BY <1>1, <1>3 DEF Suits
  <2>. QED  BY <1>1, <1>2, <1>3, <2>1 DEF RegsInv, IsRegs
<1>4. CASE live' = [regs EXCEPT !.sctlr = live.sctlr] /\ tlb' = tlb
  <2>1. /\ IsRegs(live)' /\ live'.mair = regs.mair /\ live'.tcr = regs.tcr
        /\ live'.ttbr0 = regs.ttbr0 /\ live'.sctlr = live.sctlr
    BY <1>4 DEF RegsInv, IsRegs
  <2>2. Suits(regs) => Suits(live)' /\ Suits(regs)'
    BY <1>1, <2>1, SuitsStays
  <2>. QED  BY <1>1, <1>2, <1>4, <2>1, <2>2 DEF RegsInv, IsRegs
<1>5. CASE live' = [live EXCEPT !.sctlr = regs.sctlr] /\ tlb' = tlb
  <2>1. /\ IsRegs(live)' /\ live'.mair = live.mair /\ live'.tcr = live.tcr
        /\ live'.ttbr0 = live.ttbr0 /\ live'.sctlr = regs.sctlr
    BY <1>5 DEF RegsInv, IsRegs
  <2>2. (Suits(live) => Suits(live)') /\ (Suits(regs) => Suits(regs)')
    BY <1>1, <2>1, SuitsStays
  <2>. QED  BY <1>1, <1>2, <1>5, <2>1, <2>2 DEF RegsInv, IsRegs, MmuSteps
<1>. QED  BY <1>3, <1>4, <1>5 DEF Hardware

\* The invariant of the tables holds in MmuSetup too: its other steps do not touch
\* what XlatTables speaks of.
LEMMA TablesStay == MmuSpec => Spec
<1>1. MmuInit => Init
  BY DEF MmuInit
<1>2. [MmuNext]_allVars => [Next]_vars
  BY DEF MmuNext, MmuStep, SetupCfg, TlbiAll, WriteRegs, Barriers, WriteSctlr, Isb, Go,
         Hardware, allVars
<1>. QED  BY <1>1, <1>2, PTL DEF MmuSpec, Spec

\* From the moment the MMU is in effect, whichever of the instructions of
\* enable_mmu_direct that is at, every virtual address of the word is accessed as the
\* regions passed to mmap_add_region say, and faults if none has it.
THEOREM MmuFollowsList == MmuSpec => []HardwareAgrees
<1>1. BuiltInv /\ RegsInv /\ [MmuNext]_allVars => RegsInv'
  <2>. SUFFICES ASSUME BuiltInv, RegsInv, [MmuNext]_allVars PROVE RegsInv'
    OBVIOUS
  <2>1. CASE UNCHANGED allVars
    BY <2>1 DEF allVars, vars, mmapVars, mmuVars, RegsInv, IsRegs, Suits
  <2>. QED  BY <2>1, TablesFirst, InstructionsKeep, HardwareKeeps DEF MmuNext
<1>2. BuiltInv /\ RegsInv => HardwareAgrees
  <2>1. ASSUME BuiltInv, RegsInv, live.sctlr.m, NEW va \in 0 .. Word - 1
        PROVE  tlb = "clean" /\ HardwareLookup(va) = Wanted(va)
    <3>1. step \in {"isb", "ret"}
      BY <2>1 DEF RegsInv, MmuSteps
    <3>2. live.sctlr.m = TRUE
      BY <2>1, <3>1 DEF RegsInv
    <3>3. pc = "done" /\ Suits(live) /\ tlb = "clean" /\ live.sctlr.wxn = TRUE
      BY <2>1, <3>1, <3>2 DEF RegsInv
    <3>. QED  BY <2>1, <3>3, Translates
  <2>2. Word \in Nat \ {0}
    BY XlatAssumption
  <2>3. ASSUME BuiltInv, RegsInv, live.sctlr.m
        PROVE  tlb = "clean" /\ \A va \in 0 .. Word - 1 : HardwareLookup(va) = Wanted(va)
    <3>1. 0 \in 0 .. Word - 1
      BY <2>2
    <3>. QED  BY <2>1, <2>3, <3>1
  <2>4. ASSUME RegsInv, step = "ret" PROVE live.sctlr.m
    BY <2>4 DEF RegsInv
  <2>. QED  BY <2>3, <2>4, Zenon DEF HardwareAgrees
<1>. QED  BY <1>1, <1>2, MmuStart, TablesStay, TablesBuilt, PTL DEF MmuSpec

-----------------------------------------------------------------------------
(* Regions that come and go: the list and its maxima.                        *)

\* The region of an addition stays out of the maxima until it is mapped.
Counting == IF op.name = "add" THEN Range(mmap) \ {Region} ELSE Range(mmap)

IsGreatest(m, S) == m \in S /\ \A n \in S : n <= m

VaEnds(Q) == {0} \cup {EndVa(q) : q \in Q}
PaEnds(Q) == {0} \cup {EndPa(q) : q \in Q}

MaximaOf(Q) == IsGreatest(max_va, VaEnds(Q)) /\ IsGreatest(max_pa, PaEnds(Q))

Ordered ==
  /\ mmap \in Seq(Regions)
  /\ \A i, j \in DOMAIN mmap : i < j => Before(mmap[i], mmap[j]) /\ Compatible(mmap[i], mmap[j])

\* Which call is in progress, and where it may be.
CallInv ==
  /\ op.name \in {"none", "init", "add", "remove", "undo", "change"}
  /\ pc \in {"add", "done"} => op.name = "none"
  /\ pc \in {"map", "return"} => op.name \in {"init", "add"}
  /\ pc \in {"unmap", "unmapped"} => op.name \in {"remove", "undo"}
  /\ pc \in {"break", "make"} => op.name = "change"
  /\ op.name \in {"add", "remove"} => todo = <<Region>> /\ Region \in Range(mmap)
  /\ op.name = "add" => pc \in {"map", "return"}
  /\ op.name = "init" => todo \in Seq(Regions) /\ todo # <<>>
  /\ op.name = "change" =>
       op = [name |-> "change", va |-> op.va, left |-> op.left, attr |-> op.attr, desc |-> op.desc]

DynamicInv ==
  /\ calls \in Nat /\ Ordered /\ CallInv /\ dynamic \subseteq Range(mmap)
  /\ MaximaOf(Counting)

\* The greatest of a set of numbers with an upper bound.
LEMMA GreatestExists ==
  ASSUME NEW S \in SUBSET Nat, NEW bound \in Nat, \A n \in S : n <= bound, 0 \in S
  PROVE  IsGreatest(Max(S), S)
<1>. DEFINE T == {t \in Nat : \A n \in S : n <= t}
<1>1. PICK t \in T : \A u \in T : ~(u < t)
  <2>1. T \subseteq Nat /\ T # {}
    OBVIOUS
  <2>2. \E t \in T : \A u \in T : ~(<<u, t>> \in OpToRel(<, Nat))
    BY <2>1, NatLessThanWellFounded, WFMin
  <2>. QED  BY <2>1, <2>2 DEF OpToRel
<1>2. t \in S
  <2>. SUFFICES ASSUME t \notin S PROVE FALSE
    OBVIOUS
  <2>1. t # 0 /\ \A n \in S : n <= t /\ n # t /\ n \in Nat
    OBVIOUS
  <2>2. t - 1 \in T
    BY <2>1
  <2>. QED  BY <1>1, <2>2
<1>3. \A n \in S : t >= n
  OBVIOUS
<1>4. Max(S) \in S /\ \A n \in S : Max(S) >= n
  BY <1>2, <1>3 DEF Max
<1>. QED  BY <1>4 DEF IsGreatest

LEMMA GreatestIsMax ==
  ASSUME NEW S \in SUBSET Nat, NEW m, IsGreatest(m, S)
  PROVE  m = Max(S)
<1>1. m \in S /\ \A n \in S : m >= n
  BY DEF IsGreatest
<1>2. Max(S) \in S /\ \A n \in S : Max(S) >= n
  BY <1>1 DEF Max
<1>3. PICK x \in S : x = Max(S)
  BY <1>2
<1>4. m \in Nat /\ x \in Nat /\ m >= x /\ x >= m
  BY <1>1, <1>2, <1>3
<1>. QED  BY <1>3, <1>4

\* The ends of regions are numbers.
LEMMA EndsAreNumbers ==
  ASSUME NEW Q \in SUBSET Regions
  PROVE  /\ VaEnds(Q) \in SUBSET Nat /\ PaEnds(Q) \in SUBSET Nat
         /\ \A q \in Q : EndVa(q) \in VaEnds(Q) /\ EndPa(q) \in PaEnds(Q)
  BY RegionFacts DEF VaEnds, PaEnds

LEMMA RangeOfList ==
  ASSUME Ordered
  PROVE  /\ Range(mmap) \in SUBSET Regions
         /\ Len(mmap) \in Nat /\ DOMAIN mmap = 1 .. Len(mmap)
         /\ \A i \in 1 .. Len(mmap) : mmap[i] \in Regions
  BY DEF Ordered, Range

\* Between calls the list is as XlatTables says.
LEMMA ListBetweenCalls ==
  ASSUME DynamicInv, op.name # "add"
  PROVE  ListInv
<1>1. Counting = Range(mmap) /\ Ordered
  BY DEF Counting, DynamicInv
<1>2. max_va \in Nat /\ max_pa \in Nat
  BY <1>1, RangeOfList, EndsAreNumbers DEF DynamicInv, MaximaOf, IsGreatest
<1>3. ASSUME NEW i \in DOMAIN mmap PROVE EndVa(mmap[i]) <= max_va /\ EndPa(mmap[i]) <= max_pa
  <2>1. mmap[i] \in Range(mmap)
    BY DEF Range
  <2>2. EndVa(mmap[i]) \in VaEnds(Range(mmap)) /\ EndPa(mmap[i]) \in PaEnds(Range(mmap))
    BY <1>1, <2>1, RangeOfList, EndsAreNumbers
  <2>. QED  BY <1>1, <2>2 DEF DynamicInv, MaximaOf, IsGreatest
<1>4. ListConsistent
  BY <1>1, <1>3 DEF ListConsistent, Ordered, Before
<1>. QED  BY <1>1, <1>2, <1>4 DEF ListInv, DynamicInv, Ordered

\* A region that may be added is not in the list, and is afterwards.
LEMMA InsertRegion ==
  ASSUME ListInv, NEW r \in Regions, Accepts(r), Insert(r)
  PROVE  /\ Ordered' /\ r \notin Range(mmap) /\ Range(mmap)' = Range(mmap) \cup {r}
<1>1. \A i \in DOMAIN mmap : Compatible(r, mmap[i])
  BY DEF Accepts
<1>2. /\ mmap' \in Seq(Regions) /\ Len(mmap') = Len(mmap) + 1
      /\ DOMAIN mmap = 1 .. Len(mmap) /\ DOMAIN mmap' = 1 .. Len(mmap) + 1
      /\ \A i, j \in 1 .. Len(mmap) + 1 : i < j =>
           Before(mmap'[i], mmap'[j]) /\ Compatible(mmap'[i], mmap'[j])
  BY <1>1, InsertInOrder
<1>3. PICK k \in 1 .. Len(mmap) + 1 : \A i \in 1 .. Len(mmap) + 1 :
        mmap'[i] = IF i < k THEN mmap[i] ELSE IF i = k THEN r ELSE mmap[i - 1]
  BY <1>1, InsertInOrder
<1>4. Len(mmap) \in Nat
  BY DEF ListInv
<1>5. Ordered'
  <2>1. \A i, j \in DOMAIN mmap' : i < j =>
          Before(mmap'[i], mmap'[j]) /\ Compatible(mmap'[i], mmap'[j])
    BY <1>2
  <2>2. (\A i, j \in DOMAIN mmap : i < j =>
          Before(mmap[i], mmap[j]) /\ Compatible(mmap[i], mmap[j]))'
    BY <2>1 DEF Before, Compatible, Inside, SeparateVa, SeparatePa, EndVa, EndPa
  <2>. QED  BY <1>2, <2>2 DEF Ordered
<1>6. r \notin Range(mmap)
  <2>. SUFFICES ASSUME NEW i \in DOMAIN mmap, r = mmap[i] PROVE FALSE
    BY DEF Range
  <2>1. Compatible(r, r)
    BY <1>1
  <2>. QED  BY <2>1, NeverEqual
<1>7. ASSUME NEW q \in Range(mmap) \cup {r} PROVE \E i \in 1 .. Len(mmap) + 1 : mmap'[i] = q
  <2>1. CASE q = r
    BY <1>3, <1>4, <2>1
  <2>2. CASE q # r
    <3>1. PICK i \in 1 .. Len(mmap) : mmap[i] = q
      BY <1>2, <1>7, <2>2 DEF Range
    <3>2. CASE i < k
      BY <1>3, <1>4, <3>1, <3>2
    <3>3. CASE ~(i < k)
      <4>1. i + 1 \in 1 .. Len(mmap) + 1 /\ ~(i + 1 < k) /\ i + 1 # k /\ (i + 1) - 1 = i
        BY <1>3, <1>4, <3>1, <3>3
      <4>2. mmap'[i + 1] = mmap[(i + 1) - 1]
        BY <1>3, <4>1
      <4>. QED  BY <3>1, <4>1, <4>2
    <3>. QED  BY <3>2, <3>3
  <2>. QED  BY <2>1, <2>2
<1>8. ASSUME NEW i \in 1 .. Len(mmap) + 1 PROVE mmap'[i] \in Range(mmap) \cup {r}
  <2>1. i < k => i \in DOMAIN mmap
    BY <1>2, <1>3, <1>4
  <2>2. ~(i < k) /\ i # k => i - 1 \in DOMAIN mmap
    BY <1>2, <1>3, <1>4
  <2>. QED  BY <1>3, <2>1, <2>2 DEF Range
<1>9. Range(mmap)' = Range(mmap) \cup {r}
  <2>1. Range(mmap)' = {mmap'[i] : i \in 1 .. Len(mmap) + 1}
    BY <1>2 DEF Range
  <2>. QED  BY <1>7, <1>8, <2>1
<1>. QED  BY <1>5, <1>6, <1>9

LEMMA RemoveAtFacts ==
  ASSUME NEW S, NEW s \in Seq(S), NEW k \in 1 .. Len(s)
  PROVE  /\ RemoveAt(s, k) \in Seq(S) /\ Len(RemoveAt(s, k)) = Len(s) - 1
         /\ \A i \in 1 .. Len(s) - 1 : RemoveAt(s, k)[i] = IF i < k THEN s[i] ELSE s[i + 1]
<1>. DEFINE a == SubSeq(s, 1, k - 1)
            b == SubSeq(s, k + 1, Len(s))
<1>1. a \in Seq(S) /\ Len(a) = k - 1 /\ \A i \in 1 .. k - 1 : a[i] = s[i]
  <2>1. \A i \in 1 .. k - 1 : s[i] \in S
    OBVIOUS
  <2>. QED  BY <2>1, SubSeqProperties
<1>2. b \in Seq(S) /\ Len(b) = Len(s) - k /\ \A i \in 1 .. Len(s) - k : b[i] = s[k + i]
  <2>1. \A i \in k + 1 .. Len(s) : s[i] \in S
    OBVIOUS
  <2>. QED  BY <2>1, SubSeqProperties
<1>. HIDE DEF a, b
<1>3. /\ a \o b \in Seq(S) /\ Len(a \o b) = Len(a) + Len(b)
      /\ \A i \in 1 .. Len(a) + Len(b) : (a \o b)[i] = IF i <= Len(a) THEN a[i] ELSE b[i - Len(a)]
  BY <1>1, <1>2, ConcatProperties, Zenon
<1>4. Len(a) + Len(b) = Len(s) - 1 /\ Len(s) \in Nat
  BY <1>1, <1>2
<1>5. ASSUME NEW i \in 1 .. Len(s) - 1
      PROVE  (a \o b)[i] = IF i < k THEN s[i] ELSE s[i + 1]
  <2>1. (a \o b)[i] = IF i <= k - 1 THEN a[i] ELSE b[i - (k - 1)]
    BY <1>1, <1>3, <1>4
  <2>2. CASE i < k
    BY <1>1, <1>4, <2>1, <2>2
  <2>3. CASE ~(i < k)
    <3>1. i - (k - 1) \in 1 .. Len(s) - k /\ k + (i - (k - 1)) = i + 1 /\ ~(i <= k - 1)
      BY <1>4, <2>3
    <3>2. b[i - (k - 1)] = s[k + (i - (k - 1))]
      BY <1>2, <3>1
    <3>. QED  BY <2>1, <2>3, <3>1, <3>2
  <2>. QED  BY <2>2, <2>3
<1>6. RemoveAt(s, k) = a \o b
  BY DEF RemoveAt, a, b
<1>. QED  BY <1>3, <1>4, <1>5, <1>6

\* Taking a region off the list.
LEMMA WithoutRegion ==
  ASSUME Ordered, NEW r \in Range(mmap), mmap' = Without(r)
  PROVE  Ordered' /\ Range(mmap)' = Range(mmap) \ {r}
<1>1. PICK k \in DOMAIN mmap : mmap[k] = r /\ mmap' = RemoveAt(mmap, k)
  BY DEF Range, Without
<1>2. /\ Len(mmap) \in Nat /\ DOMAIN mmap = 1 .. Len(mmap) /\ k \in 1 .. Len(mmap)
      /\ \A i \in 1 .. Len(mmap) : mmap[i] \in Regions
  BY <1>1, RangeOfList
<1>3. /\ mmap' \in Seq(Regions) /\ Len(mmap') = Len(mmap) - 1
      /\ DOMAIN mmap' = 1 .. Len(mmap) - 1
      /\ \A i \in 1 .. Len(mmap) - 1 : mmap'[i] = IF i < k THEN mmap[i] ELSE mmap[i + 1]
  <2>1. mmap \in Seq(Regions)
    BY DEF Ordered
  <2>2. /\ RemoveAt(mmap, k) \in Seq(Regions) /\ Len(RemoveAt(mmap, k)) = Len(mmap) - 1
        /\ \A i \in 1 .. Len(mmap) - 1 :
             RemoveAt(mmap, k)[i] = IF i < k THEN mmap[i] ELSE mmap[i + 1]
    BY <1>2, <2>1, RemoveAtFacts
  <2>. QED  BY <1>1, <2>2
<1>4. \A i, j \in 1 .. Len(mmap) : i < j => Before(mmap[i], mmap[j]) /\ Compatible(mmap[i], mmap[j])
  BY <1>2 DEF Ordered
\* Entry i of the new list was at this place.
<1>. DEFINE old(i) == IF i < k THEN i ELSE i + 1
<1>5. ASSUME NEW i \in 1 .. Len(mmap) - 1
      PROVE  old(i) \in 1 .. Len(mmap) /\ old(i) # k /\ mmap'[i] = mmap[old(i)]
  BY <1>2, <1>3
<1>6. ASSUME NEW i \in 1 .. Len(mmap) - 1, NEW j \in 1 .. Len(mmap) - 1, i < j
      PROVE  Before(mmap'[i], mmap'[j]) /\ Compatible(mmap'[i], mmap'[j])
  <2>1. old(i) < old(j)
    BY <1>2, <1>6
  <2>. HIDE DEF old
  <2>. QED  BY <1>4, <1>5, <2>1
<1>7. Ordered'
  <2>1. \A i, j \in DOMAIN mmap' : i < j =>
          Before(mmap'[i], mmap'[j]) /\ Compatible(mmap'[i], mmap'[j])
    BY <1>3, <1>6
  <2>2. (\A i, j \in DOMAIN mmap : i < j =>
          Before(mmap[i], mmap[j]) /\ Compatible(mmap[i], mmap[j]))'
    BY <2>1 DEF Before, Compatible, Inside, SeparateVa, SeparatePa, EndVa, EndPa
  <2>. QED  BY <1>3, <2>2 DEF Ordered
<1>8. ASSUME NEW i \in 1 .. Len(mmap), i # k PROVE mmap[i] # r
  <2>1. Before(mmap[i], mmap[k]) \/ Before(mmap[k], mmap[i])
    BY <1>2, <1>4, <1>8
  <2>2. ~Before(r, r)
    <3>1. EndVa(r) \in Nat /\ r.size \in Nat
      BY <1>1, <1>2, RegionFacts
    <3>. QED  BY <3>1 DEF Before
  <2>. QED  BY <1>1, <2>1, <2>2
<1>9. ASSUME NEW i \in 1 .. Len(mmap), i # k PROVE \E j \in 1 .. Len(mmap) - 1 : mmap'[j] = mmap[i]
  <2>1. CASE i < k
    BY <1>2, <1>3, <2>1
  <2>2. CASE ~(i < k)
    <3>1. i - 1 \in 1 .. Len(mmap) - 1 /\ ~(i - 1 < k) /\ (i - 1) + 1 = i
      BY <1>2, <1>9, <2>2
    <3>2. mmap'[i - 1] = mmap[(i - 1) + 1]
      BY <1>3, <3>1
    <3>. QED  BY <3>1, <3>2
  <2>. QED  BY <2>1, <2>2
<1>10. Range(mmap)' = Range(mmap) \ {r}
  <2>1. /\ Range(mmap)' = {mmap'[j] : j \in 1 .. Len(mmap) - 1}
        /\ Range(mmap) = {mmap[i] : i \in 1 .. Len(mmap)}
    BY <1>2, <1>3 DEF Range
  <2>2. ASSUME NEW j \in 1 .. Len(mmap) - 1 PROVE mmap'[j] \in Range(mmap) \ {r}
    <3>1. PICK i \in 1 .. Len(mmap) : i # k /\ mmap'[j] = mmap[i]
      BY <1>5
    <3>. QED  BY <1>8, <2>1, <3>1
  <2>3. ASSUME NEW q \in Range(mmap) \ {r} PROVE \E j \in 1 .. Len(mmap) - 1 : mmap'[j] = q
    <3>1. PICK i \in 1 .. Len(mmap) : mmap[i] = q
      BY <2>1
    <3>2. i # k
      BY <1>1, <2>3, <3>1
    <3>. QED  BY <1>9, <3>1, <3>2, Zenon
  <2>. QED  BY <2>1, <2>2, <2>3, ZenonT(30)
<1>. QED  BY <1>7, <1>10

LEMMA RaiseKeeps ==
  ASSUME NEW Q \in SUBSET Regions, NEW r \in Regions, MaximaOf(Q), Raise(r)
  PROVE  MaximaOf(Q \cup {r})'
<1>1. /\ max_va' = IF EndVa(r) > max_va THEN EndVa(r) ELSE max_va
      /\ max_pa' = IF EndPa(r) > max_pa THEN EndPa(r) ELSE max_pa
  BY DEF Raise
<1>2. /\ VaEnds(Q \cup {r}) = VaEnds(Q) \cup {EndVa(r)}
      /\ PaEnds(Q \cup {r}) = PaEnds(Q) \cup {EndPa(r)}
  BY DEF VaEnds, PaEnds
<1>3. VaEnds(Q) \in SUBSET Nat /\ PaEnds(Q) \in SUBSET Nat /\ EndVa(r) \in Nat /\ EndPa(r) \in Nat
  BY EndsAreNumbers, RegionFacts
<1>4. /\ max_va \in VaEnds(Q) /\ \A n \in VaEnds(Q) : n <= max_va
      /\ max_pa \in PaEnds(Q) /\ \A n \in PaEnds(Q) : n <= max_pa
  BY DEF MaximaOf, IsGreatest
<1>5. ASSUME NEW S \in SUBSET Nat, NEW m \in S, NEW e \in Nat, NEW x,
             \A n \in S : n <= m, x = IF e > m THEN e ELSE m
      PROVE  IsGreatest(x, S \cup {e})
  <2>1. x \in Nat /\ x >= m /\ x >= e /\ x \in S \cup {e}
    BY <1>5
  <2>2. \A n \in S : n <= x
    BY <1>5, <2>1
  <2>. QED  BY <2>1, <2>2 DEF IsGreatest
<1>6. IsGreatest(max_va', VaEnds(Q) \cup {EndVa(r)})
  BY <1>1, <1>3, <1>4, <1>5
<1>7. IsGreatest(max_pa', PaEnds(Q) \cup {EndPa(r)})
  BY <1>1, <1>3, <1>4, <1>5
<1>8. IsGreatest(max_va', VaEnds(Q \cup {r})) /\ IsGreatest(max_pa', PaEnds(Q \cup {r}))
  BY <1>2, <1>6, <1>7
<1>. QED  BY <1>8 DEF MaximaOf, IsGreatest, VaEnds, PaEnds, EndVa, EndPa

\* The maximum of the rest is looked for when it was the end of the region that goes.
LEMMA DelistKeeps ==
  ASSUME Ordered, NEW r \in Range(mmap), MaximaOf(Range(mmap)), Delist(r)
  PROVE  Ordered' /\ Range(mmap)' = Range(mmap) \ {r} /\ MaximaOf(Range(mmap))'
<1>1. mmap' = Without(r)
  BY DEF Delist
<1>2. Ordered' /\ Range(mmap)' = Range(mmap) \ {r}
  BY <1>1, WithoutRegion
<1>. DEFINE Q == Range(mmap) \ {r}
<1>3. Range(Without(r)) = Q
  BY <1>1, <1>2
<1>4. /\ max_va' = IF EndVa(r) = max_va THEN Max(VaEnds(Q)) ELSE max_va
      /\ max_pa' = IF EndPa(r) = max_pa THEN Max(PaEnds(Q)) ELSE max_pa
  BY <1>3 DEF Delist, VaEnds, PaEnds
<1>5. /\ VaEnds(Range(mmap)) = VaEnds(Q) \cup {EndVa(r)} /\ 0 \in VaEnds(Q)
      /\ PaEnds(Range(mmap)) = PaEnds(Q) \cup {EndPa(r)} /\ 0 \in PaEnds(Q)
  BY DEF VaEnds, PaEnds
<1>6. VaEnds(Q) \in SUBSET Nat /\ PaEnds(Q) \in SUBSET Nat
  BY RangeOfList, EndsAreNumbers
<1>7. /\ max_va \in VaEnds(Range(mmap)) /\ \A n \in VaEnds(Range(mmap)) : n <= max_va
      /\ max_pa \in PaEnds(Range(mmap)) /\ \A n \in PaEnds(Range(mmap)) : n <= max_pa
  BY DEF MaximaOf, IsGreatest
<1>8. EndVa(r) \in Nat /\ EndPa(r) \in Nat
  BY RangeOfList, RegionFacts
<1>. HIDE DEF Q
<1>9. ASSUME NEW S \in SUBSET Nat, 0 \in S, NEW e \in Nat, NEW m \in S \cup {e}, NEW x,
             \A n \in S \cup {e} : n <= m, x = IF e = m THEN Max(S) ELSE m
      PROVE  IsGreatest(x, S)
  <2>1. CASE e = m
    BY <1>9, <2>1, GreatestExists
  <2>2. CASE e # m
    BY <1>9, <2>2 DEF IsGreatest
  <2>. QED  BY <2>1, <2>2
<1>10. IsGreatest(max_va', VaEnds(Q))
  BY <1>4, <1>5, <1>6, <1>7, <1>8, <1>9
<1>11. IsGreatest(max_pa', PaEnds(Q))
  BY <1>4, <1>5, <1>6, <1>7, <1>8, <1>9
<1>12. Range(mmap)' = Q
  BY <1>2 DEF Q
<1>13. MaximaOf(Range(mmap))'
  BY <1>10, <1>11, <1>12 DEF MaximaOf, IsGreatest, VaEnds, PaEnds, EndVa, EndPa
<1>. QED  BY <1>2, <1>13

LEMMA DynamicStart == InitDynamic => DynamicInv
<1>. SUFFICES ASSUME InitDynamic PROVE DynamicInv
  OBVIOUS
<1>1. mmap = <<>> /\ mmap \in Seq(Regions) /\ DOMAIN mmap = {} /\ Range(mmap) = {}
  BY DEF InitDynamic, Init, Range
<1>2. Ordered
  BY <1>1 DEF Ordered
<1>3. op.name = "none" /\ pc = "add"
  BY DEF InitDynamic, Init, Idle
<1>4. MaximaOf(Counting)
  <2>1. Counting = {} /\ VaEnds({}) = {0} /\ PaEnds({}) = {0}
    BY <1>1, <1>3 DEF Counting, VaEnds, PaEnds
  <2>2. max_va = 0 /\ max_pa = 0
    BY DEF InitDynamic, Init
  <2>. QED  BY <2>1, <2>2 DEF MaximaOf, IsGreatest
<1>5. CallInv
  BY <1>3 DEF CallInv
<1>. QED  BY <1>2, <1>4, <1>5 DEF DynamicInv, InitDynamic, Init

\* What the inequalities of the invariant come to when the list stays.
LEMMA ListStays ==
  ASSUME DynamicInv, UNCHANGED <<mmapVars, dynamic>>, CallInv',
         (op.name = "add") = (op'.name = "add"), op.name = "add" => todo' = todo
  PROVE  DynamicInv'
<1>1. mmap' = mmap /\ max_va' = max_va /\ max_pa' = max_pa /\ calls' = calls /\ dynamic' = dynamic
  BY DEF mmapVars
<1>2. Ordered' /\ Range(mmap)' = Range(mmap)
  BY <1>1 DEF DynamicInv, Ordered, Range, Before, Compatible, Inside, SeparateVa, SeparatePa,
              EndVa, EndPa
<1>3. Counting' = Counting
  BY <1>1, <1>2 DEF Counting, Region
<1>4. MaximaOf(Counting)'
  BY <1>1, <1>3 DEF DynamicInv, MaximaOf, IsGreatest, VaEnds, PaEnds, EndVa, EndPa
<1>. QED  BY <1>1, <1>2, <1>4 DEF DynamicInv

\* A region from the caller that the check allows.
LEMMA AllowedRegion ==
  ASSUME ListInv, NEW arg \in RegionArg, NEW dyn, Allowed(Placed(arg), dyn)
  PROVE  Placed(arg) \in Regions /\ Accepts(Placed(arg))
<1>1. Placed(arg) \in RegionArg
  BY PlacedType
<1>. QED  BY <1>1, AcceptedProper DEF Allowed

LEMMA AddEarlyKeeps ==
  ASSUME DynamicInv, AddEarly
  PROVE  DynamicInv'
<1>1. pc = "add" /\ pc' = pc /\ op' = op /\ todo' = todo /\ calls' = calls + 1 /\ op.name = "none"
  BY DEF AddEarly, DynamicInv, CallInv
<1>2. ListInv
  BY <1>1, ListBetweenCalls
<1>3. PICK arg \in Calls[calls + 1], dyn \in BOOLEAN :
        /\ Allowed(Placed(arg), dyn) /\ Insert(Placed(arg)) /\ Raise(Placed(arg))
        /\ dynamic' = IF dyn THEN dynamic \cup {Placed(arg)} ELSE dynamic
  BY DEF AddEarly
<1>4. PICK r : r = Placed(arg)
  OBVIOUS
<1>5. r \in Regions /\ Accepts(r)
  <2>1. calls + 1 \in 1 .. Len(Calls) /\ Calls \in Seq(SUBSET RegionArg)
    BY XlatAssumption DEF AddEarly, DynamicInv
  <2>2. Calls[calls + 1] \subseteq RegionArg
    BY <2>1
  <2>3. arg \in RegionArg
    BY <2>2
  <2>. QED  BY <1>2, <1>3, <1>4, <2>3, AllowedRegion
<1>6. Ordered' /\ Range(mmap)' = Range(mmap) \cup {r}
  BY <1>2, <1>3, <1>4, <1>5, InsertRegion
<1>7. MaximaOf(Range(mmap))
  BY <1>1 DEF DynamicInv, Counting
<1>. PICK Q \in SUBSET Regions : Q = Range(mmap)
  BY RangeOfList DEF DynamicInv
<1>8. MaximaOf(Q \cup {r})'
  BY <1>3, <1>4, <1>5, <1>7, RaiseKeeps
<1>9. Counting' = Q \cup {r}
  BY <1>1, <1>6 DEF Counting
<1>10. MaximaOf(Counting)'
  BY <1>8, <1>9 DEF MaximaOf, VaEnds, PaEnds
<1>11. dynamic' \subseteq Range(mmap)'
  BY <1>3, <1>4, <1>6 DEF DynamicInv
<1>12. CallInv' /\ calls' \in Nat
  BY <1>1 DEF CallInv, DynamicInv
<1>. QED  BY <1>6, <1>10, <1>11, <1>12 DEF DynamicInv

LEMMA AddDynamicKeeps ==
  ASSUME DynamicInv, AddDynamic
  PROVE  DynamicInv'
<1>1. /\ pc = "done" /\ op.name = "none" /\ op' = [name |-> "add"] /\ calls' = calls
      /\ max_va' = max_va /\ max_pa' = max_pa
  BY DEF AddDynamic, DynamicInv, CallInv
<1>2. ListInv
  BY <1>1, ListBetweenCalls
<1>3. PICK arg \in Requests :
        /\ Allowed(Placed(arg), TRUE) /\ Insert(Placed(arg))
        /\ dynamic' = dynamic \cup {Placed(arg)} /\ Begin(<<Placed(arg)>>)
  BY DEF AddDynamic
<1>4. PICK r : r = Placed(arg)
  OBVIOUS
<1>5. r \in Regions /\ Accepts(r)
  <2>1. arg \in RegionArg
    BY DynamicAssumption
  <2>. QED  BY <1>2, <1>3, <1>4, <2>1, AllowedRegion
<1>6. Ordered' /\ r \notin Range(mmap) /\ Range(mmap)' = Range(mmap) \cup {r}
  BY <1>2, <1>3, <1>4, <1>5, InsertRegion
<1>7. todo' = <<r>> /\ Region' = r /\ pc' = "map"
  BY <1>3, <1>4 DEF Begin, Region
<1>8. Counting' = Range(mmap) /\ Counting = Range(mmap)
  BY <1>1, <1>6, <1>7 DEF Counting
<1>9. MaximaOf(Counting)'
  BY <1>1, <1>8 DEF DynamicInv, MaximaOf, IsGreatest, VaEnds, PaEnds, EndVa, EndPa
<1>10. dynamic' \subseteq Range(mmap)'
  BY <1>3, <1>4, <1>6 DEF DynamicInv
<1>11. CallInv' /\ calls' \in Nat
  BY <1>1, <1>6, <1>7 DEF CallInv, DynamicInv
<1>. QED  BY <1>6, <1>9, <1>10, <1>11 DEF DynamicInv

LEMMA RemoveEarlyKeeps ==
  ASSUME DynamicInv, RemoveEarly
  PROVE  DynamicInv'
<1>1. pc = "add" /\ pc' = pc /\ op' = op /\ todo' = todo /\ calls' = calls /\ op.name = "none"
  BY DEF RemoveEarly, DynamicInv, CallInv
<1>2. PICK r \in dynamic : Delist(r)
  BY DEF RemoveEarly
<1>3. r \in Range(mmap) /\ Ordered /\ MaximaOf(Range(mmap))
  BY <1>1 DEF DynamicInv, Counting
<1>4. Ordered' /\ Range(mmap)' = Range(mmap) \ {r} /\ MaximaOf(Range(mmap))'
  BY <1>2, <1>3, DelistKeeps
<1>5. Counting' = Range(mmap)'
  BY <1>1 DEF Counting
<1>6. MaximaOf(Counting)'
  BY <1>4, <1>5 DEF MaximaOf, VaEnds, PaEnds
<1>7. dynamic' \subseteq Range(mmap)'
  BY <1>2, <1>4 DEF DynamicInv, Delist
<1>8. CallInv' /\ calls' \in Nat
  BY <1>1 DEF CallInv, DynamicInv
<1>. QED  BY <1>4, <1>6, <1>7, <1>8 DEF DynamicInv

\* The other calls leave the list as it is when they begin.
LEMMA CallBeginsKeeps ==
  ASSUME DynamicInv, StartInitDynamic \/ RemoveDynamic \/ StartChange
  PROVE  DynamicInv'
<1>1. op.name = "none" /\ mmap \in Seq(Regions)
  BY DEF StartInitDynamic, RemoveDynamic, StartChange, DynamicInv, CallInv, Ordered
<1>2. UNCHANGED <<mmapVars, dynamic>>
  BY DEF StartInitDynamic, RemoveDynamic, StartChange
<1>3. CASE StartInitDynamic
  <2>1. CASE mmap = <<>>
    <3>1. pc' = "done" /\ op' = Idle
      BY <1>3, <2>1 DEF StartInitDynamic, Begin
    <3>2. CallInv' /\ op'.name # "add"
      BY <3>1 DEF CallInv, Idle
    <3>. QED  BY <1>1, <1>2, <3>2, ListStays
  <2>2. CASE mmap # <<>>
    <3>1. pc' = "map" /\ op' = [name |-> "init"] /\ todo' = mmap
      BY <1>3, <2>2 DEF StartInitDynamic, Begin
    <3>2. CallInv' /\ op'.name # "add"
      BY <1>1, <2>2, <3>1 DEF CallInv
    <3>. QED  BY <1>1, <1>2, <3>2, ListStays
  <2>. QED  BY <2>1, <2>2
<1>4. CASE RemoveDynamic
  <2>1. PICK r \in dynamic : todo' = <<r>>
    BY <1>4 DEF RemoveDynamic
  <2>2. /\ Region' = r /\ r \in Range(mmap) /\ pc' = "unmap" /\ op' = [name |-> "remove"]
        /\ Range(mmap)' = Range(mmap)
    BY <1>2, <1>4, <2>1 DEF RemoveDynamic, Region, DynamicInv, mmapVars, Range
  <2>3. CallInv' /\ op'.name # "add"
    BY <2>1, <2>2 DEF CallInv
  <2>. QED  BY <1>1, <1>2, <2>3, ListStays
<1>5. CASE StartChange
  <2>1. pc' = "break" /\ \E va, pages, attr :
          op' = [name |-> "change", va |-> va, left |-> pages, attr |-> attr, desc |-> Invalid]
    BY <1>5 DEF StartChange
  <2>2. CallInv' /\ op'.name # "add"
    BY <2>1 DEF CallInv
  <2>. QED  BY <1>1, <1>2, <2>2, ListStays
<1>. QED  BY <1>3, <1>4, <1>5

\* The steps of the walk that maps a region, within that walk.
LEMMA WalkKeeps ==
  ASSUME DynamicInv, MapWrite \/ MapCreate \/ MapStops \/ MapRecurse \/ MapGoesOn
  PROVE  DynamicInv'
<1>1. /\ pc \in {"map", "return"} /\ pc' \in {"map", "return"}
      /\ UNCHANGED <<mmapVars, dynamic, todo, op>>
  <2>1. CASE MapWrite
    BY <2>1 DEF MapWrite, WriteEntries, Advance
  <2>2. CASE MapCreate
    BY <2>2 DEF MapCreate, NeedsTable
  <2>3. CASE MapStops
    BY <2>3 DEF MapStops, NeedsTable, dynVars
  <2>4. CASE MapRecurse
    BY <2>4 DEF MapRecurse, RecurseIntoTable
  <2>5. CASE MapGoesOn
    BY <2>5 DEF MapGoesOn, KeepEntry, ReturnWhole, ReturnEarly, Advance, dynVars
  <2>. QED  BY <2>1, <2>2, <2>3, <2>4, <2>5
<1>2. op' = op /\ todo' = todo /\ Region' = Region /\ Range(mmap)' = Range(mmap)
  BY <1>1 DEF Region, mmapVars, Range
<1>3. CallInv'
  BY <1>1, <1>2 DEF DynamicInv, CallInv
<1>. QED  BY <1>1, <1>2, <1>3, ListStays

\* The ends of such a walk.
LEMMA WalkEndsKeeps ==
  ASSUME DynamicInv, InitNext \/ InitFails
  PROVE  DynamicInv'
<1>1. /\ op.name = "init" /\ UNCHANGED <<mmapVars, dynamic>>
      /\ todo \in Seq(Regions) /\ todo # <<>>
  BY DEF InitNext, InitFails, NextRegion, DynamicInv, CallInv, dynVars
<1>2. CASE InitFails
  <2>1. pc' = "panic" /\ op' = op /\ todo' = todo
    BY <1>2 DEF InitFails, dynVars
  <2>2. CallInv'
    BY <1>1, <2>1 DEF CallInv
  <2>. QED  BY <1>1, <2>1, <2>2, ListStays
<1>3. CASE InitNext
  <2>1. /\ todo' = Tail(todo) /\ op' = IF Len(todo) = 1 THEN Idle ELSE op
        /\ pc' = IF Tail(todo) = <<>> THEN "done" ELSE "map"
    BY <1>3 DEF InitNext, NextRegion, Begin
  <2>2. Tail(todo) \in Seq(Regions) /\ Len(todo) \in Nat \ {0} /\ Len(Tail(todo)) = Len(todo) - 1
    BY <1>1
  <2>5. Len(<<>>) = 0 /\ \A s \in Seq(Regions) : s # <<>> => Len(s) # 0
    BY EmptySeq
  <2>3. CASE Len(todo) = 1
    <3>1. Tail(todo) = <<>>
      <4>1. PICK rest \in Seq(Regions) : rest = Tail(todo)
        BY <2>2
      <4>2. Len(rest) = 0
        BY <2>2, <2>3, <4>1
      <4>. QED  BY <2>5, <4>1, <4>2
    <3>2. CallInv' /\ op'.name # "add"
      BY <2>1, <2>3, <3>1 DEF CallInv, Idle
    <3>. QED  BY <1>1, <3>2, ListStays
  <2>4. CASE Len(todo) # 1
    <3>1. Tail(todo) # <<>>
      <4>1. Len(Tail(todo)) # 0
        BY <2>2, <2>4
      <4>. QED  BY <2>5, <4>1
    <3>2. CallInv' /\ op'.name # "add"
      BY <1>1, <2>1, <2>2, <2>4, <3>1 DEF CallInv
    <3>. QED  BY <1>1, <3>2, ListStays
  <2>. QED  BY <2>3, <2>4
<1>. QED  BY <1>2, <1>3

\* An addition ends: the region is taken into the maxima, or off the list.
LEMMA AddEndsKeeps ==
  ASSUME DynamicInv, AddDone \/ AddFails
  PROVE  DynamicInv'
<1>1. /\ op.name = "add" /\ Region \in Range(mmap) /\ Ordered /\ calls' = calls
      /\ MaximaOf(Range(mmap) \ {Region}) /\ Range(mmap) \in SUBSET Regions
  <2>1. op.name = "add" /\ calls' = calls
    <3>1. CASE AddDone
      BY <3>1 DEF AddDone, WalkOver
    <3>2. CASE AddFails
      BY <3>2 DEF AddFails, WalkOver
    <3>. QED  BY <3>1, <3>2
  <2>2. Ordered /\ Region \in Range(mmap) /\ Counting = Range(mmap) \ {Region}
    BY <2>1 DEF DynamicInv, CallInv, Counting
  <2>. QED  BY <2>1, <2>2, RangeOfList DEF DynamicInv
<1>2. CASE AddDone
  <2>1. /\ pc' = "done" /\ op' = Idle /\ mmap' = mmap /\ dynamic' = dynamic /\ Raise(Region)
    BY <1>2 DEF AddDone
  <2>. PICK r \in Regions : r = Region
    BY <1>1
  <2>. PICK Q \in SUBSET Regions : Q = Range(mmap) \ {Region}
    BY <1>1
  <2>2. MaximaOf(Q \cup {r})'
    BY <1>1, <2>1, RaiseKeeps
  <2>3. Counting' = Q \cup {r} /\ Range(mmap)' = Range(mmap)
    <3>1. Range(mmap)' = Range(mmap)
      BY <2>1 DEF Range
    <3>2. op'.name # "add"
      BY <2>1 DEF Idle
    <3>. QED  BY <1>1, <3>1, <3>2 DEF Counting
  <2>4. MaximaOf(Counting)'
    BY <2>2, <2>3 DEF MaximaOf, VaEnds, PaEnds
  <2>5. Ordered'
    BY <1>1, <2>1 DEF Ordered, Before, Compatible, Inside, SeparateVa, SeparatePa, EndVa, EndPa
  <2>6. CallInv'
    BY <2>1 DEF CallInv, Idle
  <2>. QED  BY <1>1, <2>1, <2>3, <2>4, <2>5, <2>6 DEF DynamicInv
<1>3. CASE AddFails
  <2>1. /\ mmap' = Without(Region) /\ dynamic' = dynamic \ {Region}
        /\ max_va' = max_va /\ max_pa' = max_pa
    BY <1>3 DEF AddFails
  <2>2. \/ pc' = "done" /\ op' = Idle
        \/ pc' = "unmap" /\ op' = [name |-> "undo"]
    BY <1>3 DEF AddFails, Undo
  <2>3. Ordered' /\ Range(mmap)' = Range(mmap) \ {Region}
    BY <1>1, <2>1, WithoutRegion
  <2>4. CallInv' /\ op'.name # "add"
    BY <2>2 DEF CallInv, Idle
  <2>5. Counting' = Range(mmap) \ {Region}
    BY <2>3, <2>4 DEF Counting
  <2>6. MaximaOf(Counting)'
    BY <1>1, <2>1, <2>5 DEF MaximaOf, IsGreatest, VaEnds, PaEnds, EndVa, EndPa
  <2>. QED  BY <1>1, <2>1, <2>3, <2>4, <2>6 DEF DynamicInv
<1>. QED  BY <1>2, <1>3

LEMMA UnmappingKeeps ==
  ASSUME DynamicInv, Unmapping
  PROVE  DynamicInv'
<1>1. CASE UnmapEntry \/ UnmapRecurse \/ UnmapReturn
  <2>1. /\ pc \in {"unmap", "unmapped"} /\ pc' \in {"unmap", "unmapped"}
        /\ UNCHANGED <<mmapVars, dynamic, todo, op>>
    <3>1. CASE UnmapEntry
      BY <3>1 DEF UnmapEntry, Onward
    <3>2. CASE UnmapRecurse
      BY <3>2 DEF UnmapRecurse, dynVars
    <3>3. CASE UnmapReturn
      BY <3>3 DEF UnmapReturn, Onward
    <3>. QED  BY <1>1, <3>1, <3>2, <3>3
  <2>2. op' = op /\ todo' = todo /\ Region' = Region /\ Range(mmap)' = Range(mmap)
    BY <2>1 DEF Region, mmapVars, Range
  <2>3. CallInv'
    BY <2>1, <2>2 DEF DynamicInv, CallInv
  <2>. QED  BY <2>1, <2>2, <2>3, ListStays
<1>2. CASE UnmapDone
  <2>1. /\ pc = "unmapped" /\ pc' = "done" /\ op' = Idle /\ calls' = calls
        /\ op.name \in {"remove", "undo"}
    BY <1>2 DEF UnmapDone, DynamicInv, CallInv
  <2>2. CallInv' /\ op'.name # "add" /\ op.name # "add"
    BY <2>1 DEF CallInv, Idle
  <2>3. CASE op.name = "remove"
    <3>1. Delist(Region) /\ Region \in Range(mmap) /\ Ordered /\ MaximaOf(Range(mmap))
      BY <1>2, <2>2, <2>3 DEF UnmapDone, DynamicInv, CallInv, Counting
    <3>2. Ordered' /\ Range(mmap)' = Range(mmap) \ {Region} /\ MaximaOf(Range(mmap))'
      BY <3>1, DelistKeeps
    <3>3. Counting' = Range(mmap)'
      BY <2>2 DEF Counting
    <3>4. MaximaOf(Counting)'
      BY <3>2, <3>3 DEF MaximaOf, VaEnds, PaEnds
    <3>5. dynamic' \subseteq Range(mmap)'
      BY <3>1, <3>2 DEF DynamicInv, Delist
    <3>. QED  BY <2>1, <2>2, <3>2, <3>4, <3>5 DEF DynamicInv
  <2>4. CASE op.name # "remove"
    <3>1. UNCHANGED <<mmapVars, dynamic>>
      BY <1>2, <2>4 DEF UnmapDone, mmapVars
    <3>. QED  BY <2>2, <3>1, ListStays
  <2>. QED  BY <2>3, <2>4
<1>. QED  BY <1>1, <1>2 DEF Unmapping

LEMMA ChangingKeeps ==
  ASSUME DynamicInv, Changing
  PROVE  DynamicInv'
<1>1. op.name = "change" /\ UNCHANGED <<mmapVars, dynamic>>
  BY DEF Changing, BreakPage, MakePage, DynamicInv, CallInv
<1>2. op = [name |-> "change", va |-> op.va, left |-> op.left, attr |-> op.attr, desc |-> op.desc]
  BY <1>1 DEF DynamicInv, CallInv
<1>5. PICK a, b, c, e : op = [name |-> "change", va |-> a, left |-> b, attr |-> c, desc |-> e]
  BY <1>2
<1>3. CASE BreakPage
  <2>1. pc' = "make" /\ \E d, n : op' = [op EXCEPT !.desc = d, !.left = n]
    BY <1>3 DEF BreakPage
  <2>2. PICK d, n : op' = [op EXCEPT !.desc = d, !.left = n]
    BY <2>1
  <2>3. op' = [name |-> "change", va |-> a, left |-> n, attr |-> c, desc |-> d]
    BY <1>5, <2>2
  <2>4. CallInv' /\ op'.name # "add"
    BY <2>1, <2>3 DEF CallInv
  <2>. QED  BY <1>1, <2>4, ListStays
<1>4. CASE MakePage
  <2>1. \/ op' = Idle /\ pc' = "done"
        \/ pc' = "break" /\ \E va : op' = [op EXCEPT !.va = va]
    BY <1>4 DEF MakePage
  <2>2. CASE op' = Idle /\ pc' = "done"
    <3>1. CallInv' /\ op'.name # "add"
      BY <2>2 DEF CallInv, Idle
    <3>. QED  BY <1>1, <3>1, ListStays
  <2>3. ASSUME pc' = "break", NEW v, op' = [op EXCEPT !.va = v] PROVE DynamicInv'
    <3>1. op' = [name |-> "change", va |-> v, left |-> b, attr |-> c, desc |-> e]
      BY <1>5, <2>3
    <3>2. CallInv' /\ op'.name # "add"
      <4>1. pc' = "break"
        BY <2>3
      <4>. QED  BY <3>1, <4>1 DEF CallInv
    <3>. QED  BY <1>1, <3>2, ListStays
  <2>. QED  BY <2>1, <2>2, <2>3
<1>. QED  BY <1>3, <1>4 DEF Changing

LEMMA DynamicStep ==
  ASSUME DynamicInv, [NextDynamic]_dynAllVars
  PROVE  DynamicInv'
<1>1. CASE CallStarts
  BY <1>1, AddEarlyKeeps, RemoveEarlyKeeps, AddDynamicKeeps, CallBeginsKeeps DEF CallStarts
<1>2. CASE Mapping
  BY <1>2, WalkKeeps, WalkEndsKeeps, AddEndsKeeps DEF Mapping
<1>3. CASE UNCHANGED dynAllVars
  <2>1. UNCHANGED <<mmapVars, dynamic, op, todo, pc>>
    BY <1>3 DEF dynAllVars, vars, dynVars
  <2>2. CallInv'
    BY <2>1 DEF DynamicInv, CallInv, Region, mmapVars, Range
  <2>. QED  BY <2>1, <2>2, ListStays
<1>. QED  BY <1>1, <1>2, <1>3, UnmappingKeeps, ChangingKeeps DEF NextDynamic

\* Whatever regions are added, removed or refused in whatever order, also when
\* an addition runs out of tables and is undone, the list stays sorted and nested or
\* apart, and its maxima are the ends of regions in it, no higher and no lower.
THEOREM DynamicListExact == SpecDynamic => []ListExact
<1>1. InitDynamic => DynamicInv
  BY DynamicStart
<1>2. DynamicInv /\ [NextDynamic]_dynAllVars => DynamicInv'
  BY DynamicStep
<1>3. DynamicInv => ListExact
  <2>. SUFFICES ASSUME DynamicInv, pc = "done" PROVE ListExact
    BY DEF ListExact
  <2>1. op.name # "add" /\ Counting = Range(mmap) /\ Ordered
    BY DEF DynamicInv, CallInv, Counting
  <2>2. ListConsistent
    BY <2>1, ListBetweenCalls DEF ListInv
  <2>3. max_va = Max(VaEnds(Range(mmap))) /\ max_pa = Max(PaEnds(Range(mmap)))
    BY <2>1, RangeOfList, EndsAreNumbers, GreatestIsMax DEF DynamicInv, MaximaOf
  <2>. QED  BY <2>2, <2>3 DEF ListExact, VaEnds, PaEnds
<1>. QED  BY <1>1, <1>2, <1>3, PTL DEF SpecDynamic
=============================================================================
