-------------------------- MODULE XlatTablesProofs ---------------------------
(***************************************************************************)
(* Proofs about XlatTables, for every size of the address space, of the    *)
(* tables and of the list, and whatever regions are added: the list is in  *)
(* order, the tables are never overwritten, and they say what the list says.*)
(***************************************************************************)
EXTENDS XlatTables, SequenceTheorems, FiniteSetTheorems, DivisionFacts, TLAPS

\* A region that has passed the check: pages, not empty, and it does not wrap around.
Proper(r) ==
  /\ r \in RegionArg /\ r.size # 0
  /\ r.va % PageSize = 0 /\ r.pa % PageSize = 0 /\ r.size % PageSize = 0
  /\ EndVa(r) = r.va + r.size - 1 /\ EndPa(r) = r.pa + r.size - 1
  /\ EndVa(r) <= VaMax

Before(a, b) ==
  \/ EndVa(a) < EndVa(b)
  \/ EndVa(a) = EndVa(b) /\ a.size < b.size

Regions == {r \in RegionArg : Proper(r)}

\* The list, its order and its maxima.
ListInv ==
  /\ calls \in Nat /\ mmap \in Seq(Regions) /\ max_va \in Nat /\ max_pa \in Nat
  /\ ListConsistent

\* The shape of the tables, and that nothing is in them before the beginning.
TablesInv ==
  /\ DOMAIN tables = TableIds
  /\ \A t \in TableIds : DOMAIN tables[t] = Indexes(t)
  /\ pc = "add" => \A t \in TableIds : \A i \in Indexes(t) : tables[t][i] \in {Invalid, Garbage}

Inv == ListInv /\ TablesInv

-----------------------------------------------------------------------------
(* Arithmetic of regions.                                                    *)

LEMMA WordPositive == Word \in Nat \ {0} /\ PageSize \in Nat \ {0}
  BY XlatAssumption

\* A number below the word, or one that wraps around it once.
LEMMA WrapOnce ==
  ASSUME NEW x \in 0 .. Word - 1, NEW n \in 1 .. Word - 1, x <= (x + n - 1) % Word
  PROVE  (x + n - 1) % Word = x + n - 1
<1>1. CASE x + n - 1 < Word
  BY <1>1, WordPositive
<1>2. CASE x + n - 1 >= Word
  <2>1. (x + n - 1) % Word = x + n - 1 - Word
    BY <1>2, WordPositive
  <2>. QED  BY <2>1, <1>2, WordPositive
<1>. QED  BY <1>1, <1>2, WordPositive

LEMMA BlockPositive == \A l \in 0 .. 3 : BlockSize(l) \in Nat \ {0}
<1>1. Entries \in Nat /\ Entries >= 1 /\ PageSize \in Nat /\ PageSize >= 1
  BY XlatAssumption
<1>2. Entries * Entries \in Nat /\ Entries * Entries >= 1
  BY <1>1
<1>3. Entries * Entries * Entries \in Nat /\ Entries * Entries * Entries >= 1
  BY <1>1, <1>2
<1>4. \A n \in Nat : n >= 1 => PageSize * n \in Nat /\ PageSize * n >= 1
  BY <1>1
<1>5. BlockSize(0) = PageSize * (Entries * Entries * Entries)
  BY DEF BlockSize
<1>6. BlockSize(1) = PageSize * (Entries * Entries)
  BY DEF BlockSize
<1>7. BlockSize(2) = PageSize * Entries /\ BlockSize(3) = PageSize * 1
  BY DEF BlockSize
<1>8. \A l \in {0, 1, 2, 3} : BlockSize(l) \in Nat /\ BlockSize(l) >= 1
  BY <1>1, <1>2, <1>3, <1>4, <1>5, <1>6, <1>7
<1>9. 0 .. 3 = {0, 1, 2, 3}
  OBVIOUS
<1>. QED  BY <1>8, <1>9

\* The address that is chosen for a region is an address.
LEMMA PlacedType ==
  ASSUME ListInv, NEW arg \in RegionArg
  PROVE  Placed(arg) \in RegionArg
<1>. DEFINE fits == {l \in BaseLevel .. 2 : arg.pa % BlockSize(l) = 0
                                         /\ arg.size % BlockSize(l) = 0}
            first == CHOOSE l \in fits : \A k \in fits : l <= k
            up(b) == ((max_va + b) \div b) * b
            free == IF fits = {} THEN max_va + 1 ELSE up(BlockSize(first))
<1>1. max_va \in Nat
  BY DEF ListInv
<1>2. free \in Int
  <2>1. CASE fits = {}
    BY <2>1, <1>1
  <2>2. CASE fits # {}
    <3>1. \E l \in fits : \A k \in fits : l <= k
      <4>1. fits \subseteq {0, 1, 2}
        BY XlatAssumption
      <4>. HIDE DEF fits
      <4>2. CASE 0 \in fits
        BY <4>1, <4>2
      <4>3. CASE 0 \notin fits /\ 1 \in fits
        BY <4>1, <4>3
      <4>4. CASE 0 \notin fits /\ 1 \notin fits
        <5>1. \A l \in fits : l = 2
          BY <4>1, <4>4
        <5>2. PICK l \in fits : TRUE
          BY <2>2
        <5>. QED  BY <5>1, <5>2
      <4>. QED  BY <4>2, <4>3, <4>4
    <3>2. first \in fits
      BY <3>1
    <3>3. first \in 0 .. 3
      BY <3>2, XlatAssumption
    <3>4. BlockSize(first) \in Nat \ {0}
      BY <3>3, BlockPositive
    <3>5. up(BlockSize(first)) \in Int
      <4>. HIDE DEF first
      <4>. QED  BY <3>4, <1>1
    <3>. QED  BY <3>5, <2>2
  <2>. QED  BY <2>1, <2>2
<1>3. AllocVa(arg) = free % Word
  BY DEF AllocVa
<1>4. AllocVa(arg) \in 0 .. Word - 1
  <2>. HIDE DEF free
  <2>. QED  BY <1>2, <1>3, WordPositive
<1>5. (IF arg.alloc THEN AllocVa(arg) ELSE arg.va) \in 0 .. Word - 1
  BY <1>4 DEF RegionArg
<1>. QED  BY <1>5 DEF Placed, RegionArg

LEMMA AcceptedProper ==
  ASSUME NEW r \in RegionArg, r.size # 0, Accepts(r)
  PROVE  r \in Regions
<1>1. r.va \in 0 .. Word - 1 /\ r.pa \in 0 .. Word - 1 /\ r.size \in 1 .. Word - 1
  BY WordPositive DEF RegionArg
<1>2. EndVa(r) = r.va + r.size - 1
  BY <1>1, WrapOnce DEF Accepts, EndVa
<1>3. EndPa(r) = r.pa + r.size - 1
  BY <1>1, WrapOnce DEF Accepts, EndPa
<1>. QED  BY <1>2, <1>3 DEF Regions, Proper, Accepts

\* What the order needs to know of a region.
LEMMA RegionFacts ==
  ASSUME NEW r \in Regions
  PROVE  /\ r.va \in Nat /\ r.pa \in Nat /\ r.size \in Nat \ {0}
         /\ EndVa(r) = r.va + r.size - 1 /\ EndVa(r) \in Nat
         /\ EndPa(r) = r.pa + r.size - 1 /\ EndPa(r) \in Nat
  BY WordPositive DEF Regions, Proper, RegionArg

LEMMA CompatibleSymmetric ==
  ASSUME NEW a \in Regions, NEW b \in Regions, Compatible(a, b)
  PROVE  Compatible(b, a)
<1>1. SeparateVa(a, b) => SeparateVa(b, a)
  BY RegionFacts DEF SeparateVa
<1>2. SeparatePa(a, b) => SeparatePa(b, a)
  BY RegionFacts DEF SeparatePa
<1>. QED  BY <1>1, <1>2, Zenon DEF Compatible

\* Two different regions of the list do not end and begin at the same address.
LEMMA NeverEqual ==
  ASSUME NEW a \in Regions, NEW b \in Regions, Compatible(a, b)
  PROVE  ~(EndVa(a) = EndVa(b) /\ a.size = b.size)
<1>. SUFFICES ASSUME EndVa(a) = EndVa(b), a.size = b.size PROVE FALSE
  OBVIOUS
<1>1. a.va = b.va
  BY RegionFacts
<1>2. Inside(a, b)
  BY <1>1, RegionFacts DEF Inside
<1>. QED  BY <1>1, <1>2 DEF Compatible

LEMMA BeforeTransitive ==
  ASSUME NEW a \in Regions, NEW b \in Regions, NEW c \in Regions, Before(a, b), Before(b, c)
  PROVE  Before(a, c)
<1>1. /\ EndVa(a) \in Nat /\ EndVa(b) \in Nat /\ EndVa(c) \in Nat
      /\ a.size \in Nat /\ b.size \in Nat /\ c.size \in Nat
  BY RegionFacts
<1>. QED  BY <1>1 DEF Before

-----------------------------------------------------------------------------
(* Insertion.                                                                *)

LEMMA InsertAtFacts ==
  ASSUME NEW S, NEW s \in Seq(S), NEW k \in 1 .. Len(s) + 1, NEW e \in S
  PROVE  /\ InsertAt(s, k, e) \in Seq(S)
         /\ Len(InsertAt(s, k, e)) = Len(s) + 1
         /\ \A i \in 1 .. Len(s) + 1 :
              InsertAt(s, k, e)[i] = IF i < k THEN s[i] ELSE IF i = k THEN e ELSE s[i - 1]
<1>. DEFINE a == SubSeq(s, 1, k - 1)
            b == SubSeq(s, k, Len(s))
            ae == a \o <<e>>
<1>1. a \in Seq(S) /\ Len(a) = k - 1 /\ \A i \in 1 .. k - 1 : a[i] = s[i]
  <2>1. \A i \in 1 .. k - 1 : s[i] \in S
    OBVIOUS
  <2>. QED  BY <2>1, SubSeqProperties
<1>2. b \in Seq(S) /\ Len(b) = Len(s) - k + 1
        /\ \A i \in 1 .. Len(s) - k + 1 : b[i] = s[k + i - 1]
  <2>1. \A i \in k .. Len(s) : s[i] \in S
    OBVIOUS
  <2>. QED  BY <2>1, SubSeqProperties
<1>. HIDE DEF a, b
<1>3. ae \in Seq(S) /\ Len(ae) = k
        /\ \A i \in 1 .. k : ae[i] = IF i <= k - 1 THEN a[i] ELSE <<e>>[i - (k - 1)]
  <2>1. <<e>> \in Seq(S) /\ Len(<<e>>) = 1
    OBVIOUS
  <2>. QED  BY <1>1, <2>1, ConcatProperties
<1>4. \A i \in 1 .. k : ae[i] = IF i < k THEN s[i] ELSE e
  BY <1>1, <1>3
<1>. HIDE DEF ae
<1>5. ae \o b \in Seq(S) /\ Len(ae \o b) = Len(s) + 1
        /\ \A i \in 1 .. Len(s) + 1 : (ae \o b)[i] = IF i <= k THEN ae[i] ELSE b[i - k]
  <2>1. ae \in Seq(S) /\ b \in Seq(S) /\ Len(ae) = k
    BY <1>2, <1>3
  <2>2. /\ ae \o b \in Seq(S) /\ Len(ae \o b) = Len(ae) + Len(b)
        /\ \A i \in 1 .. Len(ae) + Len(b) :
             (ae \o b)[i] = IF i <= Len(ae) THEN ae[i] ELSE b[i - Len(ae)]
    BY <2>1, ConcatProperties, Zenon
  <2>3. Len(ae) + Len(b) = Len(s) + 1
    BY <2>1, <1>2
  <2>. QED  BY <2>1, <2>2, <2>3
<1>6. \A i \in 1 .. Len(s) + 1 :
        (ae \o b)[i] = IF i < k THEN s[i] ELSE IF i = k THEN e ELSE s[i - 1]
  BY <1>2, <1>4, <1>5
<1>7. InsertAt(s, k, e) = ae \o b
  BY DEF InsertAt, a, b, ae
<1>. QED  BY <1>5, <1>6, <1>7

\* The place the loops find is behind the regions that come before the new one,
\* and in front of those that come after it.
LEMMA PlaceInOrder ==
  ASSUME ListInv, NEW r \in Regions, NEW k \in Places(r),
         \A i \in DOMAIN mmap : Compatible(r, mmap[i])
  PROVE  /\ k \in 1 .. Len(mmap) + 1
         /\ \A i \in 1 .. k - 1 : Before(mmap[i], r)
         /\ \A i \in k .. Len(mmap) : Before(r, mmap[i])
<1>1. k \in 1 .. Len(mmap) + 1 /\ Len(mmap) \in Nat /\ DOMAIN mmap = 1 .. Len(mmap)
  BY DEF Places, ListInv
<1>2. \A i \in 1 .. Len(mmap) : mmap[i] \in Regions
  BY <1>1 DEF ListInv
<1>3. PICK m \in 1 .. k :
        /\ \A j \in 1 .. m - 1 : EndVa(mmap[j]) < EndVa(r)
        /\ m <= Len(mmap) => EndVa(mmap[m]) >= EndVa(r)
        /\ \A j \in m .. k - 1 : EndVa(mmap[j]) = EndVa(r) /\ mmap[j].size < r.size
        /\ k <= Len(mmap) => EndVa(mmap[k]) # EndVa(r) \/ mmap[k].size >= r.size
  BY DEF Places
<1>4. \A i, j \in 1 .. Len(mmap) : i < j => Before(mmap[i], mmap[j])
  BY <1>1 DEF ListInv, ListConsistent, Before
<1>5. ASSUME NEW i \in 1 .. k - 1 PROVE Before(mmap[i], r)
  BY <1>1, <1>3 DEF Before
<1>6. ASSUME k <= Len(mmap) PROVE Before(r, mmap[k])
  <2>1. k \in 1 .. Len(mmap) /\ mmap[k] \in Regions /\ Compatible(r, mmap[k])
    BY <1>1, <1>2, <1>6
  <2>2. EndVa(mmap[k]) >= EndVa(r)
    <3>1. CASE m = k
      BY <3>1, <1>3, <1>6
    <3>2. CASE m < k
      <4>1. m \in 1 .. Len(mmap) /\ m \in m .. k - 1
        BY <3>2, <1>1, <1>3
      <4>2. EndVa(mmap[m]) = EndVa(r)
        BY <4>1, <1>3
      <4>3. Before(mmap[m], mmap[k])
        BY <4>1, <2>1, <3>2, <1>4
      <4>4. mmap[m] \in Regions
        BY <4>1, <1>2
      <4>. QED  BY <4>2, <4>3, <4>4, <2>1, RegionFacts DEF Before
    <3>. QED  BY <3>1, <3>2, <1>1
  <2>3. ~(EndVa(r) = EndVa(mmap[k]) /\ r.size = mmap[k].size)
    BY <2>1, NeverEqual
  <2>. QED  BY <2>1, <2>2, <2>3, <1>3, <1>6, RegionFacts DEF Before
<1>7. ASSUME NEW i \in k .. Len(mmap) PROVE Before(r, mmap[i])
  <2>1. CASE i = k
    BY <2>1, <1>6, <1>1
  <2>2. CASE i > k
    <3>1. Before(r, mmap[k]) /\ Before(mmap[k], mmap[i])
      BY <2>2, <1>1, <1>4, <1>6
    <3>2. mmap[k] \in Regions /\ mmap[i] \in Regions
      BY <2>2, <1>1, <1>2
    <3>. QED  BY <3>1, <3>2, BeforeTransitive, <1>2
  <2>. QED  BY <2>1, <2>2, <1>1
<1>. QED  BY <1>1, <1>5, <1>7

\* Inserting keeps the list in order, and the list has one more region then.
LEMMA InsertInOrder ==
  ASSUME ListInv, NEW r \in Regions, \A i \in DOMAIN mmap : Compatible(r, mmap[i]), Insert(r)
  PROVE  /\ mmap' \in Seq(Regions) /\ Len(mmap') = Len(mmap) + 1
         /\ DOMAIN mmap = 1 .. Len(mmap) /\ DOMAIN mmap' = 1 .. Len(mmap) + 1
         /\ \E k \in 1 .. Len(mmap) + 1 : \A i \in 1 .. Len(mmap) + 1 :
              mmap'[i] = IF i < k THEN mmap[i] ELSE IF i = k THEN r ELSE mmap[i - 1]
         /\ \A i, j \in 1 .. Len(mmap) + 1 : i < j =>
              Before(mmap'[i], mmap'[j]) /\ Compatible(mmap'[i], mmap'[j])
<1>2. r \in Regions
  OBVIOUS
<1>3. \A i \in DOMAIN mmap : Compatible(r, mmap[i])
  OBVIOUS
<1>4. PICK k \in Places(r) : mmap' = InsertAt(mmap, k, r)
  BY DEF Insert
<1>6. /\ k \in 1 .. Len(mmap) + 1
      /\ \A i \in 1 .. k - 1 : Before(mmap[i], r)
      /\ \A i \in k .. Len(mmap) : Before(r, mmap[i])
  BY <1>2, <1>3, <1>4, PlaceInOrder
<1>7. /\ mmap' \in Seq(Regions) /\ Len(mmap') = Len(mmap) + 1
      /\ \A i \in 1 .. Len(mmap) + 1 :
           mmap'[i] = IF i < k THEN mmap[i] ELSE IF i = k THEN r ELSE mmap[i - 1]
  <2>1. mmap \in Seq(Regions) /\ k \in 1 .. Len(mmap) + 1 /\ r \in Regions
    BY <1>2, <1>6 DEF ListInv
  <2>2. /\ InsertAt(mmap, k, r) \in Seq(Regions) /\ Len(InsertAt(mmap, k, r)) = Len(mmap) + 1
        /\ \A i \in 1 .. Len(mmap) + 1 :
             InsertAt(mmap, k, r)[i] = IF i < k THEN mmap[i] ELSE IF i = k THEN r ELSE mmap[i - 1]
    BY <2>1, InsertAtFacts
  <2>3. mmap' = InsertAt(mmap, k, r)
    BY <1>4
  <2>. QED  BY <2>2, <2>3
<1>8. Len(mmap) \in Nat /\ DOMAIN mmap = 1 .. Len(mmap)
        /\ DOMAIN mmap' = 1 .. Len(mmap) + 1
  BY <1>7 DEF ListInv
<1>9. \A i \in 1 .. Len(mmap) : mmap[i] \in Regions
  BY DEF ListInv
<1>10. \A i, j \in 1 .. Len(mmap) : i < j =>
         Before(mmap[i], mmap[j]) /\ Compatible(mmap[i], mmap[j])
  BY <1>8 DEF ListInv, ListConsistent, Before
<1>11. ASSUME NEW i \in 1 .. Len(mmap) + 1, NEW j \in 1 .. Len(mmap) + 1, i < j
       PROVE  Before(mmap'[i], mmap'[j]) /\ Compatible(mmap'[i], mmap'[j])
  <2>1. CASE j < k
    <3>1. mmap'[i] = mmap[i] /\ mmap'[j] = mmap[j] /\ i \in 1 .. Len(mmap) /\ j \in 1 .. Len(mmap)
      BY <2>1, <1>6, <1>7, <1>8, <1>11
    <3>. QED  BY <3>1, <1>10, <1>11
  <2>2. CASE j = k
    <3>1. mmap'[i] = mmap[i] /\ mmap'[j] = r /\ i \in 1 .. k - 1 /\ i \in 1 .. Len(mmap)
      BY <2>2, <1>6, <1>7, <1>8, <1>11
    <3>2. Compatible(mmap[i], r)
      BY <3>1, <1>2, <1>3, <1>8, <1>9, CompatibleSymmetric
    <3>. QED  BY <3>1, <3>2, <1>6
  <2>3. CASE i < k /\ j > k
    <3>1. /\ mmap'[i] = mmap[i] /\ mmap'[j] = mmap[j - 1] /\ i \in 1 .. Len(mmap)
          /\ j - 1 \in 1 .. Len(mmap) /\ i < j - 1
      BY <2>3, <1>6, <1>7, <1>8
    <3>. QED  BY <3>1, <1>10
  <2>4. CASE i = k
    <3>1. /\ mmap'[i] = r /\ mmap'[j] = mmap[j - 1]
          /\ j - 1 \in k .. Len(mmap) /\ j - 1 \in 1 .. Len(mmap)
      BY <2>4, <1>6, <1>7, <1>8, <1>11
    <3>. QED  BY <3>1, <1>3, <1>6, <1>8
  <2>5. CASE i > k
    <3>1. /\ mmap'[i] = mmap[i - 1] /\ mmap'[j] = mmap[j - 1]
          /\ i - 1 \in 1 .. Len(mmap) /\ j - 1 \in 1 .. Len(mmap) /\ i - 1 < j - 1
      BY <2>5, <1>6, <1>7, <1>8, <1>11
    <3>. QED  BY <3>1, <1>10
  <2>. QED  BY <2>1, <2>2, <2>3, <2>4, <2>5, <1>6
<1>. QED  BY <1>6, <1>7, <1>8, <1>11

\* Adding a region keeps the list in order.
LEMMA AddKeepsList ==
  ASSUME ListInv, AddRegion
  PROVE  ListInv'
<1>1. PICK arg \in Calls[calls + 1] :
        LET r == Placed(arg)
        IN /\ r.size # 0 /\ Accepts(r) /\ Insert(r)
           /\ max_va' = IF EndVa(r) > max_va THEN EndVa(r) ELSE max_va
           /\ max_pa' = IF EndPa(r) > max_pa THEN EndPa(r) ELSE max_pa
  BY DEF AddRegion, Raise
<1>. DEFINE r == Placed(arg)
<1>2. r \in Regions
  <2>1. calls + 1 \in 1 .. Len(Calls) /\ Calls \in Seq(SUBSET RegionArg)
    BY XlatAssumption DEF AddRegion, ListInv
  <2>2. Calls[calls + 1] \subseteq RegionArg
    BY <2>1
  <2>3. arg \in RegionArg
    BY <2>2
  <2>. QED  BY <1>1, <2>3, PlacedType, AcceptedProper
<1>3. (\A i \in DOMAIN mmap : Compatible(r, mmap[i])) /\ Insert(r)
  BY <1>1 DEF Accepts
<1>5. /\ max_va' = IF EndVa(r) > max_va THEN EndVa(r) ELSE max_va
      /\ max_pa' = IF EndPa(r) > max_pa THEN EndPa(r) ELSE max_pa
  BY <1>1
<1>. HIDE DEF r
<1>6. /\ mmap' \in Seq(Regions) /\ Len(mmap') = Len(mmap) + 1
      /\ DOMAIN mmap = 1 .. Len(mmap) /\ DOMAIN mmap' = 1 .. Len(mmap) + 1
      /\ \A i, j \in 1 .. Len(mmap) + 1 : i < j =>
           Before(mmap'[i], mmap'[j]) /\ Compatible(mmap'[i], mmap'[j])
  BY <1>2, <1>3, InsertInOrder
<1>7. PICK k \in 1 .. Len(mmap) + 1 : \A i \in 1 .. Len(mmap) + 1 :
        mmap'[i] = IF i < k THEN mmap[i] ELSE IF i = k THEN r ELSE mmap[i - 1]
  BY <1>2, <1>3, InsertInOrder
<1>8. Len(mmap) \in Nat /\ \A i \in 1 .. Len(mmap) : mmap[i] \in Regions
  BY <1>6 DEF ListInv
<1>12. /\ max_va \in Nat /\ max_pa \in Nat
       /\ \A i \in 1 .. Len(mmap) : EndVa(mmap[i]) <= max_va /\ EndPa(mmap[i]) <= max_pa
  BY <1>6 DEF ListInv, ListConsistent
<1>13. /\ max_va' \in Nat /\ max_pa' \in Nat
       /\ max_va' >= max_va /\ max_pa' >= max_pa
       /\ EndVa(r) <= max_va' /\ EndPa(r) <= max_pa'
  BY <1>2, <1>5, <1>12, RegionFacts
<1>14. ASSUME NEW i \in 1 .. Len(mmap) + 1
       PROVE  EndVa(mmap'[i]) <= max_va' /\ EndPa(mmap'[i]) <= max_pa'
  <2>1. CASE i = k
    BY <2>1, <1>7, <1>13
  <2>2. ASSUME NEW j \in 1 .. Len(mmap), mmap'[i] = mmap[j]
        PROVE  EndVa(mmap'[i]) <= max_va' /\ EndPa(mmap'[i]) <= max_pa'
    BY <2>2, <1>8, <1>12, <1>13, RegionFacts
  <2>3. CASE i < k
    BY <2>2, <2>3, <1>6, <1>7, <1>8
  <2>4. CASE i > k
    <3>1. i - 1 \in 1 .. Len(mmap) /\ mmap'[i] = mmap[i - 1]
      BY <2>4, <1>6, <1>7, <1>8
    <3>. QED  BY <3>1, <2>2
  <2>. QED  BY <2>1, <2>3, <2>4, <1>6
<1>15. calls' \in Nat
  BY DEF AddRegion, ListInv
<1>16. \A i, j \in DOMAIN mmap' : i < j =>
         /\ \/ EndVa(mmap'[i]) < EndVa(mmap'[j])
            \/ EndVa(mmap'[i]) = EndVa(mmap'[j]) /\ mmap'[i].size < mmap'[j].size
         /\ Compatible(mmap'[i], mmap'[j])
  BY <1>6 DEF Before
<1>17. \A i \in DOMAIN mmap' : EndVa(mmap'[i]) <= max_va' /\ EndPa(mmap'[i]) <= max_pa'
  BY <1>6, <1>14
<1>18. ListConsistent'
  BY <1>16, <1>17 DEF ListConsistent
<1>. QED  BY <1>6, <1>13, <1>15, <1>18 DEF ListInv

-----------------------------------------------------------------------------
(* The invariant.                                                            *)

LEMMA InitInv == Init => Inv
<1>. SUFFICES ASSUME Init PROVE Inv
  OBVIOUS
<1>1. ListInv
  <2>1. mmap = <<>> /\ mmap \in Seq(Regions) /\ DOMAIN mmap = {}
    BY DEF Init
  <2>. QED  BY <2>1 DEF Init, ListInv, ListConsistent
<1>2. TablesInv
  BY DEF Init, TablesInv
<1>. QED  BY <1>1, <1>2 DEF Inv

LEMMA ListStep ==
  ASSUME ListInv, [Next]_vars
  PROVE  ListInv'
<1>1. CASE AddRegion
  BY <1>1, AddKeepsList
<1>2. CASE DropRegion
  BY <1>2 DEF DropRegion, ListInv, ListConsistent
<1>3. ASSUME UNCHANGED mmapVars PROVE ListInv'
  BY <1>3 DEF mmapVars, ListInv, ListConsistent
<1>4. CASE StartInit
  BY <1>3, <1>4 DEF StartInit
<1>5. CASE MapStep
  BY <1>3, <1>5 DEF MapStep, WriteEntries, CreateTable, OverrunPool, RecurseIntoTable,
                    KeepEntry, ReturnWhole, ReturnEarly, NextRegion
<1>6. CASE UNCHANGED vars
  BY <1>3, <1>6 DEF vars
<1>. QED  BY <1>1, <1>2, <1>4, <1>5, <1>6 DEF Next

\* Steps that write the tables write entries that nothing uses.
LEMMA WriteStep ==
  ASSUME TablesInv, WriteEntries \/ CreateTable
  PROVE  /\ TablesInv'
         /\ \A t \in TableIds : \A i \in Indexes(t) :
              tables'[t][i] = tables[t][i] \/ tables[t][i] = Invalid
<1>1. DOMAIN tables = TableIds /\ \A t \in TableIds : DOMAIN tables[t] = Indexes(t)
  BY DEF TablesInv
<1>2. pc = "map" /\ pc' # "add"
  BY DEF WriteEntries, CreateTable, NeedsTable, Advance
<1>3. CASE WriteEntries
  <2>. DEFINE new == Filled(tables[Top.tab], FreeEntries)
  <2>1. tables' = [tables EXCEPT ![Top.tab] = new]
    BY <1>3 DEF WriteEntries
  <2>2. DOMAIN new = DOMAIN tables[Top.tab]
    BY DEF Filled
  <2>3. ASSUME NEW i \in DOMAIN tables[Top.tab]
        PROVE  new[i] = tables[Top.tab][i] \/ tables[Top.tab][i] = Invalid
    <3>1. CASE i \in FreeEntries
      <4>1. i \in Int
        BY <3>1, XlatAssumption DEF FreeEntries, Indexes
      <4>2. tables[Top.tab][i] = Invalid
        BY <3>1, <4>1 DEF FreeEntries
      <4>. QED  BY <4>2
    <3>2. CASE i \notin FreeEntries
      BY <3>2, <2>3 DEF Filled
    <3>. QED  BY <3>1, <3>2
  <2>. HIDE DEF new
  <2>4. \A t \in TableIds : tables'[t] = IF t = Top.tab THEN new ELSE tables[t]
    BY <2>1, <1>1
  <2>5. DOMAIN tables' = TableIds /\ \A t \in TableIds : DOMAIN tables'[t] = Indexes(t)
    BY <1>1, <2>1, <2>2, <2>4
  <2>6. \A t \in TableIds : \A i \in Indexes(t) :
          tables'[t][i] = tables[t][i] \/ tables[t][i] = Invalid
    BY <1>1, <2>3, <2>4
  <2>. QED  BY <1>2, <2>5, <2>6 DEF TablesInv
<1>4. CASE CreateTable
  <2>. DEFINE new == [tables[Top.tab] EXCEPT ![Top.idx] = TableDesc(next_table)]
  <2>1. tables' = [tables EXCEPT ![Top.tab] = new] /\ tables[Top.tab][Top.idx] = Invalid
    BY <1>4 DEF CreateTable, NeedsTable, Entry
  <2>2. DOMAIN new = DOMAIN tables[Top.tab]
    OBVIOUS
  <2>3. \A i \in DOMAIN tables[Top.tab] :
          new[i] = tables[Top.tab][i] \/ tables[Top.tab][i] = Invalid
    BY <2>1
  <2>. HIDE DEF new
  <2>4. \A t \in TableIds : tables'[t] = IF t = Top.tab THEN new ELSE tables[t]
    BY <2>1, <1>1
  <2>5. DOMAIN tables' = TableIds /\ \A t \in TableIds : DOMAIN tables'[t] = Indexes(t)
    BY <1>1, <2>1, <2>2, <2>4
  <2>6. \A t \in TableIds : \A i \in Indexes(t) :
          tables'[t][i] = tables[t][i] \/ tables[t][i] = Invalid
    BY <1>1, <2>3, <2>4
  <2>. QED  BY <1>2, <2>5, <2>6 DEF TablesInv
<1>. QED  BY <1>3, <1>4

\* A step keeps the shape of the tables, and every descriptor that is in use.
LEMMA TablesStep ==
  ASSUME TablesInv, [Next]_vars
  PROVE  /\ TablesInv'
         /\ \A t \in TableIds : \A i \in Indexes(t) :
              tables[t][i].type \in {"leaf", "table"} => tables'[t][i] = tables[t][i]
<1>1. CASE WriteEntries \/ CreateTable
  BY <1>1, WriteStep DEF Invalid
<1>2. ASSUME UNCHANGED tables, pc' = "add" => pc = "add"
      PROVE  TablesInv' /\ \A t \in TableIds : \A i \in Indexes(t) : tables'[t][i] = tables[t][i]
  BY <1>2 DEF TablesInv
<1>3. CASE AddRegion \/ DropRegion
  BY <1>2, <1>3 DEF AddRegion, DropRegion
<1>4. CASE StartInit
  <2>1. pc = "add" /\ pc' # "add"
    BY <1>4 DEF StartInit, Begin
  <2>2. \A t \in TableIds : \A i \in Indexes(t) : tables[t][i].type \notin {"leaf", "table"}
    BY <2>1 DEF TablesInv, Garbage, Invalid
  <2>3. tables' = [t \in TableIds |-> [i \in Indexes(t) |-> Invalid]]
    BY <1>4 DEF StartInit
  <2>. QED  BY <2>1, <2>2, <2>3 DEF TablesInv
<1>5. CASE OverrunPool \/ RecurseIntoTable \/ ReturnEarly
  BY <1>2, <1>5 DEF OverrunPool, RecurseIntoTable, ReturnEarly, NeedsTable
<1>6. CASE KeepEntry \/ ReturnWhole
  BY <1>2, <1>6 DEF KeepEntry, ReturnWhole, Advance
<1>7. CASE NextRegion
  BY <1>2, <1>7 DEF NextRegion, Begin
<1>8. CASE UNCHANGED vars
  BY <1>2, <1>8 DEF vars
<1>. QED  BY <1>1, <1>3, <1>4, <1>5, <1>6, <1>7, <1>8 DEF Next, MapStep

\* The invariant of the two parts: the list, which only the calls that add a
\* region change, and the tables, which only init_xlat_tables changes.
THEOREM ListInvariant == Spec => []Inv
<1>1. Inv /\ [Next]_vars => Inv'
  BY ListStep, TablesStep DEF Inv
<1>. QED  BY <1>1, InitInv, PTL DEF Spec

\* mmap_add_region_check and the two loops of mmap_add_region_ctx keep the list
\* in its order, its regions nested or apart, and none ending beyond its maxima,
\* whatever regions are passed, in whatever order.
THEOREM ListOrdered == Spec => []ListConsistent
<1>1. Inv => ListConsistent
  BY DEF Inv, ListInv
<1>. QED  BY <1>1, ListInvariant, PTL

\* xlat_tables_map_region never changes a descriptor that is in use: outer
\* regions, which come later, leave those of the inner ones alone.
THEOREM DescriptorsStay == Spec => NotOverwritten
<1>1. Inv /\ [Next]_vars =>
        [\A t \in TableIds : \A i \in Indexes(t) :
           tables[t][i].type \in {"leaf", "table"} => tables'[t][i] = tables[t][i]]_vars
  BY TablesStep DEF Inv
<1>. QED  BY <1>1, ListInvariant, PTL DEF Spec, NotOverwritten

-----------------------------------------------------------------------------
(***************************************************************************)
(* What init_xlat_tables makes of the list of regions.                     *)
(*                                                                         *)
(* Level l of the translation divides the addresses into blocks of         *)
(* BlockSize(l), numbered from 0.  A table of level l translates one block *)
(* of the level above, its tag, and entry i of it the block that has number*)
(* tag * Entries + i.                                                      *)
(* For every entry the invariant says which region of the list it is due   *)
(* to: the first one that has an address in the block, which fills the     *)
(* block (Maker) or does not (Splitter); an invalid entry is of a block in *)
(* which nothing has been mapped.  The recursion is a stack of frames, each*)
(* in the table of the entry at which the frame below it stands.           *)
(***************************************************************************)

\* The addresses of block n of level l.
Lo(l, n) == n * BlockSize(l)
Span(l, n) == Lo(l, n) .. Lo(l, n) + BlockSize(l) - 1

In(a, r) == r.va <= a /\ a <= EndVa(r)

\* A block of level l can describe block n for region r.
Fits(r, l, n) ==
  \/ l = 3
  \/ /\ (r.pa + Lo(l, n) - r.va) % BlockSize(l) = 0
     /\ l >= MinBlock
     /\ r.gran >= BlockSize(l)

Fills(r, l, n) == (\A a \in Span(l, n) : In(a, r)) /\ Fits(r, l, n)

\* Region i of the list is the first that has an address in block n of level l.
FirstIn(i, l, n) ==
  /\ \E a \in Span(l, n) : In(a, mmap[i])
  /\ \A j \in 1 .. i - 1 : \A a \in Span(l, n) : ~In(a, mmap[j])

-----------------------------------------------------------------------------
(* The tables in use, and where they are: table t, of level lev[t],          *)
(* translates block tag[t] of the level above; the base table, block 0.      *)

Live == 0 .. next_table - 1

Number(tag, t, i) == tag[t] * Entries + i

Leads(lev, tag, t, i, u) ==
  /\ tables[t][i] = TableDesc(u)
  /\ lev[u] = lev[t] + 1 /\ tag[u] = Number(tag, t, i)

Tree(lev, tag) ==
  /\ lev \in [TableIds -> Levels] /\ tag \in [TableIds -> Nat]
  /\ lev[0] = BaseLevel /\ tag[0] = 0
  /\ \A t \in Live : \A i \in Indexes(t) : tables[t][i].type = "table" =>
       \E u \in Live \ {0} : Leads(lev, tag, t, i, u)
  /\ \A u \in Live \ {0} : \E t \in Live : \E i \in Indexes(t) : Leads(lev, tag, t, i, u)
  /\ \A t, u \in Live : lev[t] = lev[u] /\ tag[t] = tag[u] => t = u

\* The region at hand is the Cur-th of the list; the walk has come to Reached.
Cur == Len(mmap) - Len(todo) + 1
Walking == pc \in {"map", "return"}
Reached == IF pc = "return" THEN ret + 1 ELSE Top.va

\* Block n of level l has no address that has been mapped.
Untouched(l, n) ==
  /\ \A j \in 1 .. Cur - 1 : \A a \in Span(l, n) : ~In(a, mmap[j])
  /\ Walking => \A a \in Span(l, n) : ~(Region.va <= a /\ a < Reached)

Mapped == IF Walking THEN Cur ELSE Cur - 1

\* A region j that is first in block n of level l and maps it by the leaf e, or
\* that is first there and needs a table.
Maker(j, e, l, n) ==
  /\ FirstIn(j, l, n) /\ Fills(mmap[j], l, n)
  /\ e = XlatDesc(mmap[j].attr, mmap[j].pa + Lo(l, n) - mmap[j].va)

Splitter(j, l, n) == FirstIn(j, l, n) /\ ~Fills(mmap[j], l, n)

\* What entry e of block n of level l says of the regions mapped so far.
EntryOk(e, l, n) ==
  /\ e = Invalid => Untouched(l, n)
  /\ e.type = "leaf" => \E j \in 1 .. Mapped : Maker(j, e, l, n)
  /\ e.type = "table" => \E j \in 1 .. Mapped : Splitter(j, l, n)

Contents(lev, tag) ==
  \A t \in Live : \A i \in Indexes(t) : EntryOk(tables[t][i], lev[t], Number(tag, t, i))

EntryTypes ==
  \A t \in TableIds : \A i \in Indexes(t) :
    IF t \in Live THEN tables[t][i] = Invalid \/ tables[t][i].type \in {"leaf", "table"}
    ELSE tables[t][i] = Invalid

-----------------------------------------------------------------------------
(* The frames of the walk.                                                   *)

Frames == [tab : TableIds, va : Nat, idx : Nat]

FrameNum(tag, d) == Number(tag, stack[d].tab, stack[d].idx)

\* Frame d is at an entry of its table, of which the region has an address or is
\* behind, and is in the table of the entry at which the frame below it is.
FrameOk(lev, tag, d) ==
  LET f == stack[d]
      l == BaseLevel + d - 1
  IN /\ f.tab \in Live /\ lev[f.tab] = l /\ f.idx \in Indexes(f.tab)
     /\ f.va = Lo(l, FrameNum(tag, d))
     /\ Region.va < f.va + BlockSize(l)
     /\ tag[f.tab] = IF d = 1 THEN 0 ELSE FrameNum(tag, d - 1)

FramesOk(lev, tag) ==
  /\ stack \in Seq(Frames) /\ Len(stack) <= 4 - BaseLevel
  /\ \A d \in 1 .. Len(stack) : FrameOk(lev, tag, d)
  /\ pc = "map" => stack # <<>> /\ Top.va <= EndVa(Region)
  /\ pc = "return" =>
       /\ ret \in Nat /\ Region.va <= ret /\ ret <= EndVa(Region)
       /\ ret = EndVa(Region) \/ (stack # <<>> /\ ret = EntryEnd)

TodoInv ==
  /\ pc = "add" => next_table = 1 /\ todo = <<>>
  /\ next_table \in 1 .. TablesNum + 1
  /\ pc \in {"map", "return"} => todo # <<>>
  /\ pc = "done" => todo = <<>>
  /\ todo \in Seq(Regions) /\ Len(todo) <= Len(mmap)
  /\ \A i \in 1 .. Len(todo) : todo[i] = mmap[Len(mmap) - Len(todo) + i]

MapInv(lev, tag) ==
  /\ Tree(lev, tag) /\ Contents(lev, tag) /\ EntryTypes
  /\ Walking => FramesOk(lev, tag)

\* There are a level and a block number for every table that make all of this true.
Built == pc \in {"map", "return", "done"} => \E lev, tag : MapInv(lev, tag)

-----------------------------------------------------------------------------
(* Blocks.                                                                   *)

LEMMA Constants ==
  /\ Entries \in Nat \ {0} /\ BaseEntries \in Nat \ {0} /\ PageSize \in Nat /\ PageSize >= 2
  /\ BaseLevel \in 0 .. 3 /\ VaMax \in Nat /\ TablesNum \in Nat
  BY XlatAssumption

LEMMA BlockStep == ASSUME NEW l \in 0 .. 2 PROVE BlockSize(l) = Entries * BlockSize(l + 1)
<1>1. Entries \in Nat /\ PageSize \in Nat
  BY Constants
<1>2. Entries * Entries \in Nat /\ Entries * Entries * Entries \in Nat
  BY <1>1
<1>. DEFINE e2 == Entries * Entries
            e3 == Entries * Entries * Entries
<1>3. /\ BlockSize(0) = PageSize * e3 /\ BlockSize(1) = PageSize * e2
      /\ BlockSize(2) = PageSize * Entries /\ BlockSize(3) = PageSize * 1
  BY DEF BlockSize
<1>4. e3 = Entries * e2 /\ e2 = Entries * Entries
  BY <1>1
<1>5. PageSize * e3 = Entries * (PageSize * e2)
  BY <1>1, <1>2, <1>4
<1>6. PageSize * e2 = Entries * (PageSize * Entries)
  BY <1>1, <1>2, <1>4
<1>7. PageSize * Entries = Entries * (PageSize * 1)
  BY <1>1
<1>. HIDE DEF e2, e3
<1>8. CASE l = 0
  BY <1>3, <1>5, <1>8
<1>9. CASE l = 1
  BY <1>3, <1>6, <1>9
<1>10. CASE l = 2
  BY <1>3, <1>7, <1>10
<1>. QED  BY <1>8, <1>9, <1>10

LEMMA PageBlock == BlockSize(3) = PageSize
  BY Constants DEF BlockSize

LEMMA LoType ==
  ASSUME NEW l \in 0 .. 3, NEW n \in Nat
  PROVE  /\ Lo(l, n) \in Nat /\ BlockSize(l) \in Nat \ {0} /\ Lo(l, n) = BlockSize(l) * n
         /\ Lo(l, n + 1) = Lo(l, n) + BlockSize(l)
<1>1. BlockSize(l) \in Nat \ {0}
  BY BlockPositive
<1>. QED  BY <1>1 DEF Lo

\* The block of an address.
LEMMA SpanAt ==
  ASSUME NEW l \in 0 .. 3, NEW n \in Nat, NEW a \in Int
  PROVE  /\ a \in Span(l, n) => a \in Nat
         /\ a \in Span(l, n) <=> a \div BlockSize(l) = n
<1>1. Lo(l, n) \in Nat /\ BlockSize(l) \in Nat \ {0} /\ Lo(l, n) = BlockSize(l) * n
  BY LoType
<1>. DEFINE b == BlockSize(l)
            q == a \div b
            r == a % b
<1>2. q \in Int /\ r \in 0 .. b - 1 /\ a = b * q + r
  BY <1>1, Division
<1>3. a \in Span(l, n) => a \in Nat
  BY <1>1 DEF Span
<1>4. a \in Span(l, n) <=> (b * n <= a /\ a < b * n + b)
  BY <1>1 DEF Span
<1>. HIDE DEF q, r
<1>5. ASSUME q = n PROVE a \in Span(l, n)
  <2>1. a = b * n + r /\ b * n \in Int /\ b \in Int
    BY <1>1, <1>2, <1>5
  <2>. QED  BY <1>2, <1>4, <2>1
<1>6. ASSUME a \in Span(l, n) PROVE q = n
  <2>1. b * n <= a /\ a < b * n + b
    BY <1>4, <1>6
  <2>. DEFINE k == a - b * n
  <2>2. k \in 0 .. b - 1 /\ a = b * n + k /\ n \in Int
    BY <1>1, <2>1
  <2>. HIDE DEF k
  <2>3. (b * n + k) \div b = n
    BY <1>1, <2>2, DivisionUnique
  <2>. QED  BY <2>2, <2>3 DEF q
<1>. QED  BY <1>3, <1>5, <1>6 DEF q

LEMMA SpanUnique ==
  ASSUME NEW l \in 0 .. 3, NEW n \in Nat, NEW m \in Nat, NEW a \in Span(l, n), a \in Span(l, m)
  PROVE  n = m
<1>1. a \in Int
  BY LoType DEF Span
<1>. QED  BY <1>1, SpanAt

LEMMA SpanBegin ==
  ASSUME NEW l \in 0 .. 3, NEW n \in Nat
  PROVE  Lo(l, n) \in Span(l, n) /\ Lo(l, n) + BlockSize(l) - 1 \in Span(l, n)
<1>1. Lo(l, n) \in Nat /\ BlockSize(l) \in Nat \ {0}
  BY LoType
<1>. QED  BY <1>1 DEF Span

\* The blocks of a table are those of the entry that leads to it.
LEMMA LoNest ==
  ASSUME NEW l \in 0 .. 2, NEW n \in Nat
  PROVE  Lo(l + 1, n * Entries) = Lo(l, n) /\ Lo(l + 1, n * Entries + Entries) = Lo(l, n + 1)
<1>1. BlockSize(l + 1) \in Nat /\ Entries \in Nat /\ BlockSize(l) = Entries * BlockSize(l + 1)
  BY BlockPositive, BlockStep, Constants
<1>2. n * Entries * BlockSize(l + 1) = n * (Entries * BlockSize(l + 1))
  BY <1>1
<1>3. (n * Entries + Entries) * BlockSize(l + 1) = (n + 1) * (Entries * BlockSize(l + 1))
  BY <1>1
<1>. QED  BY <1>1, <1>2, <1>3 DEF Lo

LEMMA SpanNest ==
  ASSUME NEW l \in 0 .. 2, NEW n \in Nat, NEW i \in 0 .. Entries - 1
  PROVE  Span(l + 1, n * Entries + i) \subseteq Span(l, n)
<1>. DEFINE b == BlockSize(l + 1)
<1>0. l \in 0 .. 3 /\ l + 1 \in 0 .. 3
  OBVIOUS
<1>1. /\ b \in Nat \ {0} /\ Entries \in Nat \ {0} /\ i \in Nat /\ i <= Entries - 1
      /\ n * Entries \in Nat /\ n * Entries + i \in Nat
  BY <1>0, BlockPositive, Constants
<1>2. Lo(l + 1, n * Entries + i) = Lo(l + 1, n * Entries) + i * b
  BY <1>1 DEF Lo
<1>3. Lo(l + 1, n * Entries + Entries) = Lo(l + 1, n * Entries) + Entries * b
  BY <1>1 DEF Lo
<1>4. /\ Lo(l, n) = Lo(l + 1, n * Entries) /\ Lo(l, n + 1) = Lo(l + 1, n * Entries + Entries)
      /\ Lo(l, n + 1) = Lo(l, n) + BlockSize(l)
  BY <1>0, LoNest, LoType
<1>5. i * b >= 0 /\ i * b + b <= Entries * b /\ i * b \in Int /\ Entries * b \in Int
  <2>. HIDE DEF b
  <2>1. i * b \in Int /\ Entries * b \in Int /\ i * b >= 0 /\ (i + 1) * b = i * b + b
    BY <1>1
  <2>2. (i + 1) * b <= Entries * b
    BY <1>1
  <2>. QED  BY <1>1, <2>1, <2>2
<1>6. Lo(l, n) \in Nat /\ Lo(l + 1, n * Entries + i) \in Nat /\ BlockSize(l) \in Nat
  BY <1>0, <1>1, LoType
<1>. HIDE DEF b
<1>7. Lo(l, n) <= Lo(l + 1, n * Entries + i)
  BY <1>1, <1>2, <1>4, <1>5, <1>6
<1>8. Lo(l + 1, n * Entries + i) + b - 1 <= Lo(l, n) + BlockSize(l) - 1
  BY <1>1, <1>2, <1>3, <1>4, <1>5, <1>6
<1>. QED  BY <1>1, <1>6, <1>7, <1>8 DEF Span, b

\* An address of a block is in one of the blocks of the table below.
LEMMA SpanSplit ==
  ASSUME NEW l \in 0 .. 2, NEW n \in Nat, NEW a \in Span(l, n)
  PROVE  LET m == a \div BlockSize(l + 1)
         IN /\ m \in Nat /\ m % Entries \in 0 .. Entries - 1
            /\ m = n * Entries + (m % Entries) /\ a \in Span(l + 1, m)
<1>. DEFINE b == BlockSize(l + 1)
            m == a \div b
<1>0. l \in 0 .. 3 /\ l + 1 \in 0 .. 3
  OBVIOUS
<1>1. b \in Nat \ {0} /\ Entries \in Nat \ {0} /\ a \in Int
  <2>1. b \in Nat \ {0} /\ Entries \in Nat \ {0}
    BY <1>0, BlockPositive, Constants
  <2>2. Lo(l, n) \in Nat /\ BlockSize(l) \in Nat
    BY <1>0, LoType
  <2>. QED  BY <2>1, <2>2 DEF Span
<1>2. a \in Nat
  BY <1>0, <1>1, SpanAt
<1>3. m \in Nat
  BY <1>1, <1>2
<1>4. a \in Span(l + 1, m)
  BY <1>0, <1>1, <1>3, SpanAt
<1>. HIDE DEF m
<1>. DEFINE q == m \div Entries
            i == m % Entries
<1>5. i \in 0 .. Entries - 1 /\ q \in Int /\ m = Entries * q + i
  BY <1>1, <1>3, Division
<1>6. q \in Nat
  BY <1>1, <1>3
<1>. HIDE DEF q, i
<1>7. m = q * Entries + i
  BY <1>1, <1>5
<1>8. a \in Span(l, q)
  BY <1>4, <1>5, <1>6, <1>7, SpanNest
<1>9. q = n
  BY <1>0, <1>6, <1>8, SpanUnique
<1>. QED  BY <1>3, <1>4, <1>5, <1>7, <1>9 DEF i, m

LEMMA RoundsToBlock ==
  ASSUME NEW l \in 0 .. 3, NEW a \in Nat
  PROVE  LET m == a \div BlockSize(l)
         IN m \in Nat /\ a \in Span(l, m) /\ a - (a % BlockSize(l)) = Lo(l, m)
<1>. DEFINE b == BlockSize(l)
            m == a \div b
<1>1. b \in Nat \ {0} /\ a \in Int
  BY BlockPositive
<1>2. m \in Nat
  BY <1>1
<1>3. a \in Span(l, m)
  BY <1>1, <1>2, SpanAt
<1>4. Lo(l, m) = b * m
  <2>. HIDE DEF m
  <2>. QED  BY <1>2, LoType
<1>5. a - (a % b) = b * (a \div b)
  <2>. HIDE DEF b
  <2>. QED  BY <1>1, Division
<1>. QED  BY <1>2, <1>3, <1>4, <1>5

LEMMA LoPages == \A l \in 0 .. 3 : \A n \in Nat : Lo(l, n) % PageSize = 0
<1>1. PageSize \in Nat \ {0} /\ Entries \in Nat
  BY Constants
<1>2. ASSUME NEW l \in 0 .. 3, NEW n \in Nat PROVE \E k \in Nat : Lo(l, n) = PageSize * k
  <2>. DEFINE e2 == Entries * Entries
              e3 == Entries * Entries * Entries
  <2>1. e2 \in Nat /\ e3 \in Nat
    BY <1>1
  <2>2. /\ BlockSize(0) = PageSize * e3 /\ BlockSize(1) = PageSize * e2
        /\ BlockSize(2) = PageSize * Entries /\ BlockSize(3) = PageSize * 1
    BY DEF BlockSize
  <2>. HIDE DEF e2, e3
  <2>3. PICK e \in Nat : BlockSize(l) = PageSize * e
    BY <1>1, <2>1, <2>2
  <2>4. Lo(l, n) = PageSize * (n * e) /\ n * e \in Nat
    BY <1>1, <2>3 DEF Lo
  <2>. QED  BY <2>4
<1>3. \A k \in Nat : (PageSize * k) % PageSize = 0
  BY <1>1, Multiple
<1>. QED  BY <1>2, <1>3

\* What holds when the tables are being built, with the tree given.
Here(lev, tag) == Inv /\ TodoInv /\ MapInv(lev, tag)

-----------------------------------------------------------------------------
(* The region at hand, and pages.                                            *)

LEMMA PagesApart ==
  ASSUME NEW x \in Nat, NEW y \in Nat, x % PageSize = 0, y % PageSize = 0, x < y + PageSize
  PROVE  x <= y
<1>1. PageSize \in Nat \ {0} /\ x \in Int /\ y \in Int
  BY Constants
<1>. DEFINE p == x \div PageSize
            q == y \div PageSize
<1>2. p \in Int /\ x = PageSize * p + (x % PageSize)
  BY <1>1, Division, Zenon
<1>3. q \in Int /\ y = PageSize * q + (y % PageSize)
  BY <1>1, Division, Zenon
<1>. HIDE DEF p, q
<1>4. x = PageSize * p /\ y = PageSize * q
  BY <1>1, <1>2, <1>3
<1>5. SUFFICES ASSUME x > y PROVE FALSE
  BY <1>1
<1>6. p > q
  BY <1>1, <1>2, <1>3, <1>4, <1>5
<1>7. PageSize * p >= PageSize * (q + 1)
  BY <1>1, <1>2, <1>3, <1>6
<1>8. PageSize * (q + 1) = PageSize * q + PageSize
  BY <1>1, <1>3
<1>. QED  BY <1>1, <1>4, <1>7, <1>8

LEMMA PagesAdd ==
  ASSUME NEW n \in Nat \ {0}, NEW x \in Int, NEW y \in Int, x % n = 0, y % n = 0
  PROVE  (x + y) % n = 0 /\ (x - y) % n = 0
<1>. DEFINE p == x \div n
            q == y \div n
<1>1. p \in Int /\ x = n * p + (x % n)
  BY Division, Zenon
<1>2. q \in Int /\ y = n * q + (y % n)
  BY Division, Zenon
<1>. HIDE DEF p, q
<1>3. x = n * p /\ y = n * q
  BY <1>1, <1>2
<1>4. x + y = n * (p + q) /\ x - y = n * (p - q) /\ p + q \in Int /\ p - q \in Int
  BY <1>1, <1>2, <1>3
<1>5. (n * (p + q)) % n = 0 /\ (n * (p - q)) % n = 0
  BY <1>4, Multiple
<1>. QED  BY <1>4, <1>5

LEMMA RegionPages ==
  ASSUME NEW r \in Regions
  PROVE  /\ r.va % PageSize = 0 /\ r.pa % PageSize = 0 /\ (EndVa(r) + 1) % PageSize = 0
         /\ EndVa(r) <= VaMax
<1>1. r.va % PageSize = 0 /\ r.pa % PageSize = 0 /\ r.size % PageSize = 0 /\ EndVa(r) <= VaMax
  BY DEF Regions, Proper
<1>2. r.va \in Int /\ r.size \in Int /\ EndVa(r) + 1 = r.va + r.size /\ PageSize \in Nat \ {0}
  BY RegionFacts, Constants
<1>3. (r.va + r.size) % PageSize = 0
  BY <1>1, <1>2, PagesAdd
<1>. QED  BY <1>1, <1>2, <1>3

LEMMA AtHand ==
  ASSUME ListInv, TodoInv, Walking
  PROVE  /\ Len(mmap) \in Nat /\ Cur \in 1 .. Len(mmap) /\ Region = mmap[Cur]
         /\ Region \in Regions /\ todo \in Seq(Regions) /\ todo # <<>>
<1>1. todo \in Seq(Regions) /\ todo # <<>> /\ Len(todo) <= Len(mmap) /\ Len(mmap) \in Nat
  BY DEF TodoInv, Walking, ListInv
<1>2. Len(todo) \in Nat /\ Len(todo) >= 1 /\ Head(todo) = todo[1] /\ 1 \in 1 .. Len(todo)
  BY <1>1
<1>3. todo[1] = mmap[Len(mmap) - Len(todo) + 1]
  BY <1>2 DEF TodoInv
<1>. QED  BY <1>1, <1>2, <1>3 DEF Region, Cur

\* Of two regions that share an address, the one that comes first is inside the
\* other.
LEMMA SharedAddress ==
  ASSUME ListInv, NEW j \in 1 .. Len(mmap), NEW k \in 1 .. Len(mmap), j < k,
         NEW a \in Int, In(a, mmap[j]), In(a, mmap[k])
  PROVE  Inside(mmap[j], mmap[k]) /\ mmap[j].size < mmap[k].size
<1>. DEFINE x == mmap[j]
            y == mmap[k]
<1>1. x \in Regions /\ y \in Regions
  BY DEF ListInv
<1>2. Before(x, y) /\ Compatible(x, y)
  <2>1. j \in DOMAIN mmap /\ k \in DOMAIN mmap
    BY DEF ListInv
  <2>. QED  BY <2>1 DEF ListInv, ListConsistent, Before
<1>3. x.va <= a /\ a <= EndVa(x) /\ y.va <= a /\ a <= EndVa(y)
  BY DEF In
<1>. HIDE DEF x, y
<1>4. /\ x.va \in Nat /\ x.size \in Nat /\ EndVa(x) \in Nat /\ EndVa(x) = x.va + x.size - 1
      /\ y.va \in Nat /\ y.size \in Nat /\ EndVa(y) \in Nat /\ EndVa(y) = y.va + y.size - 1
  BY <1>1, RegionFacts
<1>5. ~SeparateVa(x, y)
  <2>1. PICK xv, xe, yv, ye : xv = x.va /\ xe = EndVa(x) /\ yv = y.va /\ ye = EndVa(y)
    OBVIOUS
  <2>2. ~(xe < yv) /\ ~(xv > ye)
    BY SMTT(20), <1>3, <1>4, <2>1
  <2>. QED  BY <2>1, <2>2 DEF SeparateVa
<1>6. Inside(x, y) \/ Inside(y, x)
  BY <1>2, <1>5 DEF Compatible
<1>7. ~(x.va = y.va /\ x.size = y.size)
  BY <1>2, <1>6 DEF Compatible
<1>. DEFINE xv == x.va
            xs == x.size
            xe == EndVa(x)
            yv == y.va
            ys == y.size
            ye == EndVa(y)
<1>11. /\ xv \in Nat /\ xs \in Nat /\ xe \in Nat /\ xe = xv + xs - 1
       /\ yv \in Nat /\ ys \in Nat /\ ye \in Nat /\ ye = yv + ys - 1
  BY <1>4
<1>8. ASSUME Inside(y, x) PROVE FALSE
  <2>1. yv >= xv /\ ye <= xe /\ (xe < ye \/ (xe = ye /\ xs < ys))
    BY <1>2, <1>8 DEF Inside, Before
  <2>. HIDE DEF xv, xs, xe, yv, ys, ye
  <2>. QED  BY <1>11, <2>1
<1>9. Inside(x, y)
  BY <1>6, <1>8
<1>10. x.size < y.size
  <2>1. xv >= yv /\ xe <= ye /\ ~(xv = yv /\ xs = ys)
    BY <1>7, <1>9 DEF Inside
  <2>. HIDE DEF xv, xs, xe, yv, ys, ye
  <2>2. xs < ys
    BY <1>11, <2>1
  <2>. QED  BY <2>2 DEF xs, ys
<1>. QED  BY <1>9, <1>10 DEF x, y

-----------------------------------------------------------------------------
(* The tree.                                                                 *)

LEMMA TreeTypes ==
  ASSUME TodoInv, NEW lev, NEW tag, Tree(lev, tag), NEW t \in Live
  PROVE  /\ t \in TableIds /\ lev[t] \in Levels /\ lev[t] \in 0 .. 3 /\ tag[t] \in Nat
         /\ \A i \in Indexes(t) : i \in Nat /\ Number(tag, t, i) \in Nat
         /\ t # 0 => Indexes(t) = 0 .. Entries - 1
<1>1. TablesNum \in Nat /\ BaseLevel \in 0 .. 3 /\ Entries \in Nat /\ BaseEntries \in Nat
  BY Constants
<1>2. t \in TableIds
  BY <1>1 DEF Live, TodoInv, TableIds
<1>3. lev[t] \in Levels /\ tag[t] \in Nat
  BY <1>2 DEF Tree
<1>4. \A i \in Indexes(t) : i \in Nat
  BY <1>1 DEF Indexes
<1>5. ASSUME NEW i \in Indexes(t) PROVE Number(tag, t, i) \in Nat
  <2>1. i \in Nat
    BY <1>4
  <2>2. tag[t] * Entries \in Nat
    BY <1>1, <1>3
  <2>. QED  BY <2>1, <2>2 DEF Number
<1>6. lev[t] \in 0 .. 3
  BY <1>1, <1>3 DEF Levels
<1>7. t # 0 => Indexes(t) = 0 .. Entries - 1
  BY DEF Indexes
<1>. QED  BY <1>2, <1>3, <1>4, <1>5, <1>6, <1>7

\* A subtable is one level below the entry that leads to it, and its blocks are
\* in the block of that entry.
LEMMA Parent ==
  ASSUME TodoInv, NEW lev, NEW tag, Tree(lev, tag), NEW u \in Live \ {0}
  PROVE  \E t \in Live : \E i \in Indexes(t) :
           /\ Leads(lev, tag, t, i, u)
           /\ \A k \in Indexes(u) : Span(lev[u], Number(tag, u, k)) \subseteq Span(lev[t], Number(tag, t, i))
<1>1. PICK t \in Live : \E i \in Indexes(t) : Leads(lev, tag, t, i, u)
  BY DEF Tree
<1>2. PICK i \in Indexes(t) : Leads(lev, tag, t, i, u)
  BY <1>1
<1>3. lev[u] = lev[t] + 1 /\ tag[u] = Number(tag, t, i)
  BY <1>2 DEF Leads
<1>4. lev[t] \in 0 .. 3 /\ Number(tag, t, i) \in Nat
  BY TreeTypes
<1>5. lev[u] \in 0 .. 3 /\ Indexes(u) = 0 .. Entries - 1
  BY TreeTypes
<1>6. lev[t] \in 0 .. 2
  BY <1>3, <1>4, <1>5
<1>7. ASSUME NEW k \in Indexes(u)
      PROVE  Span(lev[u], Number(tag, u, k)) \subseteq Span(lev[t], Number(tag, t, i))
  <2>1. Number(tag, u, k) = Number(tag, t, i) * Entries + k /\ k \in 0 .. Entries - 1
    BY <1>3, <1>5 DEF Number
  <2>. QED  BY <1>3, <1>4, <1>6, <2>1, SpanNest
<1>. QED  BY <1>2, <1>7

LEMMA BaseTable ==
  ASSUME TodoInv, NEW lev, NEW tag, Tree(lev, tag), NEW t \in Live
  PROVE  /\ lev[t] = BaseLevel <=> t = 0
         /\ 0 \in Live /\ lev[0] = BaseLevel /\ tag[0] = 0
<1>1. 0 \in Live /\ lev[0] = BaseLevel /\ tag[0] = 0
  BY DEF Tree, Live, TodoInv
<1>2. ASSUME t # 0 PROVE lev[t] # BaseLevel
  <2>1. PICK p \in Live : \E i \in Indexes(p) : Leads(lev, tag, p, i, t)
    BY <1>2 DEF Tree
  <2>2. lev[t] = lev[p] + 1
    BY <2>1 DEF Leads
  <2>3. lev[p] \in BaseLevel .. 3
    BY TreeTypes DEF Levels
  <2>. QED  BY <2>2, <2>3, Constants
<1>. QED  BY <1>1, <1>2

\* Two entries of the same level have no address in common.
LEMMA SameLevel ==
  ASSUME TodoInv, NEW lev, NEW tag, Tree(lev, tag), NEW t \in Live, NEW u \in Live,
         NEW i \in Indexes(t), NEW k \in Indexes(u), lev[t] = lev[u],
         Number(tag, t, i) = Number(tag, u, k)
  PROVE  t = u /\ i = k
<1>1. /\ tag[t] \in Nat /\ tag[u] \in Nat /\ i \in Nat /\ k \in Nat
      /\ Entries \in Nat \ {0}
  BY TreeTypes, Constants
<1>2. CASE t = 0 \/ u = 0
  <2>1. t = 0 /\ u = 0 /\ tag[t] = 0
    BY <1>2, BaseTable
  <2>2. Number(tag, t, i) = i /\ Number(tag, u, k) = k
    BY <1>1, <2>1 DEF Number
  <2>. QED  BY <2>1, <2>2
<1>3. CASE t # 0 /\ u # 0
  <2>1. i \in 0 .. Entries - 1 /\ k \in 0 .. Entries - 1
    BY <1>3, TreeTypes
  <2>2. /\ Number(tag, t, i) = Entries * tag[t] + i
        /\ Number(tag, u, k) = Entries * tag[u] + k
    BY <1>1 DEF Number
  <2>3. ASSUME NEW q \in Nat, NEW r \in 0 .. Entries - 1
        PROVE  (Entries * q + r) % Entries = r /\ (Entries * q + r) \div Entries = q
    <3>1. Entries \in Nat \ {0} /\ q \in Int
      BY <1>1
    <3>. QED  BY <3>1, DivisionUnique, Zenon
  <2>4. /\ (Entries * tag[t] + i) % Entries = i /\ (Entries * tag[t] + i) \div Entries = tag[t]
        /\ (Entries * tag[u] + k) % Entries = k /\ (Entries * tag[u] + k) \div Entries = tag[u]
    BY <1>1, <2>1, <2>3, Zenon
  <2>5. i = k /\ tag[t] = tag[u]
    BY <2>2, <2>4
  <2>. QED  BY <2>5 DEF Tree
<1>. QED  BY <1>2, <1>3

SharesAbove(lev, tag, d) ==
  \A t, u \in Live : \A i \in Indexes(t) : \A k \in Indexes(u) : \A a \in Int :
    /\ lev[u] = lev[t] + d
    /\ a \in Span(lev[t], Number(tag, t, i)) /\ a \in Span(lev[u], Number(tag, u, k))
    => tables[t][i].type = "table"

\* An entry that has an address of an entry of a lower table leads to a table.
LEMMA AboveIsTable ==
  ASSUME TodoInv, NEW lev, NEW tag, Tree(lev, tag)
  PROVE  SharesAbove(lev, tag, 1) /\ SharesAbove(lev, tag, 2) /\ SharesAbove(lev, tag, 3)
<1>1. ASSUME NEW d \in Nat \ {0}, NEW t \in Live, NEW u \in Live,
             NEW i \in Indexes(t), NEW k \in Indexes(u), NEW a \in Int, lev[u] = lev[t] + d,
             a \in Span(lev[t], Number(tag, t, i)), a \in Span(lev[u], Number(tag, u, k)),
             d = 1 \/ SharesAbove(lev, tag, d - 1)
      PROVE  tables[t][i].type = "table"
  <2>1. lev[t] \in BaseLevel .. 3 /\ lev[t] \in 0 .. 3 /\ lev[u] \in 0 .. 3
    BY TreeTypes DEF Levels
  <2>2. u \in Live \ {0}
    <3>1. lev[u] # BaseLevel
      BY <1>1, <2>1, Constants
    <3>. QED  BY <3>1, BaseTable
  <2>3. PICK p \in Live : \E j \in Indexes(p) :
          /\ Leads(lev, tag, p, j, u)
          /\ \A m \in Indexes(u) : Span(lev[u], Number(tag, u, m)) \subseteq Span(lev[p], Number(tag, p, j))
    BY <2>2, Parent
  <2>4. PICK j \in Indexes(p) :
          /\ Leads(lev, tag, p, j, u)
          /\ Span(lev[u], Number(tag, u, k)) \subseteq Span(lev[p], Number(tag, p, j))
    BY <2>3
  <2>5. a \in Span(lev[p], Number(tag, p, j)) /\ lev[u] = lev[p] + 1 /\ tables[p][j] = TableDesc(u)
    BY <1>1, <2>4 DEF Leads
  <2>9. lev[p] \in 0 .. 3
    BY TreeTypes
  <2>6. lev[p] \in 0 .. 3 /\ lev[p] = lev[t] + (d - 1)
    BY <1>1, <2>1, <2>5, <2>9
  <2>7. CASE d = 1
    <3>1. lev[p] = lev[t]
      BY <2>1, <2>6, <2>7
    <3>2. Number(tag, t, i) \in Nat /\ Number(tag, p, j) \in Nat
      BY TreeTypes
    <3>3. Number(tag, t, i) = Number(tag, p, j)
      BY <1>1, <2>1, <2>5, <3>1, <3>2, SpanUnique
    <3>4. t = p /\ i = j
      BY <3>1, <3>3, SameLevel
    <3>. QED  BY <2>5, <3>4 DEF TableDesc
  <2>8. CASE d # 1
    <3>1. SharesAbove(lev, tag, d - 1)
      BY <1>1, <2>8
    <3>. QED  BY <1>1, <2>5, <2>6, <3>1 DEF SharesAbove
  <2>. QED  BY <2>7, <2>8
<1>2. SharesAbove(lev, tag, 1)
  BY <1>1 DEF SharesAbove
<1>3. SharesAbove(lev, tag, 2)
  <2>1. 2 \in Nat \ {0} /\ 2 - 1 = 1
    OBVIOUS
  <2>. QED  BY <1>1, <1>2, <2>1 DEF SharesAbove
<1>4. SharesAbove(lev, tag, 3)
  <2>1. 3 \in Nat \ {0} /\ 3 - 1 = 2
    OBVIOUS
  <2>. QED  BY <1>1, <1>3, <2>1 DEF SharesAbove
<1>. QED  BY <1>2, <1>3, <1>4

\* Entries that do not lead to a table have no address in common.
LEMMA EntriesApart ==
  ASSUME TodoInv, NEW lev, NEW tag, Tree(lev, tag), NEW t \in Live, NEW u \in Live,
         NEW i \in Indexes(t), NEW k \in Indexes(u),
         tables[t][i].type # "table", tables[u][k].type # "table",
         NEW a \in Int,
         a \in Span(lev[t], Number(tag, t, i)), a \in Span(lev[u], Number(tag, u, k))
  PROVE  t = u /\ i = k
<1>1. /\ lev[t] \in 0 .. 3 /\ lev[u] \in 0 .. 3
      /\ Number(tag, t, i) \in Nat /\ Number(tag, u, k) \in Nat
  BY TreeTypes
<1>2. CASE lev[t] = lev[u]
  <2>1. Number(tag, t, i) = Number(tag, u, k)
    BY <1>1, <1>2, SpanUnique
  <2>. QED  BY <1>2, <2>1, SameLevel
<1>3. ASSUME NEW d \in {1, 2, 3}, lev[u] = lev[t] + d PROVE FALSE
  BY <1>3, AboveIsTable DEF SharesAbove
<1>4. ASSUME NEW d \in {1, 2, 3}, lev[t] = lev[u] + d PROVE FALSE
  BY <1>4, AboveIsTable DEF SharesAbove
<1>5. CASE lev[t] < lev[u]
  <2>1. lev[u] - lev[t] \in {1, 2, 3} /\ lev[u] = lev[t] + (lev[u] - lev[t])
    BY <1>1, <1>5
  <2>. QED  BY <1>3, <2>1
<1>6. CASE lev[u] < lev[t]
  <2>1. lev[t] - lev[u] \in {1, 2, 3} /\ lev[t] = lev[u] + (lev[t] - lev[u])
    BY <1>1, <1>6
  <2>. QED  BY <1>4, <2>1
<1>. QED  BY <1>1, <1>2, <1>5, <1>6

-----------------------------------------------------------------------------
(* The entry at hand.                                                        *)

TopNum(tag) == Number(tag, Top.tab, Top.idx)

LEMMA TopFacts ==
  ASSUME NEW lev, NEW tag, Here(lev, tag), Walking, stack # <<>>
  PROVE  /\ stack \in Seq(Frames) /\ Len(stack) \in Nat /\ Len(stack) >= 1
         /\ Len(stack) <= 4 - BaseLevel
         /\ Top \in Frames /\ Level \in Levels /\ Level \in 0 .. 3
         /\ Top.tab \in Live /\ lev[Top.tab] = Level
         /\ Top.idx \in Indexes(Top.tab) /\ Top.idx \in Nat
         /\ TopNum(tag) \in Nat
         /\ Top.va = Lo(Level, TopNum(tag)) /\ Top.va \in Nat
         /\ BlockSize(Level) \in Nat \ {0}
         /\ EntryEnd \in Nat /\ EntryEnd = Top.va + BlockSize(Level) - 1
         /\ Region.va <= EntryEnd
<1>. USE DEF Here, MapInv
<1>1. BaseLevel \in 0 .. 3
  BY Constants
<1>2. stack \in Seq(Frames) /\ Len(stack) <= 4 - BaseLevel
  BY DEF FramesOk
<1>3. Len(stack) \in Nat /\ Len(stack) >= 1
  BY <1>2
<1>4. Top \in Frames
  BY <1>2, <1>3 DEF Top
<1>5. Level \in Levels /\ Level \in 0 .. 3
  BY <1>1, <1>2, <1>3 DEF Level, Levels
<1>6. FrameOk(lev, tag, Len(stack))
  BY <1>3 DEF FramesOk
<1>7. /\ Top.tab \in Live /\ lev[Top.tab] = Level /\ Top.idx \in Indexes(Top.tab)
      /\ Top.va = Lo(Level, TopNum(tag)) /\ Region.va < Top.va + BlockSize(Level)
  BY <1>6 DEF FrameOk, FrameNum, TopNum, Top, Level
<1>8. Top.idx \in Nat /\ TopNum(tag) \in Nat
  BY <1>7, TreeTypes DEF TopNum
<1>9. BlockSize(Level) \in Nat \ {0}
  BY <1>5, BlockPositive
<1>10. Top.va \in Nat
  BY <1>4 DEF Frames
<1>11. EntryEnd = Top.va + BlockSize(Level) - 1 /\ EntryEnd \in Nat
  BY <1>9, <1>10 DEF EntryEnd
<1>12. Region.va \in Nat
  BY AtHand, RegionFacts DEF Inv
<1>. QED  BY <1>2, <1>3, <1>4, <1>5, <1>7, <1>8, <1>9, <1>10, <1>11, <1>12

LEMMA TopSpan ==
  ASSUME NEW lev, NEW tag, Here(lev, tag), Walking, stack # <<>>
  PROVE  Span(Level, TopNum(tag)) = Top.va .. EntryEnd /\ Span(Level, TopNum(tag)) \subseteq Nat
<1>1. Span(Level, TopNum(tag)) = Top.va .. EntryEnd
  BY TopFacts DEF Span
<1>2. Top.va \in Nat /\ EntryEnd \in Nat
  BY TopFacts
<1>. QED  BY <1>1, <1>2

\* In the loop, the region has an address in the entry.
LEMMA Overlap ==
  ASSUME NEW lev, NEW tag, Here(lev, tag), pc = "map"
  PROVE  /\ Walking /\ stack # <<>> /\ Top.va <= EndVa(Region)
         /\ \E a \in Span(Level, TopNum(tag)) : In(a, Region)
         /\ Covered <=> \A a \in Span(Level, TopNum(tag)) : In(a, Region)
         /\ FitsBlock <=> Fits(Region, Level, TopNum(tag))
<1>1. Walking /\ stack # <<>> /\ Top.va <= EndVa(Region)
  BY DEF Walking, Here, MapInv, FramesOk
<1>2. /\ Top.va \in Nat /\ EntryEnd \in Nat /\ Region.va <= EntryEnd /\ Top.va <= EntryEnd
      /\ Top.va = Lo(Level, TopNum(tag))
  BY <1>1, TopFacts
<1>3. Region.va \in Nat /\ EndVa(Region) \in Nat /\ Region.va <= EndVa(Region)
  <2>1. Region \in Regions
    BY <1>1, AtHand DEF Here, Inv
  <2>. HIDE DEF Region
  <2>2. /\ Region.va \in Nat /\ EndVa(Region) \in Nat /\ Region.size \in Nat \ {0}
        /\ EndVa(Region) = Region.va + Region.size - 1
    BY <2>1, RegionFacts
  <2>. QED  BY <2>2
<1>4. Span(Level, TopNum(tag)) = Top.va .. EntryEnd
  BY <1>1, TopSpan
<1>5. \E a \in Top.va .. EntryEnd : In(a, Region)
  <2>1. CASE Region.va <= Top.va
    <3>1. Top.va \in Top.va .. EntryEnd /\ In(Top.va, Region)
      BY <1>1, <1>2, <1>3, <2>1 DEF In
    <3>. QED  BY <3>1
  <2>2. CASE Region.va > Top.va
    <3>1. Region.va \in Top.va .. EntryEnd /\ In(Region.va, Region)
      BY <1>1, <1>2, <1>3, <2>2 DEF In
    <3>. QED  BY <3>1
  <2>. QED  BY <1>2, <1>3, <2>1, <2>2
<1>6. Covered <=> \A a \in Top.va .. EntryEnd : In(a, Region)
  <2>1. Top.va \in Top.va .. EntryEnd /\ EntryEnd \in Top.va .. EntryEnd
    BY <1>2
  <2>2. ASSUME Covered, NEW a \in Top.va .. EntryEnd PROVE In(a, Region)
    BY <1>2, <1>3, <2>2 DEF Covered, In
  <2>. QED  BY <2>1, <2>2 DEF Covered, In
<1>7. FitsBlock <=> Fits(Region, Level, TopNum(tag))
  BY <1>2 DEF FitsBlock, Fits, EntryPa
<1>. QED  BY <1>1, <1>4, <1>5, <1>6, <1>7

\* An entry that an earlier region fills is covered by this one, which has an
\* address in it and so is around the other.
LEMMA LeafCovered ==
  ASSUME NEW lev, NEW tag, Here(lev, tag), pc = "map", NEW j \in 1 .. Cur,
         \A a \in Span(Level, TopNum(tag)) : In(a, mmap[j])
  PROVE  Covered
<1>1. Walking /\ stack # <<>>
  BY Overlap
<1>2. /\ Cur \in 1 .. Len(mmap) /\ Region = mmap[Cur] /\ Region \in Regions
      /\ Len(mmap) \in Nat /\ ListInv
  BY <1>1, AtHand DEF Here, Inv
<1>3. CASE j = Cur
  BY <1>2, <1>3, Overlap
<1>4. CASE j # Cur
  <2>1. j \in 1 .. Len(mmap) /\ j < Cur
    BY <1>2, <1>4
  <2>2. PICK a \in Span(Level, TopNum(tag)) : In(a, Region)
    BY Overlap
  <2>3. a \in Int /\ In(a, mmap[j])
    BY <1>1, TopSpan
  <2>4. Inside(mmap[j], mmap[Cur])
    BY <1>2, <2>1, <2>2, <2>3, SharedAddress
  <2>5. mmap[j] \in Regions
    BY <2>1 DEF Here, Inv, ListInv
  <2>6. ASSUME NEW b \in Span(Level, TopNum(tag)) PROVE In(b, Region)
    <3>1. In(b, mmap[j]) /\ b \in Int
      BY <1>1, <2>6, TopSpan
    <3>2. /\ mmap[j].va \in Nat /\ EndVa(mmap[j]) \in Nat
          /\ Region.va \in Nat /\ EndVa(Region) \in Nat
      BY <1>2, <2>5, RegionFacts
    <3>3. Region.va <= mmap[j].va /\ EndVa(mmap[j]) <= EndVa(Region)
      BY <1>2, <2>4 DEF Inside
    <3>. QED  BY <3>1, <3>2, <3>3 DEF In
  <2>. QED  BY <2>6, Overlap
<1>. QED  BY <1>3, <1>4

LEMMA PageCovered ==
  ASSUME NEW lev, NEW tag, Here(lev, tag), pc = "map", Level = 3
  PROVE  Covered
<1>1. Walking /\ stack # <<>> /\ Top.va <= EndVa(Region)
  BY Overlap
<1>2. Region \in Regions
  BY <1>1, AtHand DEF Here, Inv
<1>3. /\ Top.va \in Nat /\ EntryEnd = Top.va + PageSize - 1 /\ Region.va <= EntryEnd
      /\ TopNum(tag) \in Nat /\ Top.va = Lo(3, TopNum(tag)) /\ PageSize \in Nat
  BY <1>1, TopFacts, PageBlock, Constants
<1>4. Top.va % PageSize = 0
  BY <1>3, LoPages
<1>5. /\ Region.va % PageSize = 0 /\ (EndVa(Region) + 1) % PageSize = 0
      /\ Region.va \in Nat /\ EndVa(Region) \in Nat
  BY <1>2, RegionPages, RegionFacts
<1>6. Region.va <= Top.va
  <2>1. Region.va < Top.va + PageSize
    BY <1>3, <1>5
  <2>. QED  BY <1>3, <1>4, <1>5, <2>1, PagesApart
<1>7. EndVa(Region) >= EntryEnd
  <2>. DEFINE e == EndVa(Region) + 1
  <2>1. e \in Nat /\ e % PageSize = 0 /\ e > Top.va
    BY <1>1, <1>3, <1>5
  <2>2. Top.va + PageSize \in Nat /\ (Top.va + PageSize) % PageSize = 0
    <3>1. PageSize \in Nat \ {0} /\ Top.va \in Int
      BY <1>3, Constants
    <3>. QED  BY SMTT(20), <1>3, <1>4, <3>1, AddToMultiple
  <2>. HIDE DEF e
  <2>3. Top.va + PageSize < e + PageSize
    BY <1>3, <2>1
  <2>4. Top.va + PageSize <= e
    BY <2>1, <2>2, <2>3, PagesApart
  <2>. QED  BY <1>3, <1>5, <2>4 DEF e
<1>. QED  BY <1>6, <1>7 DEF Covered

LEMMA EntryAtHand ==
  ASSUME NEW lev, NEW tag, Here(lev, tag), pc = "map"
  PROVE  /\ Entry = Invalid \/ Entry.type \in {"leaf", "table"}
         /\ EntryOk(Entry, Level, TopNum(tag))
         /\ Entry.type = "leaf" => Covered
<1>1. Walking /\ stack # <<>>
  BY Overlap
<1>2. Top.tab \in Live /\ Top.tab \in TableIds /\ lev[Top.tab] = Level /\ Top.idx \in Indexes(Top.tab)
  <2>1. Top.tab \in Live /\ lev[Top.tab] = Level /\ Top.idx \in Indexes(Top.tab)
    BY <1>1, TopFacts
  <2>. QED  BY <2>1, TreeTypes DEF Here, MapInv
<1>3. Entry = Invalid \/ Entry.type \in {"leaf", "table"}
  BY <1>2 DEF Here, MapInv, EntryTypes, Entry
<1>4. EntryOk(Entry, Level, TopNum(tag))
  BY <1>2 DEF Here, MapInv, Contents, Entry, TopNum
<1>5. ASSUME Entry.type = "leaf" PROVE Covered
  <2>1. PICK j \in 1 .. Mapped : Maker(j, Entry, Level, TopNum(tag))
    BY <1>4, <1>5 DEF EntryOk
  <2>2. Mapped = Cur
    BY <1>1 DEF Mapped
  <2>. QED  BY <2>1, <2>2, LeafCovered DEF Maker, Fills
<1>. QED  BY <1>3, <1>4, <1>5

LEMMA NoPanicHere ==
  ASSUME NEW lev, NEW tag, Here(lev, tag)
  PROVE  NoPanic
<1>1. ASSUME pc = "return", stack = <<>> PROVE ret = EndVa(Region)
  <2>1. Walking
    BY <1>1 DEF Walking
  <2>. QED  BY <1>1, <2>1 DEF Here, MapInv, FramesOk
<1>2. ASSUME pc = "map"
      PROVE  /\ Entry.type \in {"invalid", "table"} \/ (Entry.type = "leaf" /\ Covered)
             /\ Level = 3 => Covered
  BY <1>2, EntryAtHand, PageCovered DEF Invalid
<1>. QED  BY <1>1, <1>2 DEF NoPanic

-----------------------------------------------------------------------------
(* The entries that a block is written to.                                   *)

LEMMA IntervalSize ==
  ASSUME NEW x \in Int, NEW y \in Int, x <= y
  PROVE  IsFiniteSet(x .. y) /\ Cardinality(x .. y) = y - x + 1
<1>1. IsFiniteSet(x .. y) /\ Cardinality(x .. y) = IF x > y THEN 0 ELSE y - x + 1
  BY FS_Interval, Zenon
<1>2. ~(x > y)
  OBVIOUS
<1>. QED  BY <1>1, <1>2

LEMMA FreeRun ==
  ASSUME NEW lev, NEW tag, Here(lev, tag), pc = "map", Entry = Invalid, Covered
  PROVE  LET n == Cardinality(FreeEntries)
         IN /\ n \in Nat \ {0} /\ FreeEntries = Top.idx .. Top.idx + n - 1
            /\ \A i \in FreeEntries :
                 /\ i \in Indexes(Top.tab) /\ tables[Top.tab][i] = Invalid
                 /\ Top.va + (i - Top.idx + 1) * BlockSize(Level) - 1 <= EndVa(Region)
<1>. DEFINE F == FreeEntries
            n == Cardinality(F)
            b == BlockSize(Level)
<1>1. Walking /\ stack # <<>>
  BY Overlap
<1>2. /\ Top.idx \in Nat /\ Top.idx \in Indexes(Top.tab) /\ b \in Nat \ {0}
      /\ Top.va \in Nat /\ EntryEnd = Top.va + b - 1
  BY <1>1, TopFacts
<1>3. Region \in Regions
  BY <1>1, AtHand DEF Here, Inv
<1>4. EndVa(Region) \in Nat
  BY <1>3, RegionFacts
<1>5. PICK k \in Nat : Indexes(Top.tab) = 0 .. k - 1
  BY Constants DEF Indexes
<1>6. ASSUME NEW i \in F
      PROVE  /\ i \in Indexes(Top.tab) /\ i \in Nat /\ i >= Top.idx
             /\ tables[Top.tab][i] = Invalid
             /\ EndVa(Region) >= Top.va + (i - Top.idx + 1) * b - 1
  <2>1. i \in Indexes(Top.tab) /\ i \in Nat /\ i >= Top.idx
          /\ EndVa(Region) >= Top.va + (i - Top.idx + 1) * b - 1
    BY <1>5 DEF FreeEntries
  <2>2. ~(i < i)
    BY <2>1
  <2>3. tables[Top.tab][i] = Invalid
    BY <2>1, <2>2 DEF FreeEntries
  <2>. QED  BY <2>1, <2>3
<1>7. ASSUME NEW i \in F, NEW j \in Top.idx .. i PROVE j \in F
  <2>1. i \in Indexes(Top.tab) /\ i \in Nat /\ EndVa(Region) >= Top.va + (i - Top.idx + 1) * b - 1
    BY <1>6
  <2>2. j \in Indexes(Top.tab) /\ j >= Top.idx /\ j \in Nat /\ j <= i
    BY <1>2, <1>5, <2>1
  <2>3. \A u \in {v \in Indexes(Top.tab) : v >= Top.idx /\ tables[Top.tab][v] # Invalid} : j < u
    <3>1. ASSUME NEW u \in Indexes(Top.tab), u >= Top.idx, tables[Top.tab][u] # Invalid
          PROVE  j < u
      <4>1. i < u
        BY <3>1 DEF FreeEntries
      <4>. QED  BY <4>1, <1>5, <2>1, <2>2
    <3>. QED  BY <3>1
  <2>4. EndVa(Region) >= Top.va + (j - Top.idx + 1) * b - 1
    <3>. DEFINE x == i - Top.idx + 1
                y == j - Top.idx + 1
    <3>1. x \in Nat /\ y \in Nat /\ y <= x
      BY <1>2, <2>1, <2>2
    <3>2. EndVa(Region) >= Top.va + x * b - 1
      BY <2>1
    <3>. HIDE DEF x, y, b
    <3>3. y * b <= x * b /\ y * b \in Nat /\ x * b \in Nat
      BY <3>1, <1>2
    <3>4. EndVa(Region) >= Top.va + y * b - 1
      BY <1>2, <1>4, <3>2, <3>3
    <3>. QED  BY <3>4 DEF y, b
  <2>. QED  BY <2>2, <2>3, <2>4 DEF FreeEntries
<1>8. Top.idx \in F
  <2>1. \A u \in Indexes(Top.tab) : u >= Top.idx /\ tables[Top.tab][u] # Invalid => Top.idx < u
    <3>1. ASSUME NEW u \in Indexes(Top.tab), u >= Top.idx, tables[Top.tab][u] # Invalid
          PROVE  Top.idx < u
      <4>1. u # Top.idx
        BY <3>1 DEF Entry
      <4>. QED  BY <3>1, <4>1, <1>2, <1>5
    <3>. QED  BY <3>1
  <2>2. Top.idx - Top.idx + 1 = 1 /\ 1 * b = b
    BY <1>2
  <2>3. EndVa(Region) >= Top.va + (Top.idx - Top.idx + 1) * b - 1
    BY <1>2, <2>2 DEF Covered
  <2>4. Top.idx >= Top.idx
    BY <1>2
  <2>. QED  BY <1>2, <2>1, <2>3, <2>4 DEF FreeEntries
<1>. HIDE DEF F
<1>9. IsFiniteSet(F) /\ n \in Nat
  <2>1. F \subseteq 0 .. k - 1
    BY <1>5, <1>6
  <2>2. IsFiniteSet(0 .. k - 1)
    BY FS_Interval
  <2>. QED  BY <2>1, <2>2, FS_Subset, FS_CardinalityType
<1>10. ASSUME NEW i \in F PROVE i - Top.idx + 1 <= n
  <2>1. Top.idx .. i \subseteq F /\ i \in Nat /\ i >= Top.idx
    BY <1>6, <1>7
  <2>2. Cardinality(Top.idx .. i) <= n
    BY <2>1, <1>9, FS_Subset
  <2>3. Cardinality(Top.idx .. i) = i - Top.idx + 1
    <3>1. Top.idx \in Int /\ i \in Int /\ Top.idx <= i
      BY <1>2, <2>1
    <3>. QED  BY <3>1, IntervalSize, Zenon
  <2>. QED  BY <2>2, <2>3
<1>11. n >= 1
  <2>1. Top.idx - Top.idx + 1 <= n
    BY <1>8, <1>10
  <2>. QED  BY <2>1, <1>2
<1>. HIDE DEF n
<1>12. F \subseteq Top.idx .. Top.idx + n - 1
  BY <1>2, <1>6, <1>9, <1>10
<1>13. F = Top.idx .. Top.idx + n - 1
  <2>. DEFINE R == Top.idx .. Top.idx + n - 1
  <2>1. IsFiniteSet(R) /\ Cardinality(R) = n
    <3>. DEFINE y == Top.idx + n - 1
    <3>1. Top.idx \in Int /\ y \in Int /\ Top.idx <= y /\ y - Top.idx + 1 = n /\ R = Top.idx .. y
      BY <1>2, <1>9, <1>11
    <3>. HIDE DEF y, R
    <3>2. Cardinality(Top.idx .. y) = y - Top.idx + 1 /\ IsFiniteSet(Top.idx .. y)
      BY <3>1, IntervalSize, Zenon
    <3>. QED  BY <3>1, <3>2
  <2>. HIDE DEF R
  <2>2. F \subseteq R
    BY <1>12 DEF R
  <2>3. Cardinality(F) = Cardinality(R)
    BY <2>1 DEF n
  <2>4. F = R
    BY <2>1, <2>2, <2>3, FS_Subset
  <2>. QED  BY <2>4 DEF R
<1>14. n \in Nat \ {0}
  BY <1>9, <1>11
<1>. QED  BY <1>6, <1>13, <1>14 DEF F, n

-----------------------------------------------------------------------------
(* Steps of the loop.                                                        *)

LEMMA FrameSame ==
  ASSUME NEW lev, NEW tag, NEW lev2, NEW tag2, NEW d \in 1 .. Len(stack), Len(stack) \in Nat,
         \A k \in 1 .. Len(stack) : FrameOk(lev, tag, k),
         \A t \in Live : t \in Live' /\ lev2[t] = lev[t] /\ tag2[t] = tag[t],
         Region' = Region, \A k \in 1 .. d : stack'[k] = stack[k]
  PROVE  FrameOk(lev2, tag2, d)'
<1>1. FrameOk(lev, tag, d) /\ stack'[d] = stack[d] /\ stack[d].tab \in Live
  BY DEF FrameOk
<1>2. FrameNum(tag2, d)' = FrameNum(tag, d)
  BY <1>1 DEF FrameNum, Number
<1>3. ASSUME d # 1 PROVE FrameNum(tag2, d - 1)' = FrameNum(tag, d - 1)
  <2>1. d - 1 \in 1 .. Len(stack) /\ d - 1 \in 1 .. d
    BY <1>3
  <2>2. FrameOk(lev, tag, d - 1) /\ stack'[d - 1] = stack[d - 1]
    BY <2>1
  <2>3. stack[d - 1].tab \in Live
    BY <2>2 DEF FrameOk
  <2>. QED  BY <2>2, <2>3 DEF FrameNum, Number
<1>4. /\ stack[d].tab \in Live' /\ lev2[stack[d].tab] = BaseLevel + d - 1
      /\ stack[d].idx \in Indexes(stack[d].tab)
      /\ stack[d].va = Lo(BaseLevel + d - 1, FrameNum(tag, d))
      /\ Region.va < stack[d].va + BlockSize(BaseLevel + d - 1)
      /\ tag2[stack[d].tab] = IF d = 1 THEN 0 ELSE FrameNum(tag, d - 1)
  BY <1>1 DEF FrameOk
<1>. QED  BY <1>1, <1>2, <1>3, <1>4 DEF FrameOk

LEMMA Frontal ==
  ASSUME NEW S, NEW s \in Seq(S), s # <<>>, NEW e \in S
  PROVE  /\ Front(s) \in Seq(S) /\ Len(Front(s)) = Len(s) - 1
         /\ \A k \in 1 .. Len(s) - 1 : Front(s)[k] = s[k]
         /\ Append(Front(s), e) \in Seq(S) /\ Len(Append(Front(s), e)) = Len(s)
         /\ \A k \in 1 .. Len(s) - 1 : Append(Front(s), e)[k] = s[k]
         /\ Append(Front(s), e)[Len(s)] = e
         /\ Append(s, e) \in Seq(S) /\ Len(Append(s, e)) = Len(s) + 1
         /\ \A k \in 1 .. Len(s) : Append(s, e)[k] = s[k]
         /\ Append(s, e)[Len(s) + 1] = e
<1>. DEFINE f == SubSeq(s, 1, Len(s) - 1)
<1>1. Len(s) \in Nat \ {0} /\ \A k \in 1 .. Len(s) : s[k] \in S
  BY EmptySeq
<1>2. f \in Seq(S) /\ Len(f) = Len(s) - 1 /\ \A k \in 1 .. Len(s) - 1 : f[k] = s[k]
  <2>1. ASSUME NEW m \in Nat, \A i \in 1 .. m : s[i] \in S
        PROVE  /\ SubSeq(s, 1, m) \in Seq(S) /\ Len(SubSeq(s, 1, m)) = m
               /\ \A k \in 1 .. m : SubSeq(s, 1, m)[k] = s[k]
    BY <2>1, SubSeqProperties
  <2>2. Len(s) - 1 \in Nat /\ \A i \in 1 .. Len(s) - 1 : s[i] \in S
    BY <1>1
  <2>. QED  BY <2>1, <2>2, Zenon
<1>3. Front(s) = f
  BY DEF Front
<1>. HIDE DEF f
<1>4. /\ Append(f, e) \in Seq(S) /\ Len(Append(f, e)) = Len(s)
      /\ \A k \in 1 .. Len(s) - 1 : Append(f, e)[k] = s[k]
      /\ Append(f, e)[Len(s)] = e
  BY <1>1, <1>2
<1>5. /\ Append(s, e) \in Seq(S) /\ Len(Append(s, e)) = Len(s) + 1
      /\ \A k \in 1 .. Len(s) : Append(s, e)[k] = s[k]
      /\ Append(s, e)[Len(s) + 1] = e
  BY <1>1
<1>. QED  BY <1>2, <1>3, <1>4, <1>5

LEMMA LoAdd ==
  ASSUME NEW l \in 0 .. 3, NEW x \in Nat, NEW n \in Nat \ {0}
  PROVE  /\ Lo(l, x + n) = Lo(l, x) + n * BlockSize(l)
         /\ n * BlockSize(l) \in Nat /\ n * BlockSize(l) >= BlockSize(l)
<1>. DEFINE b == BlockSize(l)
<1>1. b \in Nat \ {0}
  BY BlockPositive
<1>. HIDE DEF b
<1>2. (x + n) * b = x * b + n * b /\ n * b \in Nat
  BY <1>1
<1>3. (n - 1) * b \in Nat /\ n * b = (n - 1) * b + b
  BY <1>1
<1>4. n * b >= b
  BY <1>1, <1>2, <1>3
<1>. QED  BY <1>2, <1>4 DEF Lo, b

\* After n entries, the address is at the end of the table or before it; only at
\* its end, or at the end of the region, the loop is left.
LEMMA TableEnd ==
  ASSUME NEW lev, NEW tag, Here(lev, tag), Walking, stack # <<>>, NEW n \in Nat \ {0},
         Top.idx + n - 1 \in Indexes(Top.tab),
         NEW new \in Nat, new = Lo(Level, TopNum(tag) + n), new <= EndVa(Region) + 1,
         Top.idx + n \notin Indexes(Top.tab) \/ EndVa(Region) <= new
  PROVE  \/ new = EndVa(Region) + 1
         \/ Len(stack) > 1 /\ new = stack[Len(stack) - 1].va + BlockSize(Level - 1)
<1>. DEFINE end == EndVa(Region)
            len == Len(stack)
<1>9. len \in Nat /\ len >= 1 /\ len <= 4 - BaseLevel /\ Level = BaseLevel + len - 1
  BY TopFacts DEF Level
<1>1. /\ Level \in 0 .. 3 /\ TopNum(tag) \in Nat
      /\ Top.idx \in Nat /\ Top.tab \in Live /\ lev[Top.tab] = Level
  BY TopFacts
<1>2. /\ BaseLevel \in 0 .. 3 /\ Entries \in Nat \ {0} /\ BaseEntries \in Nat \ {0}
      /\ PageSize \in Nat /\ PageSize >= 2
  BY Constants
<1>3. Region \in Regions
  BY AtHand DEF Here, Inv
<1>4. end \in Nat /\ end <= VaMax /\ (end + 1) % PageSize = 0 /\ VaMax \in Nat
  BY <1>3, RegionFacts, RegionPages, Constants
<1>. HIDE DEF end, len
<1>5. new <= end + 1
  BY DEF end
<1>6. CASE end <= new
  <2>1. new % PageSize = 0
    <3>1. TopNum(tag) + n \in Nat
      BY <1>1
    <3>. QED  BY <1>1, <3>1, LoPages
  <2>2. end + 1 < new + PageSize /\ end + 1 \in Nat
    BY <1>2, <1>4, <1>6
  <2>3. end + 1 <= new
    BY <1>4, <2>1, <2>2, PagesApart
  <2>4. new = end + 1
    BY <1>4, <1>5, <2>3
  <2>. QED  BY <2>4 DEF end
<1>7. CASE end > new
  <2>1. Top.idx + n \notin Indexes(Top.tab)
    BY <1>4, <1>7 DEF end
  <2>2. ASSUME NEW k \in Nat, Indexes(Top.tab) = 0 .. k - 1 PROVE Top.idx + n = k
    <3>1. Top.idx + n - 1 \in 0 .. k - 1 /\ Top.idx + n \notin 0 .. k - 1 /\ Top.idx \in Nat
      BY <1>1, <2>1, <2>2
    <3>. QED  BY <3>1
  <2>3. CASE len = 1
    <3>1. Level = BaseLevel
      BY <1>2, <1>9, <2>3
    <3>2. Top.tab = 0 /\ tag[0] = 0
      BY <1>1, <3>1, BaseTable DEF Here, MapInv
    <3>3. Top.idx + n = BaseEntries
      BY <1>2, <2>2, <3>2 DEF Indexes
    <3>4. TopNum(tag) = Top.idx
      BY <1>1, <1>2, <3>2 DEF TopNum, Number
    <3>5. new = BaseEntries * BlockSize(BaseLevel)
      BY <3>1, <3>3, <3>4 DEF Lo
    <3>6. VaMax < new
      BY <3>5, BaseTableReaches
    <3>. QED  BY <1>4, <1>7, <3>6
  <2>4. CASE len > 1
    <3>. DEFINE d == len - 1
                l == Level - 1
                m == FrameNum(tag, d)
    <3>1. d \in 1 .. len /\ len \in 1 .. len /\ len # 1
      BY <1>2, <1>9, <2>4
    <3>2. l = BaseLevel + d - 1 /\ l \in 0 .. 2 /\ Level = l + 1
      BY <1>2, <1>9, <2>4
    <3>3. FrameOk(lev, tag, d) /\ FrameOk(lev, tag, len)
      BY <3>1 DEF Here, MapInv, FramesOk, len
    <3>4. stack[d].va = Lo(l, m)
      BY <3>2, <3>3 DEF FrameOk
    <3>5. tag[Top.tab] = m
      BY <3>1, <3>3 DEF FrameOk, Top, len
    <3>6. m \in Nat
      BY <1>1, <3>5, TreeTypes DEF Here, MapInv
    <3>7. Top.tab # 0
      <4>1. Level # BaseLevel
        BY <1>2, <1>9, <2>4
      <4>. QED  BY <1>1, <4>1, BaseTable DEF Here, MapInv
    <3>8. Top.idx + n = Entries
      BY <1>2, <2>2, <3>7 DEF Indexes
    <3>9. TopNum(tag) = m * Entries + Top.idx
      BY <3>5 DEF TopNum, Number
    <3>. HIDE DEF d, l, m
    <3>10. TopNum(tag) + n = m * Entries + Entries
      <4>1. m * Entries \in Nat
        BY <1>2, <3>6
      <4>. QED  BY <1>1, <3>8, <3>9, <4>1
    <3>11. new = Lo(l, m + 1)
      BY ZenonT(30), <3>2, <3>6, <3>10, LoNest
    <3>12. Lo(l, m + 1) = Lo(l, m) + BlockSize(l)
      <4>1. l \in 0 .. 3
        BY <3>2
      <4>. QED  BY <3>6, <4>1, LoType
    <3>13. new = stack[d].va + BlockSize(l)
      BY <3>4, <3>11, <3>12
    <3>. QED  BY <2>4, <3>13 DEF d, l, len
  <2>5. len = 1 \/ len > 1
    BY <1>9
  <2>. QED  BY <2>3, <2>4, <2>5
<1>8. end <= new \/ end > new
  BY <1>4
<1>. QED  BY <1>6, <1>7, <1>8

LEMMA AdvanceFrames ==
  ASSUME NEW lev, NEW tag, Here(lev, tag), Walking, stack # <<>>, NEW n \in Nat \ {0},
         Top.idx + n - 1 \in Indexes(Top.tab),
         Top.va + n * BlockSize(Level) <= EndVa(Region) + 1,
         Advance(n), UNCHANGED <<mmap, todo, next_table>>
  PROVE  /\ FramesOk(lev, tag)' /\ Walking'
         /\ Reached' = Top.va + n * BlockSize(Level)
<1>. DEFINE b == BlockSize(Level)
            new == Top.va + n * b
            next == [Top EXCEPT !.idx = @ + n, !.va = @ + n * b]
            end == EndVa(Region)
<1>1. /\ stack \in Seq(Frames) /\ Level \in 0 .. 3
      /\ Top \in Frames /\ Top.tab \in Live /\ lev[Top.tab] = Level /\ Top.idx \in Nat
      /\ TopNum(tag) \in Nat /\ Top.va = Lo(Level, TopNum(tag)) /\ Top.va \in Nat
      /\ b \in Nat \ {0} /\ EntryEnd = Top.va + b - 1 /\ Region.va <= EntryEnd
  BY TopFacts
<1>17. PICK len \in Nat : len = Len(stack)
  BY TopFacts
<1>2. /\ len \in Nat /\ len >= 1 /\ len <= 4 - BaseLevel /\ Level = BaseLevel + len - 1
      /\ BaseLevel \in 0 .. 3
  BY <1>17, TopFacts, Constants DEF Level
<1>3. /\ new = Lo(Level, TopNum(tag) + n) /\ n * b \in Nat /\ n * b >= b
      /\ new = Top.va + n * b
  <2>1. /\ Lo(Level, TopNum(tag) + n) = Lo(Level, TopNum(tag)) + n * BlockSize(Level)
        /\ n * BlockSize(Level) \in Nat /\ n * BlockSize(Level) >= BlockSize(Level)
    <3>1. Level \in 0 .. 3 /\ TopNum(tag) \in Nat
      BY <1>1
    <3>. QED  BY <3>1, LoAdd, Zenon
  <2>. QED  BY <1>1, <2>1, Zenon
<1>4. Region \in Regions /\ Region' = Region
  BY AtHand DEF Here, Inv, Region
<1>5. end \in Nat /\ Region.va \in Nat /\ new <= end + 1
  BY <1>4, RegionFacts
<1>6. next = [Top EXCEPT !.idx = Top.idx + n, !.va = new]
  BY <1>1 DEF Frames
<1>7. IF next.idx \in Indexes(Top.tab) /\ end > next.va
      THEN stack' = Append(Front(stack), next) /\ pc' = "map" /\ UNCHANGED ret
      ELSE stack' = Front(stack) /\ ret' = next.va - 1 /\ pc' = "return"
  BY DEF Advance
<1>8. new \in Nat
  <2>. HIDE DEF b
  <2>. QED  BY <1>1, <1>3
<1>. HIDE DEF new, end, next
<1>9. next \in Frames /\ next.tab = Top.tab /\ next.idx = Top.idx + n /\ next.va = new
  <2>. DEFINE x == Top.idx + n
  <2>1. x \in Nat
    BY <1>1
  <2>. HIDE DEF x
  <2>2. ASSUME NEW r \in Frames, NEW s, s = [r EXCEPT !.idx = x, !.va = new]
        PROVE  s \in Frames /\ s.tab = r.tab /\ s.idx = x /\ s.va = new
    BY <1>8, <2>1, <2>2 DEF Frames
  <2>3. next = [Top EXCEPT !.idx = x, !.va = new]
    BY <1>6 DEF x
  <2>. QED  BY <1>1, <2>2, <2>3 DEF x
<1>. HIDE DEF b
<1>10. Region.va <= new - 1 /\ new - 1 \in Nat /\ new - 1 <= end /\ Region.va < new + b
  <2>. DEFINE c == n * b
  <2>1. c \in Nat /\ c >= b /\ new = Top.va + c
    BY <1>3
  <2>2. Top.va \in Nat /\ b \in Nat /\ b >= 1 /\ Region.va <= Top.va + b - 1
    BY <1>1
  <2>3. Region.va \in Nat /\ end \in Nat /\ new <= end + 1
    BY <1>5
  <2>. HIDE DEF c
  <2>4. Region.va < new /\ new >= 1
    BY <1>8, <2>1, <2>2, <2>3
  <2>. QED  BY <1>8, <2>2, <2>3, <2>4
<1>11. /\ Front(stack) \in Seq(Frames) /\ Len(Front(stack)) = len - 1
       /\ \A k \in 1 .. len - 1 : Front(stack)[k] = stack[k]
       /\ Append(Front(stack), next) \in Seq(Frames)
       /\ Len(Append(Front(stack), next)) = len
       /\ \A k \in 1 .. len - 1 : Append(Front(stack), next)[k] = stack[k]
       /\ Append(Front(stack), next)[len] = next
  <2>1. stack \in Seq(Frames) /\ next \in Frames
    BY <1>1, <1>9
  <2>. QED  BY <1>17, <2>1, Frontal
<1>12. stack' \in Seq(Frames) /\ \A k \in 1 .. len - 1 : stack'[k] = stack[k]
  BY <1>7, <1>11
<1>13. Live' = Live /\ \A d \in 1 .. Len(stack) : FrameOk(lev, tag, d)
  BY DEF Live, Here, MapInv, FramesOk
<1>14. ASSUME NEW d \in 1 .. len - 1 PROVE FrameOk(lev, tag, d)'
  <2>1. d \in 1 .. len /\ \A k \in 1 .. d : k \in 1 .. len - 1
    BY <1>2
  <2>2. \A k \in 1 .. d : stack'[k] = stack[k]
    BY <1>12, <2>1
  <2>3. d \in 1 .. Len(stack) /\ Len(stack) \in Nat
    BY <1>2, <1>17, <2>1
  <2>. QED  BY <1>4, <1>13, <2>2, <2>3, FrameSame, Zenon
<1>15. CASE next.idx \in Indexes(Top.tab) /\ end > next.va
  <2>1. stack' = Append(Front(stack), next) /\ pc' = "map"
    BY <1>7, <1>15
  <2>2. Len(stack') = len /\ stack'[len] = next /\ Top' = next
    BY <1>11, <2>1 DEF Top
  <2>3. Number(tag, next.tab, next.idx) = TopNum(tag) + n
    <3>1. tag[Top.tab] * Entries \in Nat
      <4>1. tag[Top.tab] \in Nat /\ Entries \in Nat
        BY <1>1, TreeTypes, Constants DEF Here, MapInv
      <4>. QED  BY <4>1
    <3>2. TopNum(tag) = tag[Top.tab] * Entries + Top.idx
      BY DEF TopNum, Number
    <3>3. Number(tag, next.tab, next.idx) = tag[Top.tab] * Entries + (Top.idx + n)
      BY <1>9 DEF Number
    <3>. QED  BY SMTT(20), <1>1, <3>1, <3>2, <3>3
  <2>4. FrameNum(tag, len)' = TopNum(tag) + n
    BY <2>2, <2>3 DEF FrameNum
  <2>5. len # 1 => FrameNum(tag, len - 1)' = FrameNum(tag, len - 1)
    <3>1. len # 1 => len - 1 \in 1 .. len - 1
      BY <1>2
    <3>. QED  BY <1>12, <3>1 DEF FrameNum
  <2>6. tag[Top.tab] = IF len = 1 THEN 0 ELSE FrameNum(tag, len - 1)
    <3>1. len \in 1 .. Len(stack)
      BY <1>2, <1>17
    <3>2. FrameOk(lev, tag, len)
      BY <1>13, <3>1
    <3>. QED  BY <1>17, <3>2 DEF FrameOk, Top
  <2>7. FrameOk(lev, tag, len)'
    <3>1. /\ next.tab \in Live' /\ lev[next.tab] = BaseLevel + len - 1
          /\ next.idx \in Indexes(next.tab)
      BY <1>1, <1>2, <1>9, <1>13, <1>15
    <3>2. next.va = Lo(BaseLevel + len - 1, TopNum(tag) + n)
      BY <1>2, <1>3, <1>9
    <3>3. Region'.va < next.va + BlockSize(BaseLevel + len - 1)
      BY <1>2, <1>4, <1>9, <1>10 DEF b
    <3>4. tag[next.tab] = IF len = 1 THEN 0 ELSE FrameNum(tag, len - 1)
      BY <1>9, <2>6
    <3>. QED  BY <2>2, <2>4, <2>5, <3>1, <3>2, <3>3, <3>4, Zenon DEF FrameOk
  <2>8. \A d \in 1 .. len : FrameOk(lev, tag, d)'
    <3>1. \A d \in 1 .. len : d = len \/ d \in 1 .. len - 1
      BY <1>2
    <3>. QED  BY <1>14, <2>7, <3>1, Zenon
  <2>9. stack' # <<>> /\ Top'.va <= EndVa(Region)'
    <3>1. Top'.va = new
      BY <1>9, <2>2
    <3>2. Len(stack') # 0
      BY <1>2, <2>2
    <3>3. new <= EndVa(Region')
      BY <1>4, <1>5, <1>8, <1>9, <1>15 DEF end
    <3>. QED  BY <3>1, <3>2, <3>3
  <2>10. FramesOk(lev, tag)'
    BY <1>2, <1>12, <2>1, <2>2, <2>8, <2>9 DEF FramesOk
  <2>11. Walking' /\ Reached' = new
    BY <1>9, <2>1, <2>2 DEF Walking, Reached
  <2>. QED  BY <2>10, <2>11 DEF new, b
<1>16. CASE ~(next.idx \in Indexes(Top.tab) /\ end > next.va)
  <2>1. stack' = Front(stack) /\ ret' = new - 1 /\ pc' = "return"
    BY <1>7, <1>9, <1>16
  <2>2. Len(stack') = len - 1
    BY <1>11, <2>1
  <2>3. \A d \in 1 .. Len(stack') : FrameOk(lev, tag, d)'
    BY <1>14, <2>2
  <2>4. new = end + 1 \/ (len > 1 /\ new = stack[len - 1].va + BlockSize(Level - 1))
    <3>1. Top.idx + n \notin Indexes(Top.tab) \/ EndVa(Region) <= new
      BY <1>5, <1>8, <1>9, <1>16 DEF end
    <3>2. new <= EndVa(Region) + 1
      BY <1>5 DEF end
    <3>. QED  BY <1>3, <1>8, <1>17, <3>1, <3>2, TableEnd DEF end
  <2>5. CASE new = end + 1
    <3>1. ret' = EndVa(Region)'
      BY <1>4, <1>5, <2>1, <2>5 DEF end
    <3>. QED
      <4>1. ret' \in Nat /\ Region'.va <= ret' /\ ret' <= EndVa(Region)'
        BY <1>4, <1>10, <2>1 DEF end
      <4>2. FramesOk(lev, tag)'
        BY <1>2, <1>12, <2>1, <2>2, <2>3, <3>1, <4>1 DEF FramesOk
      <4>3. Walking' /\ Reached' = new
        <5>1. new - 1 + 1 = new
          BY <1>8
        <5>. QED  BY <2>1, <5>1 DEF Walking, Reached
      <4>. QED  BY <4>2, <4>3 DEF new, b
  <2>6. CASE len > 1 /\ new = stack[len - 1].va + BlockSize(Level - 1)
    <3>1. len - 1 \in 1 .. len - 1 /\ BaseLevel + (len - 1) - 1 = Level - 1 /\ len - 1 # 0
      BY <1>2, <2>6
    <3>2. Top' = stack[len - 1]
      BY <1>12, <2>2, <3>1 DEF Top
    <3>3. Level' = Level - 1
      BY <2>2, <3>1 DEF Level
    <3>4. EntryEnd' = Top'.va + BlockSize(Level') - 1
      BY DEF EntryEnd
    <3>5. Top'.va \in Nat /\ BlockSize(Level - 1) \in Nat
      <4>1. stack[len - 1] \in Frames /\ Level - 1 \in 0 .. 3
        BY <1>1, <1>2, <1>17, <3>1, <2>6
      <4>. QED  BY <3>2, <4>1, BlockPositive DEF Frames
    <3>6. EntryEnd' = new - 1
      BY SMTT(20), <2>6, <3>2, <3>3, <3>4, <3>5
    <3>7. stack' # <<>>
      <4>1. Len(stack') # 0
        BY <2>2, <3>1
      <4>. QED  BY <4>1
    <3>. QED
      <4>1. ret' \in Nat /\ Region'.va <= ret' /\ ret' <= EndVa(Region)'
        BY <1>4, <1>10, <2>1 DEF end
      <4>2. FramesOk(lev, tag)'
        BY <1>2, <1>12, <2>1, <2>2, <2>3, <3>6, <3>7, <4>1 DEF FramesOk
      <4>3. Walking' /\ Reached' = new
        <5>1. new - 1 + 1 = new
          BY <1>8
        <5>. QED  BY <2>1, <5>1 DEF Walking, Reached
      <4>. QED  BY <4>2, <4>3 DEF new, b
  <2>. QED  BY <2>4, <2>5, <2>6
<1>. QED  BY <1>15, <1>16

\* Frame f is at the entry of table t in which region r begins, or at its first
\* entry; the table has k entries, for the blocks from m on.
FirstFrame(f, t, l, m, k, r) ==
  /\ f = [tab |-> t, va |-> f.va, idx |-> f.idx]
  /\ f.idx \in 0 .. k - 1 /\ f.va = Lo(l, m + f.idx) /\ f.va \in Nat
  /\ r.va < f.va + BlockSize(l)
  /\ f.va <= r.va \/ f.va = Lo(l, m)

LEMMA FrameFacts ==
  ASSUME NEW t, NEW l \in 0 .. 3, NEW m \in Nat, NEW k \in Nat \ {0}, NEW r \in Regions,
         NEW f, f = Frame(t, Lo(l, m), l, r), r.va < Lo(l, m + k)
  PROVE  FirstFrame(f, t, l, m, k, r)
<1>. DEFINE b == BlockSize(l)
            base == Lo(l, m)
            va == IF r.va > base THEN r.va - (r.va % b) ELSE base
<1>1. f = [tab |-> t, va |-> va, idx |-> (va - base) \div b]
  BY DEF Frame
<1>2. b \in Nat \ {0} /\ base \in Nat /\ base = b * m
  BY LoType
<1>3. r.va \in Nat
  BY RegionFacts
<1>4. ASSUME NEW x \in Nat, NEW y \in Nat
      PROVE  Lo(l, x) = b * x /\ Lo(l, x) \in Nat /\ Lo(l, x + y) = b * (x + y)
  <2>1. x + y \in Nat
    OBVIOUS
  <2>. QED  BY <2>1, LoType
<1>. HIDE DEF b, base, va
<1>5. ASSUME NEW i \in 0 .. k - 1, va = Lo(l, m + i)
      PROVE  f.idx = i /\ f.va = Lo(l, m + f.idx) /\ f.va \in Nat
  <2>1. i \in Nat /\ i \in Int
    OBVIOUS
  <2>2. va = b * (m + i) /\ va \in Nat
    BY <1>4, <1>5, <2>1
  <2>3. b * (m + i) = b * m + b * i
    BY <1>2, <2>1
  <2>4. va - base = b * i
    <3>1. b * m \in Int /\ b * i \in Int
      BY <1>2, <2>1
    <3>. QED  BY <1>2, <2>2, <2>3, <3>1
  <2>5. (b * i) \div b = i
    BY <1>2, <2>1, Multiple
  <2>6. f.idx = i /\ f.va = va
    BY <1>1, <2>4, <2>5
  <2>. QED  BY <1>5, <2>2, <2>6
<1>6. CASE ~(r.va > base)
  <2>1. va = base
    BY <1>6 DEF va
  <2>2. va = Lo(l, m + 0)
    BY <2>1 DEF base
  <2>3. 0 \in 0 .. k - 1
    OBVIOUS
  <2>4. f.idx = 0 /\ f.va = Lo(l, m + f.idx) /\ f.va \in Nat
    BY <1>5, <2>2, <2>3
  <2>5. f.va = base
    BY <1>1, <2>1
  <2>6. r.va < f.va + b
    BY <1>2, <1>3, <1>6, <2>5
  <2>. QED  BY <1>1, <2>3, <2>4, <2>5, <2>6 DEF b, base, FirstFrame
<1>7. CASE r.va > base
  <2>. DEFINE q == r.va \div b
  <2>1. q \in Nat /\ r.va \in Span(l, q) /\ r.va - (r.va % b) = Lo(l, q)
    BY <1>3, RoundsToBlock DEF b
  <2>2. va = Lo(l, q)
    BY <1>7, <2>1 DEF va
  <2>. HIDE DEF q
  <2>3. Lo(l, q) <= r.va /\ r.va < Lo(l, q) + b /\ Lo(l, q) \in Nat
    <3>1. Lo(l, q) \in Nat /\ Lo(l, q) <= r.va /\ r.va <= Lo(l, q) + b - 1
      BY <1>4, <2>1 DEF Span, b
    <3>. QED  BY <1>2, <1>3, <3>1
  <2>4. Lo(l, q) = b * q /\ Lo(l, q + 1) = b * (q + 1) /\ Lo(l, m + k) = b * (m + k)
    BY <1>4, <2>1
  <2>5. b * (q + 1) = b * q + b
    BY <1>2, <2>1
  <2>6. m <= q
    <3>1. b * m < b * (q + 1)
      BY <1>2, <1>3, <1>7, <2>3, <2>4, <2>5
    <3>2. SUFFICES ASSUME q + 1 <= m PROVE FALSE
      BY <2>1
    <3>3. b * (q + 1) <= b * m
      BY <1>2, <2>1, <3>2
    <3>4. b * (q + 1) \in Nat /\ b * m \in Nat
      BY <1>2, <2>1
    <3>. QED  BY <3>1, <3>3, <3>4
  <2>7. q < m + k
    <3>1. b * q < b * (m + k)
      BY <1>3, <2>3, <2>4, <1>4
    <3>2. SUFFICES ASSUME m + k <= q PROVE FALSE
      BY <2>1
    <3>3. b * (m + k) <= b * q
      BY <1>2, <2>1, <3>2
    <3>4. b * q \in Nat /\ b * (m + k) \in Nat
      BY <1>2, <2>1
    <3>. QED  BY <3>1, <3>3, <3>4
  <2>8. q - m \in 0 .. k - 1 /\ m + (q - m) = q
    BY <2>1, <2>6, <2>7
  <2>9. f.idx = q - m /\ f.va = Lo(l, m + f.idx) /\ f.va \in Nat
    BY <1>5, <2>2, <2>8
  <2>10. f.va = Lo(l, q)
    BY <1>1, <2>2
  <2>. QED  BY <1>1, <2>3, <2>8, <2>9, <2>10 DEF b, FirstFrame
<1>. QED  BY <1>6, <1>7

LEMMA EnterFrames ==
  ASSUME NEW lev, NEW tag, NEW lev2, NEW tag2, Here(lev, tag), pc = "map", Level # 3,
         NEW u \in TableIds \ {0}, u \in Live', lev2[u] = Level + 1, tag2[u] = TopNum(tag),
         \A t \in Live : t \in Live' /\ lev2[t] = lev[t] /\ tag2[t] = tag[t],
         Enter(u), UNCHANGED <<mmap, todo, pc, ret>>
  PROVE  /\ FramesOk(lev2, tag2)' /\ Walking'
         /\ \A a \in Nat : Region.va <= a /\ a < Reached' => a < Top.va
<1>1. Walking /\ stack # <<>> /\ Top.va <= EndVa(Region)
  BY Overlap
<1>2. /\ stack \in Seq(Frames) /\ Level \in 0 .. 3 /\ TopNum(tag) \in Nat
      /\ Top.va = Lo(Level, TopNum(tag)) /\ Top.va \in Nat /\ BlockSize(Level) \in Nat \ {0}
      /\ EntryEnd = Top.va + BlockSize(Level) - 1 /\ Region.va <= EntryEnd
  BY <1>1, TopFacts
<1>3. PICK len \in Nat : len = Len(stack)
  BY <1>1, TopFacts
<1>4. /\ len >= 1 /\ len <= 4 - BaseLevel /\ Level = BaseLevel + len - 1
      /\ BaseLevel \in 0 .. 3 /\ Entries \in Nat \ {0}
  BY <1>1, <1>3, TopFacts, Constants DEF Level
<1>5. Level \in 0 .. 2 /\ Level + 1 \in 0 .. 3 /\ BaseLevel + (len + 1) - 1 = Level + 1
  BY <1>2, <1>4
<1>6. Region \in Regions /\ Region' = Region
  BY <1>1, AtHand DEF Here, Inv, Region
<1>7. Region.va \in Nat /\ EndVa(Region) \in Nat /\ Region.va <= EndVa(Region)
  <2>1. /\ Region.va \in Nat /\ EndVa(Region) \in Nat /\ Region.size \in Nat \ {0}
        /\ EndVa(Region) = Region.va + Region.size - 1
    BY <1>6, RegionFacts
  <2>. HIDE DEF Region
  <2>. QED  BY <2>1
<1>. DEFINE m == TopNum(tag) * Entries
<1>8. m \in Nat /\ Top.va = Lo(Level + 1, m) /\ Region.va < Lo(Level + 1, m + Entries)
  <2>1. m \in Nat
    BY <1>2, <1>4
  <2>2. /\ Lo(Level + 1, m) = Lo(Level, TopNum(tag))
        /\ Lo(Level + 1, m + Entries) = Lo(Level, TopNum(tag) + 1)
    BY <1>2, <1>5, LoNest
  <2>3. Lo(Level, TopNum(tag) + 1) = Lo(Level, TopNum(tag)) + BlockSize(Level)
    BY <1>2, LoType
  <2>4. Region.va < Top.va + BlockSize(Level)
    BY <1>2, <1>7
  <2>. QED  BY <1>2, <2>1, <2>2, <2>3, <2>4
<1>9. PICK f : f = Frame(u, Top.va, Level + 1, Region)
  OBVIOUS
<1>10. /\ f = [tab |-> u, va |-> f.va, idx |-> f.idx]
       /\ f.idx \in 0 .. Entries - 1 /\ f.va = Lo(Level + 1, m + f.idx) /\ f.va \in Nat
       /\ Region.va < f.va + BlockSize(Level + 1)
       /\ f.va <= Region.va \/ f.va = Top.va
  <2>. HIDE DEF m
  <2>1. f = Frame(u, Lo(Level + 1, m), Level + 1, Region)
    BY <1>8, <1>9
  <2>2. Level + 1 \in 0 .. 3 /\ m \in Nat /\ Entries \in Nat \ {0} /\ Region \in Regions
    BY <1>4, <1>5, <1>6, <1>8
  <2>3. Region.va < Lo(Level + 1, m + Entries)
    BY <1>8
  <2>4. FirstFrame(f, u, Level + 1, m, Entries, Region)
    BY <2>1, <2>2, <2>3, FrameFacts, Zenon
  <2>. QED  BY <1>8, <2>4 DEF FirstFrame
<1>11. f \in Frames /\ f.tab = u
  BY <1>4, <1>10 DEF Frames
<1>12. stack' = Append(stack, f)
  BY <1>9 DEF Enter
<1>13. /\ stack' \in Seq(Frames) /\ Len(stack') = len + 1
       /\ \A k \in 1 .. len : stack'[k] = stack[k]
       /\ stack'[len + 1] = f
  <2>1. stack \in Seq(Frames) /\ f \in Frames
    BY <1>2, <1>11
  <2>. QED  BY <1>3, <1>12, <2>1
<1>14. Top' = f
  BY <1>13 DEF Top
<1>15. \A d \in 1 .. Len(stack) : FrameOk(lev, tag, d)
  BY <1>1 DEF Here, MapInv, FramesOk
<1>16. ASSUME NEW d \in 1 .. len PROVE FrameOk(lev2, tag2, d)'
  <2>1. d \in 1 .. len /\ \A k \in 1 .. d : k \in 1 .. len
    OBVIOUS
  <2>2. \A k \in 1 .. d : stack'[k] = stack[k]
    BY <1>13, <2>1
  <2>3. d \in 1 .. Len(stack) /\ Len(stack) \in Nat
    BY <1>3, <2>1
  <2>. QED  BY SMTT(20), <1>6, <1>15, <2>2, <2>3, FrameSame
<1>17. FrameOk(lev2, tag2, len + 1)'
  <2>1. /\ f.tab \in Live' /\ lev2[f.tab] = BaseLevel + (len + 1) - 1
        /\ f.idx \in Indexes(f.tab)
    BY <1>5, <1>10, <1>11 DEF Indexes
  <2>2. FrameNum(tag2, len + 1)' = m + f.idx
    BY <1>11, <1>13 DEF FrameNum, Number
  <2>3. len + 1 # 1 /\ len + 1 - 1 = len
    BY <1>4
  <2>4. FrameNum(tag2, len)' = TopNum(tag)
    <3>1. len \in 1 .. len
      BY <1>4
    <3>2. stack'[len] = Top
      BY <1>3, <1>13, <3>1 DEF Top
    <3>3. tag2[Top.tab] = tag[Top.tab]
      BY <1>1, TopFacts
    <3>. QED  BY <3>2, <3>3 DEF FrameNum, TopNum, Number
  <2>5. f.va = Lo(BaseLevel + (len + 1) - 1, m + f.idx)
    BY <1>5, <1>10
  <2>6. Region'.va < f.va + BlockSize(BaseLevel + (len + 1) - 1)
    BY <1>5, <1>6, <1>10
  <2>7. tag2[f.tab] = TopNum(tag)
    BY <1>11
  <2>. HIDE DEF m
  <2>8. FrameNum(tag2, len + 1 - 1)' = TopNum(tag)
    BY <2>3, <2>4
  <2>9. tag2[f.tab] = IF len + 1 = 1 THEN 0 ELSE FrameNum(tag2, len + 1 - 1)'
    BY <2>3, <2>7, <2>8
  <2>. QED  BY <1>13, <2>1, <2>2, <2>5, <2>6, <2>9 DEF FrameOk
<1>18. \A d \in 1 .. len + 1 : FrameOk(lev2, tag2, d)'
  <2>1. \A d \in 1 .. len + 1 : d = len + 1 \/ d \in 1 .. len
    OBVIOUS
  <2>. QED  BY <1>16, <1>17, <2>1, Zenon
<1>19. stack' # <<>> /\ Top'.va <= EndVa(Region)'
  <2>1. Len(stack') # 0
    BY <1>13
  <2>2. f.va <= EndVa(Region)
    BY <1>1, <1>2, <1>7, <1>10
  <2>. QED  BY <1>6, <1>14, <2>1, <2>2
<1>20. len + 1 <= 4 - BaseLevel
  BY <1>4, <1>5
<1>21. pc' = "map"
  OBVIOUS
<1>22. FramesOk(lev2, tag2)'
  BY <1>13, <1>18, <1>19, <1>20, <1>21 DEF FramesOk
<1>23. Walking' /\ Reached' = f.va
  BY <1>14, <1>21 DEF Walking, Reached
<1>24. ASSUME NEW a \in Nat, Region.va <= a, a < f.va PROVE a < Top.va
  BY <1>7, <1>10, <1>24
<1>. QED  BY <1>22, <1>23, <1>24

-----------------------------------------------------------------------------
(* What the entries say is kept.                                             *)

LEMMA EntryStays ==
  ASSUME NEW e, NEW l, NEW n, EntryOk(e, l, n), mmap' = mmap,
         1 .. Mapped \subseteq 1 .. Mapped', e = Invalid => Untouched(l, n)'
  PROVE  EntryOk(e, l, n)'
<1>1. \A j : FirstIn(j, l, n)' <=> FirstIn(j, l, n)
  BY DEF FirstIn
<1>2. \A j : (Maker(j, e, l, n)' <=> Maker(j, e, l, n)) /\ (Splitter(j, l, n)' <=> Splitter(j, l, n))
  BY <1>1 DEF Maker, Splitter
<1>. QED  BY <1>2 DEF EntryOk

LEMMA UntouchedStays ==
  ASSUME NEW l, NEW n, Untouched(l, n), Walking, Walking', mmap' = mmap, todo' = todo,
         \A a \in Span(l, n) : Region.va <= a /\ a < Reached' => a < Reached
  PROVE  Untouched(l, n)'
<1>1. Cur' = Cur /\ Region' = Region
  BY DEF Cur, Region
<1>2. \A j \in 1 .. Cur' - 1 : \A a \in Span(l, n) : ~In(a, mmap'[j])
  BY <1>1 DEF Untouched
<1>3. \A a \in Span(l, n) : ~(Region'.va <= a /\ a < Reached')
  BY <1>1 DEF Untouched
<1>. QED  BY <1>2, <1>3 DEF Untouched

\* A step that leaves the tables alone.
LEMMA WalkOn ==
  ASSUME NEW lev, NEW tag, Here(lev, tag), Walking, Walking', FramesOk(lev, tag)',
         UNCHANGED <<tables, next_table, mmap, todo>>,
         \A t \in Live : \A i \in Indexes(t) : tables[t][i] = Invalid =>
           \A a \in Span(lev[t], Number(tag, t, i)) :
             Region.va <= a /\ a < Reached' => a < Reached
  PROVE  MapInv(lev, tag)'
<1>. USE DEF Here, MapInv
<1>1. Live' = Live /\ Mapped' = Mapped
  BY DEF Live, Mapped, Cur
<1>2. Tree(lev, tag)'
  BY <1>1 DEF Tree, Leads
<1>3. EntryTypes'
  BY <1>1 DEF EntryTypes
<1>4. ASSUME NEW t \in Live, NEW i \in Indexes(t)
      PROVE  EntryOk(tables[t][i], lev[t], Number(tag, t, i))'
  <2>1. EntryOk(tables[t][i], lev[t], Number(tag, t, i))
    BY DEF Contents
  <2>2. tables[t][i] = Invalid => Untouched(lev[t], Number(tag, t, i))'
    BY <2>1, UntouchedStays DEF EntryOk
  <2>3. ASSUME NEW e, NEW l, NEW n, EntryOk(e, l, n), e = Invalid => Untouched(l, n)'
        PROVE  EntryOk(e, l, n)'
    BY <1>1, <2>3, EntryStays
  <2>4. ASSUME NEW e, e = tables[t][i] PROVE EntryOk(e, lev[t], Number(tag, t, i))'
    BY <2>1, <2>2, <2>3, <2>4 DEF Number
  <2>5. tables'[t][i] = tables[t][i]
    OBVIOUS
  <2>. QED  BY <2>4, <2>5
<1>5. Contents(lev, tag)'
  BY <1>1, <1>4 DEF Contents
<1>. QED  BY <1>2, <1>3, <1>5

LEMMA KeepEntryStep ==
  ASSUME NEW lev, NEW tag, Here(lev, tag), KeepEntry
  PROVE  MapInv(lev, tag)'
<1>1. pc = "map" /\ Entry.type = "leaf" /\ Covered /\ Advance(1)
      /\ UNCHANGED <<tables, next_table, mmap, todo>>
  BY DEF KeepEntry, mmapVars
<1>2. Walking /\ stack # <<>>
  BY <1>1, Overlap
<1>3. /\ Top.idx \in Indexes(Top.tab) /\ Top.idx \in Nat /\ Top.va \in Nat
      /\ BlockSize(Level) \in Nat \ {0} /\ EntryEnd = Top.va + BlockSize(Level) - 1
      /\ Top.tab \in Live /\ lev[Top.tab] = Level
  BY <1>2, TopFacts
<1>4. EndVa(Region) \in Nat /\ Region.va \in Nat
  <2>1. Region \in Regions
    BY <1>2, AtHand DEF Here, Inv
  <2>. QED  BY <2>1, RegionFacts
<1>5. /\ Top.idx + 1 - 1 \in Indexes(Top.tab) /\ 1 * BlockSize(Level) = BlockSize(Level)
      /\ Top.va + BlockSize(Level) <= EndVa(Region) + 1 /\ 1 \in Nat \ {0}
  BY <1>1, <1>3, <1>4 DEF Covered
<1>6. FramesOk(lev, tag)' /\ Walking' /\ Reached' = EntryEnd + 1
  <2>1. FramesOk(lev, tag)' /\ Walking' /\ Reached' = Top.va + 1 * BlockSize(Level)
    BY <1>1, <1>2, <1>5, AdvanceFrames
  <2>. QED  BY <1>3, <1>5, <2>1
<1>7. ASSUME NEW t \in Live, NEW i \in Indexes(t), tables[t][i] = Invalid,
             NEW a \in Span(lev[t], Number(tag, t, i)), Region.va <= a, a < Reached'
      PROVE  a < Reached
  <2>1. Reached = Top.va
    BY <1>1 DEF Reached
  <2>2. a \in Int
    <3>1. lev[t] \in 0 .. 3 /\ Number(tag, t, i) \in Nat
      BY TreeTypes DEF Here, MapInv
    <3>. QED  BY <3>1, LoType DEF Span
  <2>3. SUFFICES ASSUME a >= Top.va PROVE FALSE
    BY <1>3, <2>1, <2>2
  <2>4. a \in Span(Level, TopNum(tag))
    BY <1>2, <1>3, <1>6, <1>7, <2>2, <2>3, TopSpan
  <2>5. tables[t][i].type # "table" /\ tables[Top.tab][Top.idx].type # "table"
    BY <1>1, <1>7 DEF Invalid, Entry
  <2>6. t = Top.tab /\ i = Top.idx
    BY <1>3, <2>2, <2>4, <2>5, EntriesApart DEF Here, MapInv, TopNum
  <2>. QED  BY <1>1, <1>7, <2>6 DEF Invalid, Entry
<1>. QED  BY <1>1, <1>2, <1>6, <1>7, WalkOn

LEMMA ReturnWholeStep ==
  ASSUME NEW lev, NEW tag, Here(lev, tag), ReturnWhole
  PROVE  MapInv(lev, tag)'
<1>1. pc = "return" /\ stack # <<>> /\ ret = EntryEnd /\ Advance(1)
      /\ UNCHANGED <<tables, next_table, mmap, todo>>
  BY DEF ReturnWhole, mmapVars
<1>2. Walking /\ ret \in Nat /\ ret <= EndVa(Region)
  BY <1>1 DEF Walking, Here, MapInv, FramesOk
<1>3. /\ Top.idx \in Indexes(Top.tab) /\ Top.idx \in Nat /\ Top.va \in Nat
      /\ BlockSize(Level) \in Nat \ {0} /\ EntryEnd = Top.va + BlockSize(Level) - 1
  BY <1>1, <1>2, TopFacts
<1>4. EndVa(Region) \in Nat
  <2>1. Region \in Regions
    BY <1>2, AtHand DEF Here, Inv
  <2>. QED  BY <2>1, RegionFacts
<1>5. /\ Top.idx + 1 - 1 \in Indexes(Top.tab) /\ 1 * BlockSize(Level) = BlockSize(Level)
      /\ Top.va + BlockSize(Level) <= EndVa(Region) + 1 /\ 1 \in Nat \ {0}
  BY <1>1, <1>2, <1>3, <1>4
<1>6. FramesOk(lev, tag)' /\ Walking' /\ Reached' = ret + 1
  <2>1. FramesOk(lev, tag)' /\ Walking' /\ Reached' = Top.va + 1 * BlockSize(Level)
    BY <1>1, <1>2, <1>5, AdvanceFrames
  <2>. QED  BY <1>1, <1>3, <1>5, <2>1
<1>7. Reached' = Reached
  BY <1>1, <1>6 DEF Reached
<1>. QED  BY <1>1, <1>2, <1>6, <1>7, WalkOn

LEMMA ReturnEarlyStep ==
  ASSUME NEW lev, NEW tag, Here(lev, tag), ReturnEarly
  PROVE  MapInv(lev, tag)'
<1>1. pc = "return" /\ stack # <<>> /\ ret # EntryEnd /\ stack' = Front(stack)
      /\ UNCHANGED <<tables, next_table, mmap, todo, ret, pc>>
  BY DEF ReturnEarly, mmapVars
<1>2. Walking /\ Walking'
  BY <1>1 DEF Walking
<1>3. FramesOk(lev, tag) /\ ret = EndVa(Region)
  BY <1>1, <1>2 DEF Here, MapInv, FramesOk
<1>4. PICK len \in Nat : len = Len(stack) /\ len >= 1 /\ len <= 4 - BaseLevel
  BY <1>1, <1>2, TopFacts
<1>5. stack' \in Seq(Frames) /\ Len(stack') = len - 1 /\ \A k \in 1 .. len - 1 : stack'[k] = stack[k]
  <2>1. stack \in Seq(Frames) /\ stack # <<>> /\ Top \in Frames
    BY <1>1, <1>2, TopFacts
  <2>. QED  BY <1>1, <1>4, <2>1, Frontal
<1>6. Region' = Region /\ Live' = Live
  BY <1>1 DEF Region, Live
<1>7. ASSUME NEW d \in 1 .. len - 1 PROVE FrameOk(lev, tag, d)'
  <2>1. d \in 1 .. len /\ \A k \in 1 .. d : k \in 1 .. len - 1
    BY <1>4
  <2>2. \A k \in 1 .. d : stack'[k] = stack[k]
    BY <1>5, <2>1
  <2>3. d \in 1 .. Len(stack) /\ Len(stack) \in Nat
    BY <1>4, <2>1
  <2>. QED  BY <1>3, <1>6, <2>2, <2>3, FrameSame DEF FramesOk
<1>8. FramesOk(lev, tag)'
  <2>1. Len(stack') <= 4 - BaseLevel
    BY <1>4, <1>5, Constants
  <2>2. \A d \in 1 .. Len(stack') : FrameOk(lev, tag, d)'
    BY <1>5, <1>7
  <2>. QED  BY <1>1, <1>3, <1>5, <1>6, <2>1, <2>2 DEF FramesOk
<1>9. Reached' = Reached
  BY <1>1 DEF Reached
<1>. QED  BY <1>1, <1>2, <1>8, <1>9, WalkOn

LEMMA RecurseStep ==
  ASSUME NEW lev, NEW tag, Here(lev, tag), RecurseIntoTable
  PROVE  MapInv(lev, tag)'
<1>1. pc = "map" /\ Entry.type = "table" /\ Enter(Entry.to)
      /\ UNCHANGED <<tables, next_table, mmap, todo, ret, pc>>
  BY DEF RecurseIntoTable, mmapVars
<1>2. Walking /\ stack # <<>>
  BY <1>1, Overlap
<1>3. Top.tab \in Live /\ lev[Top.tab] = Level /\ Top.idx \in Indexes(Top.tab) /\ Level \in 0 .. 3
  BY <1>2, TopFacts
<1>4. PICK u \in Live \ {0} : Leads(lev, tag, Top.tab, Top.idx, u)
  BY <1>1, <1>3 DEF Here, MapInv, Tree, Entry
<1>5. Entry.to = u /\ lev[u] = Level + 1 /\ tag[u] = TopNum(tag)
  BY <1>3, <1>4 DEF Leads, TableDesc, Entry, TopNum
<1>6. u \in TableIds \ {0} /\ lev[u] \in 0 .. 3
  BY <1>4, TreeTypes DEF Here, MapInv
<1>7. Level # 3
  BY <1>3, <1>5, <1>6
<1>8. Live' = Live
  BY <1>1 DEF Live
<1>9. /\ FramesOk(lev, tag)' /\ Walking'
      /\ \A a \in Nat : Region.va <= a /\ a < Reached' => a < Top.va
  BY <1>1, <1>4, <1>5, <1>6, <1>7, <1>8, EnterFrames
<1>10. ASSUME NEW t \in Live, NEW i \in Indexes(t), NEW a \in Span(lev[t], Number(tag, t, i))
       PROVE  a \in Nat
  <2>1. lev[t] \in 0 .. 3 /\ Number(tag, t, i) \in Nat
    BY TreeTypes DEF Here, MapInv
  <2>2. a \in Int
    BY <2>1, LoType DEF Span
  <2>. QED  BY <2>1, <2>2, SpanAt
<1>11. Reached = Top.va
  BY <1>1 DEF Reached
<1>. QED  BY <1>1, <1>2, <1>9, <1>10, <1>11, WalkOn

-----------------------------------------------------------------------------
(* A region begins and ends.                                                 *)

LEMMA BeginFrames ==
  ASSUME NEW lev, NEW tag, NEW regions \in Seq(Regions), regions # <<>>, Begin(regions),
         0 \in Live', lev[0] = BaseLevel, tag[0] = 0
  PROVE  /\ FramesOk(lev, tag)' /\ Walking' /\ pc' = "map"
         /\ Reached' \in Nat /\ Region'.va \in Nat /\ Reached' <= Region'.va
<1>1. PICK r \in Regions : r = Head(regions)
  OBVIOUS
<1>2. Region' = r /\ pc' = "map" /\ stack' = <<Frame(0, 0, BaseLevel, r)>>
  BY <1>1 DEF Begin, Region
<1>3. PICK f : f = Frame(0, 0, BaseLevel, r)
  OBVIOUS
<1>4. /\ BaseLevel \in 0 .. 3 /\ BaseEntries \in Nat \ {0} /\ Entries \in Nat /\ TablesNum \in Nat
      /\ VaMax \in Nat
  BY Constants
<1>5. r.va \in Nat /\ EndVa(r) \in Nat /\ r.va <= EndVa(r) /\ EndVa(r) <= VaMax
  <2>1. /\ r.va \in Nat /\ r.size \in Nat \ {0} /\ EndVa(r) \in Nat /\ EndVa(r) = r.va + r.size - 1
        /\ EndVa(r) <= VaMax
    BY RegionFacts, RegionPages
  <2>. QED  BY <2>1
<1>6. BlockSize(BaseLevel) \in Nat \ {0}
  BY <1>4, BlockPositive
<1>7. Lo(BaseLevel, 0) = 0
  BY <1>6 DEF Lo
<1>8. r.va < Lo(BaseLevel, 0 + BaseEntries)
  <2>1. Lo(BaseLevel, 0 + BaseEntries) = BaseEntries * BlockSize(BaseLevel)
    BY <1>4 DEF Lo
  <2>2. VaMax < Lo(BaseLevel, 0 + BaseEntries)
    BY <2>1, BaseTableReaches
  <2>3. Lo(BaseLevel, 0 + BaseEntries) \in Nat
    <3>1. 0 + BaseEntries \in Nat
      BY <1>4
    <3>. QED  BY <1>4, <3>1, LoType
  <2>. QED  BY <1>4, <1>5, <2>2, <2>3
<1>9. FirstFrame(f, 0, BaseLevel, 0, BaseEntries, r)
  <2>1. f = Frame(0, Lo(BaseLevel, 0), BaseLevel, r) /\ 0 \in Nat
    BY <1>3, <1>7
  <2>. QED  BY <1>4, <1>8, <2>1, FrameFacts, Zenon
<1>10. /\ f = [tab |-> 0, va |-> f.va, idx |-> f.idx]
       /\ f.idx \in 0 .. BaseEntries - 1 /\ f.va = Lo(BaseLevel, f.idx) /\ f.va \in Nat
       /\ r.va < f.va + BlockSize(BaseLevel) /\ f.va <= r.va
  <2>1. 0 + f.idx = f.idx
    BY <1>4, <1>9 DEF FirstFrame
  <2>. QED  BY <1>5, <1>7, <1>9, <2>1 DEF FirstFrame
<1>11. f \in Frames /\ f.tab = 0
  BY <1>4, <1>10 DEF Frames, TableIds
<1>12. stack' = <<f>> /\ stack' \in Seq(Frames) /\ Len(stack') = 1 /\ Top' = f /\ stack'[1] = f
  BY <1>2, <1>3, <1>11 DEF Top
<1>13. FrameOk(lev, tag, 1)'
  <2>1. FrameNum(tag, 1)' = f.idx
    BY <1>4, <1>10, <1>11, <1>12 DEF FrameNum, Number
  <2>2. BaseLevel + 1 - 1 = BaseLevel
    BY <1>4
  <2>3. f.idx \in Indexes(0)
    BY <1>10 DEF Indexes
  <2>. QED  BY <1>2, <1>10, <1>11, <1>12, <2>1, <2>2, <2>3 DEF FrameOk
<1>14. \A d \in 1 .. Len(stack') : FrameOk(lev, tag, d)'
  <2>1. \A d \in 1 .. Len(stack') : d = 1
    BY <1>12
  <2>. QED  BY <1>13, <2>1
<1>15. FramesOk(lev, tag)'
  <2>1. 1 <= 4 - BaseLevel
    BY <1>4
  <2>2. stack' # <<>>
    BY <1>12
  <2>3. f.va <= EndVa(r)
    BY <1>5, <1>10
  <2>. QED  BY <1>2, <1>12, <1>14, <2>1, <2>2, <2>3 DEF FramesOk
<1>. QED  BY <1>2, <1>5, <1>10, <1>12, <1>15 DEF Walking, Reached

LEMMA BlockAddresses ==
  ASSUME NEW lev, NEW tag, TodoInv, Tree(lev, tag), NEW t \in Live, NEW i \in Indexes(t),
         NEW a \in Span(lev[t], Number(tag, t, i))
  PROVE  a \in Nat
<1>1. lev[t] \in 0 .. 3 /\ Number(tag, t, i) \in Nat
  BY TreeTypes
<1>2. a \in Int
  BY <1>1, LoType DEF Span
<1>. QED  BY <1>1, <1>2, SpanAt

LEMMA NextRegionStep ==
  ASSUME NEW lev, NEW tag, Here(lev, tag), NextRegion
  PROVE  MapInv(lev, tag)'
<1>1. /\ pc = "return" /\ stack = <<>> /\ ret = EndVa(Region) /\ Begin(Tail(todo))
      /\ UNCHANGED <<tables, next_table, mmap>>
  BY DEF NextRegion, mmapVars
<1>2. Walking
  BY <1>1 DEF Walking
<1>3. /\ Len(mmap) \in Nat /\ Cur \in 1 .. Len(mmap) /\ Region = mmap[Cur] /\ Region \in Regions
      /\ todo \in Seq(Regions) /\ todo # <<>>
  BY <1>2, AtHand DEF Here, Inv
<1>4. Tail(todo) \in Seq(Regions) /\ Len(Tail(todo)) = Len(todo) - 1 /\ Len(todo) \in Nat
  BY <1>3
<1>5. todo' = Tail(todo) /\ Cur' = Cur + 1
  BY <1>1, <1>3, <1>4 DEF Begin, Cur
<1>6. Live' = Live /\ 0 \in Live /\ lev[0] = BaseLevel /\ tag[0] = 0
  BY <1>1 DEF Live, Here, MapInv, Tree, TodoInv
<1>7. ASSUME Walking'
      PROVE  /\ FramesOk(lev, tag)' /\ Reached' \in Nat /\ Region'.va \in Nat
             /\ Reached' <= Region'.va
  <2>1. Tail(todo) # <<>>
    BY <1>1, <1>7 DEF Begin, Walking
  <2>. QED  BY <1>1, <1>4, <1>6, <2>1, BeginFrames
<1>8. 1 .. Mapped \subseteq 1 .. Mapped'
  <2>1. Mapped = Cur /\ Mapped' \in {Cur', Cur' - 1}
    BY <1>2 DEF Mapped
  <2>. QED  BY <1>3, <1>5, <2>1
<1>9. ASSUME NEW t \in Live, NEW i \in Indexes(t), tables[t][i] = Invalid
      PROVE  Untouched(lev[t], Number(tag, t, i))'
  <2>1. Untouched(lev[t], Number(tag, t, i))
    BY <1>9 DEF Here, MapInv, Contents, EntryOk
  <2>2. ASSUME NEW j \in 1 .. Cur' - 1, NEW a \in Span(lev[t], Number(tag, t, i))
        PROVE  ~In(a, mmap'[j])
    <3>1. mmap'[j] = mmap[j] /\ a \in Nat
      BY <1>1, BlockAddresses DEF Here, MapInv
    <3>2. CASE j = Cur
      <4>1. ~(Region.va <= a /\ a < ret + 1)
        BY <1>1, <1>2, <2>1 DEF Untouched, Reached
      <4>2. ret \in Nat /\ EndVa(Region) = ret
        BY <1>1, <1>2 DEF Here, MapInv, FramesOk
      <4>3. ~(Region.va <= a /\ a <= EndVa(Region))
        BY <3>1, <4>1, <4>2
      <4>. QED  BY <1>3, <3>1, <3>2, <4>3 DEF In
    <3>3. CASE j # Cur
      <4>1. j \in 1 .. Cur - 1
        BY <1>3, <1>5, <3>3
      <4>. QED  BY <2>1, <3>1, <4>1 DEF Untouched
    <3>. QED  BY <3>2, <3>3
  <2>3. ASSUME Walking', NEW a \in Span(lev[t], Number(tag, t, i))
        PROVE  ~(Region'.va <= a /\ a < Reached')
    <3>1. a \in Nat
      BY BlockAddresses DEF Here, MapInv
    <3>. QED  BY <1>7, <2>3, <3>1
  <2>. QED  BY <2>2, <2>3 DEF Untouched, Number
<1>10. ASSUME NEW t \in Live, NEW i \in Indexes(t)
       PROVE  EntryOk(tables[t][i], lev[t], Number(tag, t, i))'
  <2>1. EntryOk(tables[t][i], lev[t], Number(tag, t, i))
    BY DEF Here, MapInv, Contents
  <2>2. ASSUME NEW e, NEW l, NEW n, EntryOk(e, l, n), e = Invalid => Untouched(l, n)'
        PROVE  EntryOk(e, l, n)'
    BY <1>1, <1>8, <2>2, EntryStays
  <2>3. ASSUME NEW e, e = tables[t][i] PROVE EntryOk(e, lev[t], Number(tag, t, i))'
    BY <1>9, <2>1, <2>2, <2>3 DEF Number
  <2>4. tables'[t][i] = tables[t][i]
    BY <1>1
  <2>. QED  BY <2>3, <2>4
<1>11. Contents(lev, tag)'
  BY <1>6, <1>10 DEF Contents
<1>12. Tree(lev, tag)' /\ EntryTypes'
  BY <1>1, <1>6 DEF Here, MapInv, Tree, Leads, EntryTypes
<1>. QED  BY <1>7, <1>11, <1>12 DEF MapInv

LEMMA StartStep ==
  ASSUME Inv, TodoInv, StartInit
  PROVE  \E lev, tag : MapInv(lev, tag)'
<1>1. /\ pc = "add" /\ tables' = [t \in TableIds |-> [i \in Indexes(t) |-> Invalid]]
      /\ Begin(mmap) /\ UNCHANGED <<mmap, next_table>>
  BY DEF StartInit, mmapVars
<1>2. next_table = 1 /\ Live = {0} /\ Live' = {0} /\ mmap \in Seq(Regions)
  BY <1>1 DEF TodoInv, Live, Inv, ListInv
<1>3. 0 \in TableIds /\ BaseLevel \in Levels /\ BaseLevel \in 0 .. 3
  BY Constants DEF TableIds, Levels
<1>. DEFINE lev == [t \in TableIds |-> BaseLevel]
            tag == [t \in TableIds |-> 0]
<1>4. Tree(lev, tag)'
  <2>1. lev[0] = BaseLevel /\ tag[0] = 0 /\ lev \in [TableIds -> Levels] /\ tag \in [TableIds -> Nat]
    BY <1>3
  <2>2. \A i \in Indexes(0) : tables'[0][i].type # "table"
    BY <1>1, <1>3 DEF Invalid
  <2>. HIDE DEF lev, tag
  <2>. QED  BY <1>2, <2>1, <2>2 DEF Tree
<1>5. todo' = mmap /\ Cur' = 1
  BY <1>1, <1>2 DEF Begin, Cur
<1>6. ASSUME Walking'
      PROVE  /\ FramesOk(lev, tag)' /\ Reached' \in Nat /\ Region'.va \in Nat
             /\ Reached' <= Region'.va
  <2>1. mmap # <<>>
    BY <1>1, <1>6 DEF Begin, Walking
  <2>2. 0 \in Live' /\ lev[0] = BaseLevel /\ tag[0] = 0
    BY <1>2, <1>3
  <2>. HIDE DEF lev, tag
  <2>. QED  BY <1>1, <1>2, <2>1, <2>2, BeginFrames
<1>7. ASSUME NEW i \in Indexes(0) PROVE Untouched(lev[0], Number(tag, 0, i))'
  <2>1. lev[0] \in 0 .. 3 /\ Number(tag, 0, i) \in Nat
    BY <1>3, Constants DEF Number, Indexes
  <2>. HIDE DEF lev, tag
  <2>2. ASSUME Walking', NEW a \in Span(lev[0], Number(tag, 0, i))
        PROVE  ~(Region'.va <= a /\ a < Reached')
    <3>1. a \in Int
      BY <2>1, LoType DEF Span
    <3>. QED  BY <1>6, <2>2, <3>1
  <2>3. 1 .. Cur' - 1 = {}
    BY <1>5
  <2>. QED  BY <2>2, <2>3 DEF Untouched, Number
<1>8. Contents(lev, tag)'
  <2>1. \A i \in Indexes(0) : tables'[0][i] = Invalid
    BY <1>1, <1>3
  <2>. HIDE DEF lev, tag
  <2>. QED  BY <1>2, <1>7, <2>1 DEF Contents, EntryOk, Invalid, Number
<1>9. EntryTypes'
  BY <1>1, <1>2 DEF EntryTypes
<1>10. MapInv(lev, tag)'
  <2>. HIDE DEF lev, tag
  <2>. QED  BY <1>4, <1>6, <1>8, <1>9 DEF MapInv
<1>. QED  BY <1>10

-----------------------------------------------------------------------------
(* Steps that write descriptors.                                             *)

\* An entry that is not written says what it has said, if none of its addresses
\* has been walked over.
LEMMA EntryKept ==
  ASSUME NEW lev, NEW tag, Here(lev, tag), Walking, Walking', UNCHANGED <<mmap, todo>>,
         NEW e, NEW l, NEW n, EntryOk(e, l, n),
         e = Invalid => \A a \in Span(l, n) : Region.va <= a /\ a < Reached' => a < Reached
  PROVE  EntryOk(e, l, n)'
<1>1. e = Invalid => Untouched(l, n)'
  BY UntouchedStays DEF EntryOk
<1>2. Mapped' = Mapped
  BY DEF Mapped, Cur
<1>. QED  BY <1>1, <1>2, EntryStays

LEMMA CreateTableStep ==
  ASSUME NEW lev, NEW tag, Here(lev, tag), CreateTable
  PROVE  \E lev2, tag2 : MapInv(lev2, tag2)'
<1>. USE DEF Here
<1>1. PICK u : u = next_table
  OBVIOUS
<1>2. /\ pc = "map" /\ Entry = Invalid /\ ~(Covered /\ FitsBlock) /\ u <= TablesNum
      /\ tables' = [tables EXCEPT ![Top.tab][Top.idx] = TableDesc(u)]
      /\ Enter(u) /\ next_table' = u + 1 /\ UNCHANGED <<mmap, todo, ret, pc>>
  BY <1>1 DEF CreateTable, NeedsTable, mmapVars
<1>3. Walking /\ stack # <<>>
  BY <1>2, Overlap
<1>4. /\ Level \in Levels /\ Level \in 0 .. 3 /\ Top.tab \in Live /\ lev[Top.tab] = Level
      /\ Top.idx \in Indexes(Top.tab) /\ TopNum(tag) \in Nat
  BY <1>3, TopFacts
<1>5. u \in TableIds \ {0} /\ u \notin Live /\ Live' = Live \cup {u} /\ Live \subseteq TableIds
  <2>1. u \in Nat \ {0} /\ TablesNum \in Nat
    BY <1>1, Constants DEF TodoInv
  <2>. QED  BY <1>1, <1>2, <2>1 DEF Live, TableIds
<1>6. Level # 3
  <2>1. ASSUME Level = 3 PROVE FALSE
    BY <1>2, <2>1, PageCovered DEF FitsBlock
  <2>. QED  BY <2>1
<1>7. Level + 1 \in Levels /\ Level \in 0 .. 2 /\ Level + 1 \in 0 .. 3
  BY <1>4, <1>6, Constants DEF Levels
<1>8. PICK lev2 \in [TableIds -> Levels] : lev2 = [lev EXCEPT ![u] = Level + 1]
  BY <1>7 DEF MapInv, Tree
<1>9. PICK tag2 \in [TableIds -> Nat] : tag2 = [tag EXCEPT ![u] = TopNum(tag)]
  BY <1>4 DEF MapInv, Tree
<1>10. lev2[u] = Level + 1 /\ tag2[u] = TopNum(tag)
  BY <1>5, <1>8, <1>9 DEF MapInv, Tree
<1>11. \A t \in Live : t \in Live' /\ lev2[t] = lev[t] /\ tag2[t] = tag[t]
  BY <1>5, <1>8, <1>9 DEF MapInv, Tree
<1>12. DOMAIN tables = TableIds /\ \A t \in TableIds : DOMAIN tables[t] = Indexes(t)
  BY DEF Inv, TablesInv
<1>13. tables'[Top.tab][Top.idx] = TableDesc(u)
  BY <1>2, <1>4, <1>5, <1>12
<1>14. ASSUME NEW t \in TableIds, NEW i \in Indexes(t), ~(t = Top.tab /\ i = Top.idx)
       PROVE  tables'[t][i] = tables[t][i]
  BY <1>2, <1>12, <1>14
<1>15. ASSUME NEW i \in Indexes(u) PROVE tables[u][i] = Invalid /\ tables'[u][i] = Invalid
  <2>1. tables[u][i] = Invalid
    BY <1>5 DEF MapInv, EntryTypes
  <2>. QED  BY <1>4, <1>5, <1>14, <2>1
<1>16. tables[Top.tab][Top.idx] = Invalid
  BY <1>2 DEF Entry
<1>17. /\ FramesOk(lev2, tag2)' /\ Walking'
       /\ \A a \in Nat : Region.va <= a /\ a < Reached' => a < Reached
  <2>1. Reached = Top.va
    BY <1>2 DEF Reached
  <2>. QED  BY SMTT(20), <1>2, <1>5, <1>6, <1>10, <1>11, <2>1, EnterFrames
<1>18. ASSUME NEW t \in Live, NEW i \in Indexes(t) PROVE Number(tag2, t, i) = Number(tag, t, i)
  BY <1>11 DEF Number
<1>19. ASSUME NEW t \in Live, NEW i \in Indexes(t), NEW w \in Live, Leads(lev, tag, t, i, w)
       PROVE  Leads(lev2, tag2, t, i, w)'
  <2>1. ~(t = Top.tab /\ i = Top.idx)
    BY <1>16, <1>19 DEF Leads, TableDesc, Invalid
  <2>2. tables'[t][i] = tables[t][i]
    BY <1>5, <1>14, <2>1
  <2>. QED  BY <1>11, <1>19, <2>2 DEF Leads, Number
<1>27. PICK s \in Live : s = Top.tab
  BY <1>4
<1>28. PICK k \in Indexes(s) : k = Top.idx
  BY <1>4, <1>27
<1>20. Leads(lev2, tag2, s, k, u)'
  BY <1>4, <1>10, <1>11, <1>13, <1>27, <1>28 DEF Leads, Number, TopNum
<1>21. Tree(lev2, tag2)'
  <2>1. lev2[0] = BaseLevel /\ tag2[0] = 0
    <3>1. 0 \in Live
      BY DEF Live, TodoInv
    <3>. QED  BY <1>11, <3>1 DEF MapInv, Tree
  <2>2. ASSUME NEW t \in Live', NEW i \in Indexes(t), tables'[t][i].type = "table"
        PROVE  \E w \in Live' \ {0} : Leads(lev2, tag2, t, i, w)'
    <3>1. t \in Live
      BY <1>5, <1>15, <2>2 DEF Invalid
    <3>2. CASE t = Top.tab /\ i = Top.idx
      BY <1>5, <1>20, <1>27, <1>28, <3>2
    <3>3. CASE ~(t = Top.tab /\ i = Top.idx)
      <4>1. tables[t][i].type = "table"
        BY <1>5, <1>14, <2>2, <3>1, <3>3
      <4>2. PICK w \in Live \ {0} : Leads(lev, tag, t, i, w)
        BY <3>1, <4>1 DEF MapInv, Tree
      <4>. QED  BY <1>5, <1>19, <3>1, <4>2
    <3>. QED  BY <3>2, <3>3
  <2>3. ASSUME NEW w \in Live' \ {0}
        PROVE  \E t \in Live' : \E i \in Indexes(t) : Leads(lev2, tag2, t, i, w)'
    <3>1. CASE w = u
      BY <1>5, <1>20, <3>1
    <3>2. CASE w \in Live \ {0}
      <4>1. PICK t \in Live : \E i \in Indexes(t) : Leads(lev, tag, t, i, w)
        BY <3>2 DEF MapInv, Tree
      <4>. QED  BY <1>5, <1>19, <3>2, <4>1
    <3>. QED  BY <1>5, <3>1, <3>2
  <2>4. ASSUME NEW w \in Live, lev2[u] = lev2[w], tag2[u] = tag2[w] PROVE FALSE
    <3>1. lev[w] = Level + 1 /\ tag[w] = TopNum(tag)
      BY <1>10, <1>11, <2>4
    <3>2. w # 0
      <4>1. Level + 1 # BaseLevel
        BY <1>4, Constants DEF Levels
      <4>. QED  BY <3>1, <4>1, BaseTable DEF MapInv
    <3>3. PICK p \in Live : \E j \in Indexes(p) : Leads(lev, tag, p, j, w)
      BY <3>2 DEF MapInv, Tree
    <3>4. PICK j \in Indexes(p) : Leads(lev, tag, p, j, w)
      BY <3>3
    <3>5. lev[w] = lev[p] + 1 /\ tag[w] = Number(tag, p, j) /\ tables[p][j] = TableDesc(w)
      BY <3>4 DEF Leads
    <3>6. lev[p] \in 0 .. 3
      BY TreeTypes DEF MapInv
    <3>7. lev[p] = lev[Top.tab] /\ Number(tag, p, j) = Number(tag, Top.tab, Top.idx)
      BY <1>4, <3>1, <3>5, <3>6 DEF TopNum
    <3>8. p = Top.tab /\ j = Top.idx
      BY <1>4, <3>7, SameLevel DEF MapInv
    <3>. QED  BY <1>16, <3>5, <3>8 DEF TableDesc, Invalid
  <2>5. ASSUME NEW t \in Live', NEW w \in Live', lev2[t] = lev2[w], tag2[t] = tag2[w]
        PROVE  t = w
    <3>1. CASE t \in Live /\ w \in Live
      BY <1>11, <2>5, <3>1 DEF MapInv, Tree
    <3>2. CASE t \notin Live \/ w \notin Live
      BY <1>5, <2>4, <2>5, <3>2
    <3>. QED  BY <3>1, <3>2
  <2>. QED  BY <1>8, <1>9, <2>1, <2>2, <2>3, <2>5 DEF Tree
<1>22. EntryOk(Entry, Level, TopNum(tag))
  BY <1>2, EntryAtHand
<1>23. Cur' = Cur /\ Mapped' = Cur /\ Cur \in 1 .. Len(mmap) /\ Region = mmap[Cur]
  BY <1>2, <1>3, <1>17, AtHand DEF Cur, Mapped, Inv
<1>24. ASSUME NEW t \in Live', NEW i \in Indexes(t)
       PROVE  EntryOk(tables[t][i], lev2[t], Number(tag2, t, i))'
  <2>1. CASE t \in Live /\ ~(t = Top.tab /\ i = Top.idx)
    <3>1. EntryOk(tables[t][i], lev[t], Number(tag, t, i))
      BY <2>1 DEF MapInv, Contents
    <3>2. \A a \in Span(lev[t], Number(tag, t, i)) : a \in Nat
      BY <2>1, BlockAddresses DEF MapInv
    <3>3. ASSUME NEW e, NEW l, NEW n, e = tables[t][i], l = lev[t], n = Number(tag, t, i)
          PROVE  EntryOk(e, l, n)'
      BY <1>2, <1>3, <1>17, <3>1, <3>2, <3>3, EntryKept
    <3>4. tables'[t][i] = tables[t][i] /\ lev2[t] = lev[t] /\ Number(tag2, t, i) = Number(tag, t, i)
      BY <1>5, <1>11, <1>14, <1>18, <2>1
    <3>5. ASSUME NEW e, NEW l, NEW n, e = tables[t][i], l = lev2[t], n = Number(tag2, t, i)
          PROVE  EntryOk(e, l, n)'
      BY <3>3, <3>4, <3>5
    <3>6. PICK e, l, n : e = tables[t][i] /\ l = lev2[t] /\ n = Number(tag2, t, i)
      OBVIOUS
    <3>7. Number(tag2, t, i)' = n
      BY <3>6 DEF Number
    <3>8. EntryOk(e, l, n)' /\ tables'[t][i] = e
      BY <3>4, <3>5, <3>6
    <3>. QED  BY <3>6, <3>7, <3>8
  <2>2. CASE t = Top.tab /\ i = Top.idx
    <3>1. Splitter(Cur, Level, TopNum(tag))
      <4>1. Untouched(Level, TopNum(tag))
        BY <1>2, <1>22 DEF EntryOk
      <4>2. FirstIn(Cur, Level, TopNum(tag))
        BY <1>2, <1>23, <4>1, Overlap DEF FirstIn, Untouched
      <4>3. ~Fills(mmap[Cur], Level, TopNum(tag))
        BY <1>2, <1>23, Overlap DEF Fills
      <4>. QED  BY <4>2, <4>3 DEF Splitter
    <3>2. ASSUME NEW l, NEW n, Splitter(Cur, l, n), NEW j, j = Cur PROVE Splitter(j, l, n)'
      BY <1>2, <3>2 DEF Splitter, FirstIn
    <3>3. PICK l, n, j : l = Level /\ n = TopNum(tag) /\ j = Cur
      OBVIOUS
    <3>4. Splitter(j, l, n)'
      BY <3>1, <3>2, <3>3
    <3>5. tables'[t][i] = TableDesc(u) /\ lev2[t] = l /\ Number(tag2, t, i)' = n
      BY <1>4, <1>11, <1>13, <2>2, <3>3 DEF Number, TopNum
    <3>6. j \in 1 .. Mapped'
      BY <1>23, <3>3
    <3>. QED  BY <3>4, <3>5, <3>6 DEF EntryOk, TableDesc, Invalid
  <2>3. CASE t = u
    <3>1. tables'[t][i] = Invalid /\ lev2[t] = Level + 1 /\ i \in 0 .. Entries - 1
      BY <1>5, <1>10, <1>15, <2>3 DEF Indexes
    <3>2. PICK l, n : l = Level /\ n = TopNum(tag)
      OBVIOUS
    <3>3. Number(tag2, t, i)' = n * Entries + i
      BY <1>10, <2>3, <3>2 DEF Number
    <3>4. Span(l + 1, n * Entries + i) \subseteq Span(l, n)
      BY <1>4, <1>7, <3>1, <3>2, SpanNest
    <3>5. Untouched(l, n)
      BY <1>2, <1>22, <3>2 DEF EntryOk
    <3>6. \A a \in Span(l, n) : a \in Nat
      BY <1>3, <3>2, TopSpan
    <3>7. Untouched(l, n)'
      BY <1>2, <1>3, <1>17, <3>5, <3>6, UntouchedStays
    <3>8. Untouched(l + 1, n * Entries + i)'
      BY <3>4, <3>7 DEF Untouched
    <3>. QED  BY <3>1, <3>2, <3>3, <3>8 DEF EntryOk, Invalid
  <2>. QED  BY <1>5, <2>1, <2>2, <2>3
<1>25. Contents(lev2, tag2)'
  BY <1>24 DEF Contents
<1>26. EntryTypes'
  <2>1. ASSUME NEW t \in TableIds, NEW i \in Indexes(t)
        PROVE  IF t \in Live' THEN tables'[t][i] = Invalid \/ tables'[t][i].type \in {"leaf", "table"}
               ELSE tables'[t][i] = Invalid
    <3>1. CASE t = Top.tab /\ i = Top.idx
      BY <1>4, <1>5, <1>13, <3>1 DEF TableDesc
    <3>2. CASE ~(t = Top.tab /\ i = Top.idx)
      BY <1>5, <1>14, <1>15, <3>2 DEF MapInv, EntryTypes
    <3>. QED  BY <3>1, <3>2
  <2>. QED  BY <2>1 DEF EntryTypes
<1>. QED  BY <1>17, <1>21, <1>25, <1>26 DEF MapInv

LEMMA LoPlus ==
  ASSUME NEW l \in 0 .. 3, NEW x \in Nat, NEW k \in Nat
  PROVE  /\ Lo(l, x + k) = Lo(l, x) + k * BlockSize(l)
         /\ k * BlockSize(l) \in Nat /\ (k + 1) * BlockSize(l) = k * BlockSize(l) + BlockSize(l)
<1>. DEFINE b == BlockSize(l)
<1>1. b \in Nat \ {0}
  BY BlockPositive
<1>. HIDE DEF b
<1>2. (x + k) * b = x * b + k * b /\ k * b \in Nat /\ (k + 1) * b = k * b + b
  BY <1>1
<1>. QED  BY <1>2 DEF Lo, b

\* An address of n blocks in a row is in one of them.
LEMMA RunSplit ==
  ASSUME NEW l \in 0 .. 3, NEW m \in Nat, NEW n \in Nat, NEW a \in Nat,
         Lo(l, m) <= a, a < Lo(l, m) + n * BlockSize(l)
  PROVE  \E k \in 0 .. n - 1 : a \in Span(l, m + k)
<1>. DEFINE b == BlockSize(l)
            c == a - Lo(l, m)
            q == c \div b
            r == c % b
<1>1. b \in Nat \ {0} /\ Lo(l, m) \in Nat
  BY BlockPositive, LoType
<1>2. c \in Int /\ c >= 0 /\ a = Lo(l, m) + c
  BY <1>1
<1>3. n * b \in Int
  <2>. HIDE DEF b
  <2>. QED  BY <1>1
<1>4. c < n * b
  BY <1>1, <1>2, <1>3
<1>. HIDE DEF c, b
<1>5. q \in Int /\ r \in 0 .. b - 1 /\ c = b * q + r
  BY <1>1, <1>2, Division, Zenon
<1>. HIDE DEF q, r
<1>6. q >= 0
  <2>1. SUFFICES ASSUME q <= -1 PROVE FALSE
    BY <1>5
  <2>2. b * q <= b * (-1)
    BY <1>1, <1>5, <2>1
  <2>3. b * (-1) = -b /\ b * q \in Int
    BY <1>1, <1>5
  <2>. QED  BY <1>1, <1>2, <1>5, <2>2, <2>3
<1>7. q < n
  <2>1. SUFFICES ASSUME n <= q PROVE FALSE
    BY <1>5
  <2>2. b * n <= b * q
    BY <1>1, <1>5, <2>1
  <2>3. b * n = n * b /\ b * q \in Int /\ b * n \in Int
    BY <1>1, <1>5
  <2>. QED  BY <1>1, <1>2, <1>4, <1>5, <2>2, <2>3
<1>8. q \in 0 .. n - 1 /\ q \in Nat
  BY <1>5, <1>6, <1>7
<1>9. Lo(l, m + q) = Lo(l, m) + q * b
  BY <1>8, LoPlus DEF b
<1>10. a \in Lo(l, m + q) .. Lo(l, m + q) + b - 1
  <2>1. q * b = b * q /\ b * q \in Nat
    BY <1>1, <1>8
  <2>2. Lo(l, m + q) = Lo(l, m) + b * q
    BY <1>9, <2>1
  <2>. QED  BY <1>1, <1>2, <1>5, <2>1, <2>2
<1>. QED  BY <1>8, <1>10 DEF Span, b

\* Each of the entries that a block is written to is filled by the region, which
\* is the first to have an address in it.
LEMMA NewEntry ==
  ASSUME NEW lev, NEW tag, Here(lev, tag), pc = "map", Entry = Invalid, Covered, FitsBlock,
         NEW i \in FreeEntries
  PROVE  Maker(Cur, XlatDesc(Region.attr, EntryPa + (i - Top.idx) * BlockSize(Level)),
               Level, Number(tag, Top.tab, i))
<1>. DEFINE b == BlockSize(Level)
            k == i - Top.idx
            num == TopNum(tag) + k
<1>1. Walking /\ stack # <<>>
  BY Overlap
<1>2. /\ Level \in 0 .. 3 /\ Top.tab \in Live /\ lev[Top.tab] = Level
      /\ Top.idx \in Nat /\ TopNum(tag) \in Nat
      /\ Top.va = Lo(Level, TopNum(tag)) /\ Top.va \in Nat /\ b \in Nat \ {0}
  BY <1>1, TopFacts
<1>3. /\ Region \in Regions /\ Region = mmap[Cur]
      /\ Region.va \in Nat /\ EndVa(Region) \in Nat /\ Region.pa \in Nat
  <2>1. Region \in Regions /\ Region = mmap[Cur]
    BY <1>1, AtHand DEF Here, Inv
  <2>2. Region.pa \in Nat
    BY <2>1, WordPositive DEF Regions, RegionArg
  <2>. QED  BY <2>1, <2>2, RegionFacts
<1>4. /\ i \in Indexes(Top.tab) /\ tables[Top.tab][i] = Invalid /\ i \in Nat /\ i >= Top.idx
      /\ Top.va + (k + 1) * b - 1 <= EndVa(Region)
  <2>1. /\ i \in Indexes(Top.tab) /\ tables[Top.tab][i] = Invalid
        /\ Top.va + (i - Top.idx + 1) * BlockSize(Level) - 1 <= EndVa(Region)
    BY FreeRun
  <2>2. i \in Nat /\ i >= Top.idx
    BY <1>2, <2>1, TreeTypes DEF Here, MapInv, FreeEntries
  <2>. QED  BY <2>1, <2>2
<1>5. k \in Nat /\ num \in Nat
  BY <1>2, <1>4
<1>6. Number(tag, Top.tab, i) = num
  <2>1. tag[Top.tab] * Entries \in Nat
    <3>1. tag[Top.tab] \in Nat /\ Entries \in Nat
      BY <1>2, TreeTypes, Constants DEF Here, MapInv
    <3>. QED  BY <3>1
  <2>2. TopNum(tag) = tag[Top.tab] * Entries + Top.idx
    BY DEF TopNum, Number
  <2>3. Number(tag, Top.tab, i) = tag[Top.tab] * Entries + i
    BY DEF Number
  <2>. QED  BY <1>2, <1>4, <2>1, <2>2, <2>3
<1>7. Lo(Level, num) = Top.va + k * b /\ k * b \in Nat /\ (k + 1) * b = k * b + b
  <2>1. Level \in 0 .. 3 /\ TopNum(tag) \in Nat /\ k \in Nat
    BY <1>2, <1>5
  <2>. HIDE DEF k
  <2>2. /\ Lo(Level, TopNum(tag) + k) = Lo(Level, TopNum(tag)) + k * BlockSize(Level)
        /\ k * BlockSize(Level) \in Nat
        /\ (k + 1) * BlockSize(Level) = k * BlockSize(Level) + BlockSize(Level)
    BY <2>1, LoPlus, Zenon
  <2>. QED  BY <1>2, <2>2
<1>8. Untouched(Level, num)
  BY <1>2, <1>4, <1>6 DEF Here, MapInv, Contents, EntryOk
<1>. HIDE DEF num
<1>. DEFINE c == k * b
<1>9. \A a \in Span(Level, num) : In(a, Region)
  <2>1. Region.va <= Top.va
    BY DEF Covered
  <2>2. c \in Nat /\ Lo(Level, num) = Top.va + c /\ Top.va + c + b - 1 <= EndVa(Region)
    <3>1. Top.va + (c + b) - 1 <= EndVa(Region)
      BY <1>4, <1>7
    <3>2. c \in Nat /\ Lo(Level, num) = Top.va + c
      BY <1>7
    <3>. HIDE DEF c, b
    <3>. QED  BY <1>2, <3>1, <3>2
  <2>. HIDE DEF c
  <2>3. ASSUME NEW a \in Span(Level, num) PROVE In(a, Region)
    <3>1. a >= Lo(Level, num) /\ a <= Lo(Level, num) + b - 1 /\ a \in Int
      BY <1>2, <2>2 DEF Span
    <3>. HIDE DEF b
    <3>. QED  BY <1>2, <1>3, <2>1, <2>2, <3>1 DEF In
  <2>. QED  BY <2>3
<1>10. Lo(Level, num) \in Span(Level, num)
  BY <1>2, <1>5, SpanBegin
<1>11. FirstIn(Cur, Level, num)
  BY <1>3, <1>8, <1>9, <1>10 DEF FirstIn, Untouched
<1>12. EntryPa = Region.pa + Top.va - Region.va /\ EntryPa \in Int
  BY <1>2, <1>3 DEF EntryPa
<1>13. Region.pa + Lo(Level, num) - Region.va = EntryPa + c
  <2>1. c \in Nat /\ Lo(Level, num) = Top.va + c
    BY <1>7
  <2>. HIDE DEF c
  <2>. QED  BY <1>2, <1>3, <1>12, <2>1
<1>14. Fits(Region, Level, num)
  <2>1. CASE Level = 3
    BY <2>1 DEF Fits
  <2>2. CASE Level # 3
    <3>1. EntryPa % b = 0 /\ Level >= MinBlock /\ Region.gran >= b
      BY <2>2 DEF FitsBlock
    <3>2. c % b = 0 /\ c \in Int
      <4>1. b * k = c
        <5>. HIDE DEF b, k
        <5>. QED  BY <1>2, <1>5
      <4>2. k \in Int
        BY <1>5
      <4>. HIDE DEF b, k, c
      <4>3. (b * k) % b = 0 /\ b * k \in Int
        BY <1>2, <4>2, Multiple
      <4>. QED  BY <4>1, <4>3
    <3>. HIDE DEF b, c
    <3>3. (EntryPa + c) % b = 0
      BY <1>2, <1>12, <3>1, <3>2, PagesAdd
    <3>. QED  BY <1>13, <3>1, <3>3 DEF Fits, b
  <2>. QED  BY <2>1, <2>2
<1>15. Fills(mmap[Cur], Level, num)
  BY <1>3, <1>9, <1>14 DEF Fills
<1>16. XlatDesc(Region.attr, EntryPa + c)
         = XlatDesc(mmap[Cur].attr, mmap[Cur].pa + Lo(Level, num) - mmap[Cur].va)
  BY <1>3, <1>13
<1>17. Maker(Cur, XlatDesc(Region.attr, EntryPa + c), Level, num)
  BY <1>11, <1>15, <1>16 DEF Maker
<1>. QED  BY <1>6, <1>17

LEMMA WriteEntriesStep ==
  ASSUME NEW lev, NEW tag, Here(lev, tag), WriteEntries
  PROVE  MapInv(lev, tag)'
<1>. USE DEF Here
<1>1. /\ pc = "map" /\ Entry = Invalid /\ Covered /\ FitsBlock
      /\ tables' = [tables EXCEPT ![Top.tab] = Filled(tables[Top.tab], FreeEntries)]
      /\ Advance(Cardinality(FreeEntries)) /\ UNCHANGED <<mmap, next_table, todo>>
  BY DEF WriteEntries, mmapVars
<1>2. Walking /\ stack # <<>>
  BY <1>1, Overlap
<1>3. PICK n : n = Cardinality(FreeEntries)
  OBVIOUS
<1>4. /\ n \in Nat \ {0} /\ FreeEntries = Top.idx .. Top.idx + n - 1
      /\ \A i \in FreeEntries :
           /\ i \in Indexes(Top.tab) /\ tables[Top.tab][i] = Invalid
           /\ Top.va + (i - Top.idx + 1) * BlockSize(Level) - 1 <= EndVa(Region)
  BY <1>1, <1>3, FreeRun
<1>5. /\ Level \in 0 .. 3 /\ Top.tab \in Live /\ lev[Top.tab] = Level
      /\ Top.idx \in Nat /\ TopNum(tag) \in Nat
      /\ Top.va = Lo(Level, TopNum(tag)) /\ Top.va \in Nat /\ BlockSize(Level) \in Nat \ {0}
  BY <1>2, TopFacts
<1>6. EndVa(Region) \in Nat
  <2>1. Region \in Regions
    BY <1>2, AtHand DEF Inv
  <2>. QED  BY <2>1, RegionFacts
<1>7. /\ Top.idx + n - 1 \in Indexes(Top.tab)
      /\ Top.va + n * BlockSize(Level) <= EndVa(Region) + 1
  <2>1. Top.idx + n - 1 \in FreeEntries /\ Top.idx + n - 1 - Top.idx + 1 = n
    BY <1>4, <1>5
  <2>. DEFINE last == Top.idx + n - 1
  <2>4. last - Top.idx + 1 = n /\ last \in FreeEntries
    BY <1>4, <1>5, <2>1
  <2>. HIDE DEF last
  <2>5. Top.va + (last - Top.idx + 1) * BlockSize(Level) - 1 <= EndVa(Region)
    BY <1>4, <2>4, Zenon
  <2>2. Top.va + n * BlockSize(Level) - 1 <= EndVa(Region)
    BY <2>4, <2>5
  <2>3. n * BlockSize(Level) \in Nat
    BY <1>4, <1>5, LoPlus
  <2>. QED  BY SMTT(20), <1>4, <1>5, <1>6, <2>1, <2>2, <2>3
<1>8. FramesOk(lev, tag)' /\ Walking' /\ Reached' = Top.va + n * BlockSize(Level)
  BY <1>1, <1>2, <1>3, <1>4, <1>7, AdvanceFrames
<1>9. Live' = Live /\ Live \subseteq TableIds
  BY <1>1, TreeTypes DEF Live, MapInv
<1>10. DOMAIN tables = TableIds /\ \A t \in TableIds : DOMAIN tables[t] = Indexes(t)
  BY DEF Inv, TablesInv
<1>11. ASSUME NEW t \in TableIds, NEW i \in Indexes(t), ~(t = Top.tab /\ i \in FreeEntries)
       PROVE  tables'[t][i] = tables[t][i]
  BY <1>1, <1>10, <1>11 DEF Filled
<1>12. ASSUME NEW i \in FreeEntries
       PROVE  tables'[Top.tab][i] = XlatDesc(Region.attr, EntryPa + (i - Top.idx) * BlockSize(Level))
  <2>1. Top.tab \in TableIds /\ i \in Indexes(Top.tab)
    BY <1>4, <1>5, <1>9
  <2>. QED  BY <1>1, <1>10, <2>1 DEF Filled
<1>13. \A i \in FreeEntries : tables'[Top.tab][i].type = "leaf"
  <2>1. \A a, pa : XlatDesc(a, pa).type = "leaf"
    BY DEF XlatDesc
  <2>. QED  BY <1>12, <2>1, Zenon
<1>14. ASSUME NEW t \in Live, NEW i \in Indexes(t)
       PROVE  /\ tables[t][i].type = "table" => tables'[t][i] = tables[t][i]
              /\ tables'[t][i].type = "table" => tables'[t][i] = tables[t][i]
  <2>1. CASE t = Top.tab /\ i \in FreeEntries
    BY <1>4, <1>13, <2>1 DEF Invalid
  <2>2. CASE ~(t = Top.tab /\ i \in FreeEntries)
    BY <1>9, <1>11, <2>2
  <2>. QED  BY <2>1, <2>2
<1>15. Tree(lev, tag)'
  <2>1. \A t \in Live : \A i \in Indexes(t) : \A u : Leads(lev, tag, t, i, u) => Leads(lev, tag, t, i, u)'
    BY <1>14 DEF Leads, Number, TableDesc
  <2>2. \A t \in Live : \A i \in Indexes(t) : tables'[t][i].type = "table" =>
          \E u \in Live \ {0} : Leads(lev, tag, t, i, u)'
    BY <1>14, <2>1 DEF MapInv, Tree
  <2>3. \A u \in Live \ {0} : \E t \in Live : \E i \in Indexes(t) : Leads(lev, tag, t, i, u)'
    BY <2>1 DEF MapInv, Tree
  <2>. QED  BY <1>9, <2>2, <2>3 DEF MapInv, Tree
<1>16. Reached = Top.va
  BY <1>1 DEF Reached
<1>17. ASSUME NEW t \in Live, NEW i \in Indexes(t), ~(t = Top.tab /\ i \in FreeEntries),
              tables[t][i] = Invalid, NEW a \in Span(lev[t], Number(tag, t, i)),
              Region.va <= a, a < Reached'
       PROVE  a < Reached
  <2>1. a \in Nat /\ a \in Int
    BY BlockAddresses DEF MapInv
  <2>2. SUFFICES ASSUME Top.va <= a PROVE FALSE
    BY <1>5, <1>16, <2>1
  <2>3. PICK k \in 0 .. n - 1 : a \in Span(Level, TopNum(tag) + k)
    <3>1. a < Top.va + n * BlockSize(Level)
      BY <1>8, <1>17
    <3>2. n \in Nat
      BY <1>4
    <3>. QED  BY ZenonT(30), <1>5, <2>1, <2>2, <3>1, <3>2, RunSplit
  <2>4. Top.idx + k \in FreeEntries /\ k \in Nat
    BY <1>4, <1>5
  <2>5. PICK j : j = Top.idx + k
    OBVIOUS
  <2>6. j \in FreeEntries /\ j \in Indexes(Top.tab) /\ tables[Top.tab][j] = Invalid
    BY <1>4, <2>4, <2>5
  <2>7. Number(tag, Top.tab, j) = TopNum(tag) + k
    <3>1. tag[Top.tab] * Entries \in Nat
      <4>1. tag[Top.tab] \in Nat /\ Entries \in Nat
        BY <1>5, TreeTypes, Constants DEF MapInv
      <4>. QED  BY <4>1
    <3>2. TopNum(tag) = tag[Top.tab] * Entries + Top.idx
      BY DEF TopNum, Number
    <3>3. Number(tag, Top.tab, j) = tag[Top.tab] * Entries + (Top.idx + k)
      BY <2>5 DEF Number
    <3>. QED  BY <1>5, <2>4, <3>1, <3>2, <3>3
  <2>8. a \in Span(lev[Top.tab], Number(tag, Top.tab, j))
    BY <1>5, <2>3, <2>7
  <2>9. tables[t][i].type # "table" /\ tables[Top.tab][j].type # "table"
    BY <1>17, <2>6 DEF Invalid
  <2>10. t = Top.tab /\ i = j
    BY <1>5, <2>1, <2>6, <2>8, <2>9, EntriesApart DEF MapInv
  <2>. QED  BY <1>17, <2>6, <2>10
<1>18. Cur' = Cur /\ Mapped' = Cur /\ Cur \in 1 .. Len(mmap)
  BY <1>1, <1>2, <1>8, AtHand DEF Cur, Mapped, Inv
<1>19. ASSUME NEW t \in Live, NEW i \in Indexes(t)
       PROVE  EntryOk(tables[t][i], lev[t], Number(tag, t, i))'
  <2>1. PICK e, l, m : e = tables'[t][i] /\ l = lev[t] /\ m = Number(tag, t, i)
    OBVIOUS
  <2>2. Number(tag, t, i)' = m
    BY <2>1 DEF Number
  <2>3. CASE t = Top.tab /\ i \in FreeEntries
    <3>1. l = Level /\ e = XlatDesc(Region.attr, EntryPa + (i - Top.idx) * BlockSize(Level))
      BY <1>5, <1>12, <2>1, <2>3
    <3>2. Maker(Cur, e, l, m)
      BY <1>1, <2>1, <2>3, <3>1, NewEntry
    <3>3. ASSUME NEW j, j = Cur PROVE Maker(j, e, l, m)'
      BY <1>1, <3>2, <3>3 DEF Maker, FirstIn
    <3>4. PICK j : j = Cur
      OBVIOUS
    <3>5. Maker(j, e, l, m)' /\ j \in 1 .. Mapped'
      BY <1>18, <3>3, <3>4
    <3>6. e.type = "leaf" /\ e # Invalid
      BY <3>1 DEF XlatDesc, Invalid
    <3>7. EntryOk(e, l, m)'
      BY <3>5, <3>6 DEF EntryOk
    <3>. QED  BY <2>1, <2>2, <3>7
  <2>4. CASE ~(t = Top.tab /\ i \in FreeEntries)
    <3>1. e = tables[t][i]
      BY <1>9, <1>11, <2>1, <2>4
    <3>2. EntryOk(e, l, m)
      BY <2>1, <3>1 DEF MapInv, Contents
    <3>3. e = Invalid => \A a \in Span(l, m) : Region.va <= a /\ a < Reached' => a < Reached
      BY <1>17, <2>1, <2>4, <3>1
    <3>4. EntryOk(e, l, m)'
      BY <1>1, <1>2, <1>8, <3>2, <3>3, EntryKept
    <3>. QED  BY <2>1, <2>2, <3>4
  <2>. QED  BY <2>3, <2>4
<1>20. Contents(lev, tag)'
  BY <1>9, <1>19 DEF Contents
<1>21. EntryTypes'
  <2>1. ASSUME NEW t \in TableIds, NEW i \in Indexes(t)
        PROVE  IF t \in Live' THEN tables'[t][i] = Invalid \/ tables'[t][i].type \in {"leaf", "table"}
               ELSE tables'[t][i] = Invalid
    <3>1. CASE t = Top.tab /\ i \in FreeEntries
      BY <1>5, <1>9, <1>13, <3>1
    <3>2. CASE ~(t = Top.tab /\ i \in FreeEntries)
      BY <1>9, <1>11, <3>2 DEF MapInv, EntryTypes
    <3>. QED  BY <3>1, <3>2
  <2>. QED  BY <2>1 DEF EntryTypes
<1>. QED  BY <1>8, <1>15, <1>20, <1>21 DEF MapInv

-----------------------------------------------------------------------------
(* The invariant.                                                            *)

\* The inductive invariant: the list and the tables, what is still to be mapped, and
\* that the tables say what the list says of the regions mapped so far.
BuiltInv == Inv /\ TodoInv /\ Built

LEMMA BuiltInit == Init => BuiltInv
<1>. SUFFICES ASSUME Init PROVE BuiltInv
  OBVIOUS
<1>1. TodoInv
  <2>1. /\ pc = "add" /\ next_table = 1 /\ todo = <<>> /\ mmap = <<>>
        /\ todo \in Seq(Regions) /\ Len(todo) = 0 /\ Len(mmap) = 0
    BY DEF Init
  <2>2. 1 \in 1 .. TablesNum + 1
    BY Constants
  <2>. QED  BY <2>1, <2>2 DEF TodoInv
<1>2. Built
  BY DEF Init, Built
<1>. QED  BY <1>1, <1>2, InitInv DEF BuiltInv

LEMMA TodoStep ==
  ASSUME Inv, Inv', TodoInv, [Next]_vars
  PROVE  TodoInv'
<1>1. ASSUME UNCHANGED <<mmap, todo>>, next_table' \in 1 .. TablesNum + 1,
             pc \in {"map", "return"}, pc' \in {"map", "return", "overrun"}
      PROVE  TodoInv'
  BY <1>1 DEF TodoInv
<1>2. CASE AddRegion \/ DropRegion
  <2>1. pc = "add" /\ UNCHANGED <<pc, todo, next_table>>
    BY <1>2 DEF AddRegion, DropRegion
  <2>2. next_table = 1 /\ todo = <<>> /\ Len(todo) = 0
    BY <2>1 DEF TodoInv
  <2>3. Len(mmap') \in Nat
    BY DEF Inv, ListInv
  <2>. QED  BY <2>1, <2>2, <2>3 DEF TodoInv
<1>3. CASE StartInit
  <2>1. pc = "add" /\ Begin(mmap) /\ UNCHANGED <<mmap, next_table>>
    BY <1>3 DEF StartInit, mmapVars
  <2>2. mmap \in Seq(Regions) /\ todo' = mmap /\ Len(mmap) \in Nat
    BY <2>1 DEF Inv, ListInv, Begin
  <2>3. /\ pc' # "add" /\ (pc' \in {"map", "return"} => todo' # <<>>)
        /\ (pc' = "done" => todo' = <<>>)
    BY <2>1, <2>2 DEF Begin
  <2>4. \A i \in 1 .. Len(mmap) : i = Len(mmap) - Len(mmap) + i
    BY <2>2
  <2>. QED  BY <2>1, <2>2, <2>3, <2>4 DEF TodoInv
<1>4. CASE CreateTable
  <2>1. next_table \in 1 .. TablesNum + 1 /\ next_table <= TablesNum /\ next_table' = next_table + 1
    BY <1>4 DEF CreateTable, TodoInv
  <2>2. next_table' \in 1 .. TablesNum + 1
    BY <2>1, Constants
  <2>. QED  BY <1>1, <1>4, <2>2 DEF CreateTable, NeedsTable, mmapVars
<1>5. CASE WriteEntries \/ KeepEntry \/ ReturnWhole
  <2>1. /\ UNCHANGED <<mmap, todo, next_table>> /\ pc \in {"map", "return"}
        /\ pc' \in {"map", "return"}
    BY <1>5 DEF WriteEntries, KeepEntry, ReturnWhole, Advance, mmapVars
  <2>. QED  BY <1>1, <2>1 DEF TodoInv
<1>6. CASE OverrunPool \/ RecurseIntoTable \/ ReturnEarly
  <2>1. /\ UNCHANGED <<mmap, todo, next_table>> /\ pc \in {"map", "return"}
        /\ pc' \in {"map", "return", "overrun"}
    BY <1>6 DEF OverrunPool, NeedsTable, RecurseIntoTable, ReturnEarly, mmapVars
  <2>. QED  BY <1>1, <2>1 DEF TodoInv
<1>7. CASE NextRegion
  <2>1. pc = "return" /\ Begin(Tail(todo)) /\ UNCHANGED <<mmap, next_table>>
    BY <1>7 DEF NextRegion, mmapVars
  <2>2. /\ todo \in Seq(Regions) /\ todo # <<>> /\ Len(todo) <= Len(mmap)
        /\ Len(mmap) \in Nat /\ Len(todo) \in Nat
    BY <2>1 DEF TodoInv, Inv, ListInv
  <2>3. /\ todo' = Tail(todo) /\ Tail(todo) \in Seq(Regions) /\ Len(Tail(todo)) = Len(todo) - 1
        /\ \A i \in 1 .. Len(todo) - 1 : Tail(todo)[i] = todo[i + 1]
    BY <2>1, <2>2 DEF Begin
  <2>4. /\ pc' # "add" /\ (pc' \in {"map", "return"} => todo' # <<>>)
        /\ (pc' = "done" => todo' = <<>>)
    BY <2>1, <2>3 DEF Begin
  <2>5. ASSUME NEW i \in 1 .. Len(todo')
        PROVE  todo'[i] = mmap[Len(mmap) - Len(todo') + i]
    <3>1. i + 1 \in 1 .. Len(todo) /\ todo'[i] = todo[i + 1]
      BY <2>2, <2>3
    <3>2. todo[i + 1] = mmap[Len(mmap) - Len(todo) + (i + 1)]
      BY <3>1 DEF TodoInv
    <3>3. Len(mmap) - Len(todo) + (i + 1) = Len(mmap) - Len(todo') + i
      BY <2>2, <2>3
    <3>. QED  BY <3>1, <3>2, <3>3
  <2>6. Len(todo') <= Len(mmap)
    BY <2>2, <2>3
  <2>7. next_table \in 1 .. TablesNum + 1
    BY DEF TodoInv
  <2>. QED  BY <2>1, <2>3, <2>4, <2>5, <2>6, <2>7 DEF TodoInv
<1>8. CASE UNCHANGED vars
  BY <1>8 DEF vars, mmapVars, TodoInv
<1>. QED  BY <1>2, <1>3, <1>4, <1>5, <1>6, <1>7, <1>8 DEF Next, MapStep

LEMMA BuiltStep ==
  ASSUME Inv, TodoInv, Built, [Next]_vars
  PROVE  Built'
<1>. SUFFICES ASSUME pc' \in {"map", "return", "done"}
              PROVE  \E lev, tag : MapInv(lev, tag)'
  BY DEF Built
<1>1. CASE AddRegion \/ DropRegion
  BY <1>1 DEF AddRegion, DropRegion
<1>2. CASE StartInit
  BY <1>2, StartStep
<1>3. CASE MapStep
  <2>1. pc \in {"map", "return"} /\ ~OverrunPool
    BY <1>3 DEF MapStep, WriteEntries, CreateTable, OverrunPool, RecurseIntoTable, KeepEntry,
                ReturnWhole, ReturnEarly, NextRegion, NeedsTable
  <2>2. PICK lev, tag : Here(lev, tag)
    BY <2>1 DEF Built, Here
  <2>3. CASE CreateTable
    BY <2>2, <2>3, CreateTableStep
  <2>4. ASSUME ~CreateTable PROVE MapInv(lev, tag)'
    BY <1>3, <2>1, <2>2, <2>4, WriteEntriesStep, RecurseStep, KeepEntryStep, ReturnWholeStep,
       ReturnEarlyStep, NextRegionStep DEF MapStep
  <2>. QED  BY <2>3, <2>4
<1>4. CASE UNCHANGED vars
  <2>1. PICK lev, tag : MapInv(lev, tag)
    BY <1>4 DEF Built, vars
  <2>2. UNCHANGED <<mmap, tables, next_table, todo, stack, ret, pc>>
    BY <1>4 DEF vars, mmapVars
  <2>3. MapInv(lev, tag)'
    BY <2>1, <2>2
       DEF MapInv, Tree, Leads, Live, Contents, EntryOk, Maker, Splitter, FirstIn, Untouched,
           Mapped, Cur, Walking, Reached, Region, Top, EntryTypes, FramesOk, FrameOk, FrameNum,
           Number, EntryEnd, Level
  <2>. QED  BY <2>3
<1>. QED  BY <1>1, <1>2, <1>3, <1>4 DEF Next

\* At every step of init_xlat_tables the tables in use form a tree whose entries
\* hold, block by block, the regions that xlat_tables_map_region has been through,
\* and its recursion is where the addresses it has come to are.
THEOREM TablesBuilt == Spec => []BuiltInv
<1>1. BuiltInv /\ [Next]_vars => BuiltInv'
  <2>. SUFFICES ASSUME BuiltInv, [Next]_vars PROVE BuiltInv'
    OBVIOUS
  <2>1. Inv'
    BY ListStep, TablesStep DEF BuiltInv, Inv
  <2>. QED  BY <2>1, TodoStep, BuiltStep DEF BuiltInv
<1>. QED  BY <1>1, BuiltInit, PTL DEF Spec

\* xlat_tables_map_region_action never meets an entry it does not expect, so that
\* the panics of xlat_tables_map_region are not reached, and no entry is written
\* outside its table.
THEOREM NeverPanics == Spec => []NoPanic
<1>1. ASSUME BuiltInv PROVE NoPanic
  <2>1. CASE pc \in {"map", "return"}
    <3>1. PICK lev, tag : Here(lev, tag)
      BY <1>1, <2>1 DEF BuiltInv, Built, Here
    <3>. QED  BY <3>1, NoPanicHere
  <2>2. CASE pc \notin {"map", "return"}
    BY <2>2 DEF NoPanic
  <2>. QED  BY <2>1, <2>2
<1>2. BuiltInv => NoPanic
  BY <1>1
<1>. QED  BY <1>2, TablesBuilt, PTL

-----------------------------------------------------------------------------
(* The walk through the finished tables.                                     *)

\* The table that entry va of table t of level l leads to, or -1.
Below(t, l, va) == LET e == EntryFor(t, l, va) IN IF e.type = "table" THEN e.to ELSE -1

LEMMA WalkEquation ==
  ASSUME NEW va
  PROVE  LET T == TableAt(va)
         IN /\ T[BaseLevel] = 0
            /\ \A l \in Levels : l # BaseLevel => T[l] = Below(T[l - 1], l - 1, va)
<1>. DEFINE G(f) == [l \in Levels |-> IF l = BaseLevel THEN 0
                     ELSE LET e == EntryFor(f[l - 1], l - 1, va)
                          IN IF e.type = "table" THEN e.to ELSE -1]
            w1 == Below(0, BaseLevel, va)
            w2 == Below(w1, BaseLevel + 1, va)
            w3 == Below(w2, BaseLevel + 2, va)
            f == [l \in Levels |-> CASE l = BaseLevel -> 0 [] l = BaseLevel + 1 -> w1
                                     [] l = BaseLevel + 2 -> w2 [] OTHER -> w3]
<1>1. BaseLevel \in 0 .. 3 /\ Levels = BaseLevel .. 3
  BY Constants DEF Levels
<1>2. ASSUME NEW l \in Levels
      PROVE  f[l] = IF l = BaseLevel THEN 0 ELSE Below(f[l - 1], l - 1, va)
  <2>. HIDE DEF w1, w2, w3
  <2>1. CASE l = BaseLevel
    BY <1>1, <2>1
  <2>2. CASE l = BaseLevel + 1
    <3>1. l - 1 = BaseLevel /\ l - 1 \in Levels /\ l # BaseLevel
      BY <1>1, <2>2
    <3>2. f[l - 1] = 0 /\ f[l] = w1
      BY <1>1, <2>2, <3>1
    <3>. QED  BY <3>1, <3>2 DEF w1
  <2>3. CASE l = BaseLevel + 2
    <3>1. l - 1 = BaseLevel + 1 /\ l - 1 \in Levels /\ l # BaseLevel
      BY <1>1, <2>3
    <3>2. f[l - 1] = w1 /\ f[l] = w2
      BY <1>1, <2>3, <3>1
    <3>. QED  BY <3>1, <3>2 DEF w2
  <2>4. CASE l = BaseLevel + 3
    <3>1. l - 1 = BaseLevel + 2 /\ l - 1 \in Levels /\ l # BaseLevel
      BY <1>1, <2>4
    <3>2. f[l - 1] = w2 /\ f[l] = w3
      BY <1>1, <2>4, <3>1
    <3>. QED  BY <3>1, <3>2 DEF w3
  <2>5. l = BaseLevel \/ l = BaseLevel + 1 \/ l = BaseLevel + 2 \/ l = BaseLevel + 3
    BY <1>1
  <2>. QED  BY <2>1, <2>2, <2>3, <2>4, <2>5
<1>3. \E t : t = G(t)
  <2>1. f = [l \in Levels |-> f[l]]
    OBVIOUS
  <2>. HIDE DEF f
  <2>2. f = G(f)
    BY <1>2, <2>1 DEF Below
  <2>. QED  BY <2>2
<1>4. TableAt(va) = CHOOSE t : t = G(t)
  BY DEF TableAt
<1>5. TableAt(va) = G(TableAt(va))
  BY <1>3, <1>4
<1>6. BaseLevel \in Levels
  BY <1>1
<1>. QED  BY <1>5, <1>6 DEF Below

\* The walk for va reads entry i of table t at level l.
Reads(lev, tag, va, t, l, i) ==
  /\ t \in Live /\ lev[t] = l /\ i \in Indexes(t)
  /\ EntryFor(t, l, va) = tables[t][i]
  /\ va \in Span(l, Number(tag, t, i))

LEMMA WalkBegins ==
  ASSUME TodoInv, NEW lev, NEW tag, Tree(lev, tag), NEW va \in 0 .. VaMax
  PROVE  \E i : Reads(lev, tag, va, 0, BaseLevel, i)
<1>. DEFINE b == BlockSize(BaseLevel)
            m == va \div b
<1>1. /\ BaseLevel \in 0 .. 3 /\ BaseEntries \in Nat \ {0} /\ Entries \in Nat /\ VaMax \in Nat
      /\ va \in Nat
  BY Constants
<1>2. b \in Nat \ {0}
  BY <1>1, BlockPositive
<1>3. m \in Nat /\ va \in Span(BaseLevel, m)
  BY <1>1, RoundsToBlock
<1>. HIDE DEF m
<1>4. m < BaseEntries
  <2>1. Lo(BaseLevel, m) <= va
    BY <1>3, <1>1, LoType DEF Span
  <2>2. m * b < BaseEntries * b /\ m * b \in Nat /\ BaseEntries * b \in Nat
    <3>1. m * b <= va /\ VaMax < BaseEntries * b
      BY <2>1, BaseTableReaches DEF Lo
    <3>2. m * b \in Nat /\ BaseEntries * b \in Nat
      <4>. HIDE DEF b
      <4>. QED  BY <1>1, <1>2, <1>3
    <3>. HIDE DEF b
    <3>. QED  BY <1>1, <3>1, <3>2
  <2>. HIDE DEF b
  <2>3. SUFFICES ASSUME BaseEntries <= m PROVE FALSE
    BY <1>1, <1>3
  <2>4. BaseEntries * b <= m * b
    BY <1>1, <1>2, <1>3, <2>3
  <2>. QED  BY <2>2, <2>4
<1>5. m \in Indexes(0) /\ (m % BaseEntries) = m
  <2>1. m \in 0 .. BaseEntries - 1
    BY <1>1, <1>3, <1>4
  <2>2. 0 \in Int /\ BaseEntries \in Nat \ {0}
    BY <1>1
  <2>3. (BaseEntries * 0 + m) % BaseEntries = m
    BY <2>1, <2>2, DivisionUnique, Zenon
  <2>4. BaseEntries * 0 + m = m
    BY <1>1, <1>3
  <2>5. (m % BaseEntries) = m
    BY <2>3, <2>4
  <2>. QED  BY <2>1, <2>5 DEF Indexes
<1>6. 0 \in Live /\ lev[0] = BaseLevel /\ tag[0] = 0
  BY DEF Live, TodoInv, Tree
<1>7. Number(tag, 0, m) = m
  BY <1>1, <1>3, <1>6 DEF Number
<1>8. EntryFor(0, BaseLevel, va) = tables[0][m]
  BY <1>5 DEF EntryFor, m
<1>. QED  BY <1>3, <1>5, <1>6, <1>7, <1>8 DEF Reads

LEMMA WalkDescends ==
  ASSUME TodoInv, NEW lev, NEW tag, Tree(lev, tag), NEW va, NEW t, NEW l, NEW i,
         Reads(lev, tag, va, t, l, i), tables[t][i].type = "table"
  PROVE  /\ l \in 0 .. 2 /\ Below(t, l, va) # -1
         /\ \E k : Reads(lev, tag, va, Below(t, l, va), l + 1, k)
<1>1. /\ t \in Live /\ lev[t] = l /\ i \in Indexes(t) /\ EntryFor(t, l, va) = tables[t][i]
      /\ va \in Span(l, Number(tag, t, i))
  BY DEF Reads
<1>2. PICK u \in Live \ {0} : Leads(lev, tag, t, i, u)
  BY <1>1 DEF Tree
<1>3. Below(t, l, va) = u
  BY <1>1, <1>2 DEF Below, Leads, TableDesc
<1>4. lev[u] = l + 1 /\ tag[u] = Number(tag, t, i)
  BY <1>1, <1>2 DEF Leads
<1>5. l \in 0 .. 3 /\ Number(tag, t, i) \in Nat /\ lev[u] \in 0 .. 3 /\ Indexes(u) = 0 .. Entries - 1
  BY <1>1, <1>2, TreeTypes
<1>6. l \in 0 .. 2
  BY <1>4, <1>5
<1>. DEFINE m == va \div BlockSize(l + 1)
            k == m % Entries
<1>7. k \in 0 .. Entries - 1 /\ m = Number(tag, t, i) * Entries + k /\ va \in Span(l + 1, m)
  BY <1>1, <1>5, <1>6, SpanSplit, Zenon
<1>8. k \in Indexes(u)
  BY <1>5, <1>7
<1>9. EntryFor(u, l + 1, va) = tables[u][k]
  <2>1. u # -1 /\ u # 0
    BY <1>2 DEF Live
  <2>. QED  BY <2>1 DEF EntryFor
<1>. HIDE DEF m, k
<1>10. Number(tag, u, k) = m
  BY <1>4, <1>7 DEF Number
<1>11. Reads(lev, tag, va, u, l + 1, k)
  BY <1>2, <1>4, <1>7, <1>8, <1>9, <1>10 DEF Reads
<1>12. u # -1
  BY <1>2 DEF Live
<1>. QED  BY <1>3, <1>6, <1>11, <1>12

\* At each level, the walk reads an entry for its address, or is over.
LEMMA WalkReads ==
  ASSUME TodoInv, NEW lev, NEW tag, Tree(lev, tag), NEW va \in 0 .. VaMax
  PROVE  \A l \in Levels : TableAt(va)[l] # -1 => \E i : Reads(lev, tag, va, TableAt(va)[l], l, i)
<1>. DEFINE T == TableAt(va)
            P(l) == l \in Levels /\ T[l] # -1 => \E i : Reads(lev, tag, va, T[l], l, i)
<1>1. T[BaseLevel] = 0 /\ \A l \in Levels : l # BaseLevel => T[l] = Below(T[l - 1], l - 1, va)
  BY WalkEquation, Zenon
<1>. HIDE DEF T
<1>2. BaseLevel \in 0 .. 3 /\ Levels = BaseLevel .. 3
  BY Constants DEF Levels
<1>3. P(BaseLevel)
  BY <1>1, WalkBegins
<1>4. ASSUME NEW l \in Levels, NEW k \in Levels, l = k + 1, P(k) PROVE P(l)
  <2>. SUFFICES ASSUME T[l] # -1 PROVE \E i : Reads(lev, tag, va, T[l], l, i)
    OBVIOUS
  <2>1. l # BaseLevel /\ l - 1 = k
    BY <1>2, <1>4
  <2>2. T[l] = Below(T[k], k, va)
    BY <1>1, <2>1
  <2>3. EntryFor(T[k], k, va).type = "table"
    BY <2>2 DEF Below
  <2>4. T[k] # -1
    BY <2>3 DEF EntryFor, Invalid
  <2>5. PICK i : Reads(lev, tag, va, T[k], k, i)
    BY <1>4, <2>4
  <2>6. tables[T[k]][i].type = "table"
    BY <2>3, <2>5 DEF Reads
  <2>7. \E j : Reads(lev, tag, va, Below(T[k], k, va), k + 1, j)
    BY <2>5, <2>6, WalkDescends
  <2>. QED  BY <1>4, <2>2, <2>7
<1>. HIDE DEF P
<1>5. ASSUME NEW l \in Levels PROVE P(l)
  <2>1. PICK a, b, c : a = BaseLevel + 1 /\ b = BaseLevel + 2 /\ c = BaseLevel + 3
    OBVIOUS
  <2>2. /\ BaseLevel \in Levels /\ a = BaseLevel + 1 /\ b = a + 1 /\ c = b + 1
        /\ c \in Levels => b \in Levels
        /\ b \in Levels => a \in Levels
        /\ l \in {BaseLevel, a, b, c}
    BY <1>2, <2>1
  <2>3. a \in Levels => P(a)
    BY <1>3, <1>4, <2>2
  <2>4. b \in Levels => P(b)
    BY <1>4, <2>2, <2>3
  <2>5. c \in Levels => P(c)
    BY <1>4, <2>2, <2>4
  <2>. QED  BY <1>3, <2>2, <2>3, <2>4, <2>5
<1>. QED  BY <1>5 DEF P, T

\* The walk goes on below a table descriptor, and only there.
LEMMA WalkGoesOn ==
  ASSUME TodoInv, NEW lev, NEW tag, Tree(lev, tag), NEW va \in 0 .. VaMax,
         NEW l \in Levels, NEW k \in Levels, k < l, TableAt(va)[l] # -1
  PROVE  TableAt(va)[k] # -1 /\ EntryFor(TableAt(va)[k], k, va).type = "table"
<1>. DEFINE T == TableAt(va)
<1>1. \A n \in Levels : n # BaseLevel => T[n] = Below(T[n - 1], n - 1, va)
  BY WalkEquation, Zenon
<1>2. BaseLevel \in 0 .. 3 /\ Levels = BaseLevel .. 3
  BY Constants DEF Levels
<1>. HIDE DEF T
<1>3. ASSUME NEW n \in Levels, n # BaseLevel, T[n] # -1
      PROVE  /\ n - 1 \in Levels /\ T[n - 1] # -1
             /\ EntryFor(T[n - 1], n - 1, va).type = "table"
  <2>1. T[n] = Below(T[n - 1], n - 1, va)
    BY <1>1, <1>3
  <2>2. EntryFor(T[n - 1], n - 1, va).type = "table"
    BY <1>3, <2>1 DEF Below
  <2>3. T[n - 1] # -1
    BY <2>2 DEF EntryFor, Invalid
  <2>4. n - 1 \in Levels
    BY <1>2, <1>3
  <2>. QED  BY <2>2, <2>3, <2>4
<1>. DEFINE Q(n) == T[n] # -1 /\ EntryFor(T[n], n, va).type = "table"
<1>4. ASSUME NEW n \in Levels, n # BaseLevel, T[n] # -1 PROVE Q(n - 1) /\ n - 1 \in Levels
  BY <1>3, <1>4
<1>5. T[l] # -1
  BY DEF T
<1>6. l # BaseLevel /\ l - k \in {1, 2, 3}
  BY <1>2
<1>7. Q(l - 1) /\ l - 1 \in Levels
  BY <1>4, <1>5, <1>6
<1>8. CASE l - k = 1
  <2>1. l - 1 = k
    BY <1>2, <1>8
  <2>. QED  BY <1>7, <2>1 DEF T
<1>9. CASE l - k = 2
  <2>1. l - 1 # BaseLevel /\ l - 1 - 1 = k
    BY <1>2, <1>9
  <2>2. Q(l - 1 - 1)
    BY <1>4, <1>7, <2>1
  <2>. QED  BY <2>1, <2>2 DEF T
<1>10. CASE l - k = 3
  <2>1. l - 1 # BaseLevel /\ l - 1 - 1 # BaseLevel /\ l - 1 - 1 - 1 = k
    BY <1>2, <1>10
  <2>2. Q(l - 1 - 1) /\ l - 1 - 1 \in Levels
    BY <1>4, <1>7, <2>1
  <2>3. Q(l - 1 - 1 - 1)
    BY <1>4, <2>1, <2>2
  <2>. QED  BY <2>1, <2>3 DEF T
<1>. QED  BY <1>6, <1>8, <1>9, <1>10

-----------------------------------------------------------------------------
(* The finished tables and the list.                                         *)

\* The region that is first in a block is the innermost at its addresses there.
LEMMA FirstIsInner ==
  ASSUME ListInv, NEW j \in 1 .. Len(mmap), NEW l \in 0 .. 3, NEW n \in Nat, FirstIn(j, l, n),
         NEW va \in Span(l, n), In(va, mmap[j])
  PROVE  At(va) # {} /\ Inner(va) = j
<1>1. Len(mmap) \in Nat /\ DOMAIN mmap = 1 .. Len(mmap) /\ va \in Int
  BY LoType DEF ListInv, Span
<1>2. j \in At(va)
  BY <1>1 DEF At, In
<1>3. ASSUME NEW i \in At(va), i # j PROVE mmap[j].size < mmap[i].size
  <2>1. i \in 1 .. Len(mmap) /\ In(va, mmap[i])
    BY <1>1 DEF At, In
  <2>2. ~(i < j)
    BY <1>1, <2>1 DEF FirstIn
  <2>3. j < i
    BY <1>1, <1>3, <2>1, <2>2
  <2>. QED  BY <1>1, <2>1, <2>3, SharedAddress
<1>4. \A i \in At(va) : mmap[i].size \in Nat
  <2>1. \A i \in 1 .. Len(mmap) : mmap[i] \in Regions
    BY DEF ListInv
  <2>2. \A i \in At(va) : i \in 1 .. Len(mmap)
    BY <1>1 DEF At
  <2>. QED  BY <2>1, <2>2, RegionFacts
<1>. DEFINE M(i) == \A k \in At(va) : mmap[i].size <= mmap[k].size
<1>5. M(j)
  <2>1. ASSUME NEW k \in At(va) PROVE mmap[j].size <= mmap[k].size
    <3>. DEFINE x == mmap[j].size
                y == mmap[k].size
    <3>1. x \in Nat /\ y \in Nat /\ (k # j => x < y) /\ (k = j => x = y)
      BY <1>2, <1>3, <1>4
    <3>. HIDE DEF x, y
    <3>2. x <= y
      BY <3>1
    <3>. QED  BY <3>2 DEF x, y
  <2>. QED  BY <2>1
<1>6. ASSUME NEW i \in At(va), M(i) PROVE i = j
  <2>. DEFINE x == mmap[j].size
              y == mmap[i].size
  <2>1. x \in Nat /\ y \in Nat /\ (i # j => x < y) /\ y <= x
    BY <1>2, <1>3, <1>4, <1>6
  <2>. HIDE DEF x, y
  <2>. QED  BY <2>1
<1>. HIDE DEF M
<1>7. (CHOOSE i \in At(va) : M(i)) = j
  BY <1>2, <1>5, <1>6
<1>. QED  BY <1>2, <1>7 DEF Inner, M

\* OneBlock in the terms of the invariant.
LEMMA OneBlockMeans ==
  ASSUME ListInv, NEW j \in 1 .. Len(mmap), NEW l \in 0 .. 3, NEW n \in Nat,
         NEW va \in Span(l, n), Inner(va) = j
  PROVE  OneBlock(va, l) <=>
           /\ Fills(mmap[j], l, n)
           /\ \A i \in 1 .. Len(mmap) : mmap[i].size < mmap[j].size =>
                \A a \in Span(l, n) : ~In(a, mmap[i])
<1>. DEFINE b == BlockSize(l)
            r == mmap[j]
            first == Lo(l, n)
            last == Lo(l, n) + b - 1
<1>1. /\ b \in Nat \ {0} /\ first \in Nat /\ first = b * n /\ last \in Nat
      /\ first <= last /\ Span(l, n) = first .. last
  <2>1. b \in Nat \ {0} /\ first \in Nat /\ first = b * n
    BY LoType
  <2>2. Span(l, n) = first .. last /\ last = first + b - 1
    BY DEF Span
  <2>. HIDE DEF b, first, last
  <2>. QED  BY <2>1, <2>2
<1>2. va \in Int /\ va \in Nat
  <2>1. va \in Int
    BY <1>1
  <2>. QED  BY <2>1, SpanAt
<1>3. va - (va % b) = first
  <2>1. va \div b = n
    BY <1>2, SpanAt
  <2>. QED  BY <1>2, <2>1, RoundsToBlock
<1>4. /\ Len(mmap) \in Nat /\ DOMAIN mmap = 1 .. Len(mmap)
      /\ \A i \in 1 .. Len(mmap) : mmap[i] \in Regions
  BY DEF ListInv
<1>5. \A i \in 1 .. Len(mmap) : /\ mmap[i].va \in Nat /\ EndVa(mmap[i]) \in Nat
                                /\ mmap[i].va <= EndVa(mmap[i])
  <2>1. ASSUME NEW x \in Regions PROVE x.va \in Nat /\ EndVa(x) \in Nat /\ x.va <= EndVa(x)
    <3>1. x.va \in Nat /\ EndVa(x) \in Nat /\ x.size \in Nat \ {0} /\ EndVa(x) = x.va + x.size - 1
      BY RegionFacts
    <3>. QED  BY <3>1
  <2>. QED  BY <1>4, <2>1
<1>6. /\ r \in Regions /\ r.va \in Nat /\ r.pa \in Nat /\ EndVa(r) \in Nat
      /\ (r.va % PageSize) = 0 /\ (r.pa % PageSize) = 0
  <2>1. r \in Regions
    BY <1>4
  <2>2. r.pa \in Nat
    BY <2>1, WordPositive DEF Regions, RegionArg
  <2>. QED  BY <2>1, <2>2, RegionFacts, RegionPages
<1>7. OneBlock(va, l) <=>
        /\ l = 3 \/ (l >= MinBlock /\ r.gran >= b)
        /\ (r.pa - r.va) % b = 0
        /\ r.va <= first /\ last <= EndVa(r)
        /\ \A i \in 1 .. Len(mmap) : mmap[i].size < r.size => EndVa(mmap[i]) < first \/ last < mmap[i].va
  BY <1>3, <1>4 DEF OneBlock
<1>. HIDE DEF b, r, first, last
<1>8. r.va <= first /\ last <= EndVa(r) <=> \A a \in Span(l, n) : In(a, r)
  <2>1. ASSUME r.va <= first, last <= EndVa(r), NEW a \in first .. last PROVE In(a, r)
    BY <1>1, <1>6, <2>1 DEF In
  <2>2. ASSUME \A a \in first .. last : In(a, r) PROVE r.va <= first /\ last <= EndVa(r)
    <3>1. first \in first .. last /\ last \in first .. last
      BY <1>1
    <3>. QED  BY <2>2, <3>1 DEF In
  <2>. QED  BY <1>1, <2>1, <2>2
<1>9. ASSUME NEW i \in 1 .. Len(mmap)
      PROVE  (EndVa(mmap[i]) < first \/ last < mmap[i].va) <=> \A a \in Span(l, n) : ~In(a, mmap[i])
  <2>. DEFINE v == mmap[i].va
              e == EndVa(mmap[i])
  <2>1. v \in Nat /\ e \in Nat /\ v <= e
    BY <1>5
  <2>2. \A a : In(a, mmap[i]) <=> v <= a /\ a <= e
    BY DEF In
  <2>. HIDE DEF v, e
  <2>3. ASSUME e < first \/ last < v, NEW a \in first .. last PROVE ~(v <= a /\ a <= e)
    BY <1>1, <2>1, <2>3
  <2>4. ASSUME \A a \in first .. last : ~(v <= a /\ a <= e) PROVE e < first \/ last < v
    <3>1. SUFFICES ASSUME first <= e, v <= last PROVE FALSE
      BY <1>1, <2>1
    <3>2. CASE v <= first
      <4>1. first \in first .. last /\ v <= first /\ first <= e
        BY <1>1, <3>1, <3>2
      <4>. QED  BY <2>4, <4>1
    <3>3. CASE first < v
      <4>1. v \in first .. last /\ v <= v
        BY <1>1, <2>1, <3>1, <3>3
      <4>. QED  BY <2>1, <2>4, <4>1
    <3>. QED  BY <1>1, <2>1, <3>2, <3>3
  <2>. QED  BY <1>1, <2>2, <2>3, <2>4 DEF v, e
<1>10. (l = 3 \/ (l >= MinBlock /\ r.gran >= b)) /\ (r.pa - r.va) % b = 0 <=> Fits(r, l, n)
  <2>1. CASE l = 3
    <3>1. b = PageSize /\ PageSize \in Nat \ {0} /\ r.pa \in Int /\ r.va \in Int
      BY <1>6, <2>1, PageBlock, Constants DEF b
    <3>2. (r.pa - r.va) % b = 0
      BY <1>6, <3>1, PagesAdd, Zenon
    <3>. QED  BY <2>1, <3>2 DEF Fits
  <2>2. CASE l # 3
    <3>. DEFINE d == r.pa - r.va
                x == r.pa + first - r.va
    <3>1. d \in Int /\ x \in Int /\ x = d + first /\ d = x - first /\ first \in Int
      BY SMTT(20), <1>1, <1>6
    <3>2. first % b = 0
      <4>1. (b * n) % b = 0
        BY <1>1, Multiple
      <4>. QED  BY <1>1, <4>1
    <3>. HIDE DEF d, x
    <3>3. ASSUME d % b = 0 PROVE x % b = 0
      <4>1. (d + first) % b = 0
        BY <1>1, <3>1, <3>2, <3>3, PagesAdd, Zenon
      <4>. QED  BY <3>1, <4>1
    <3>4. ASSUME x % b = 0 PROVE d % b = 0
      <4>1. (x - first) % b = 0
        BY <1>1, <3>1, <3>2, <3>4, PagesAdd, Zenon
      <4>. QED  BY <3>1, <4>1
    <3>5. Fits(r, l, n) <=> x % b = 0 /\ l >= MinBlock /\ r.gran >= b
      BY <2>2 DEF Fits, x, first, b
    <3>. QED  BY <2>2, <3>3, <3>4, <3>5 DEF d
  <2>. QED  BY <2>1, <2>2
<1>. QED  BY <1>7, <1>8, <1>9, <1>10 DEF Fills, r

\* A walk that ends in a descriptor has found the block of the innermost region.
LEMMA LeafFound ==
  ASSUME NEW lev, NEW tag, Here(lev, tag), pc = "done", NEW va \in 0 .. VaMax,
         NEW l \in LeafLevels(va)
  PROVE  /\ l \in Levels /\ l \in 0 .. 3 /\ TableAt(va)[l] # -1
         /\ \E n \in Nat : \E j \in 1 .. Len(mmap) :
              /\ va \in Span(l, n) /\ At(va) # {} /\ Inner(va) = j
              /\ Maker(j, EntryFor(TableAt(va)[l], l, va), l, n)
<1>. USE DEF Here, MapInv
<1>. DEFINE t == TableAt(va)[l]
            e == EntryFor(t, l, va)
<1>1. l \in Levels /\ e.type = "leaf"
  BY DEF LeafLevels
<1>2. l \in 0 .. 3
  BY <1>1, Constants DEF Levels
<1>3. t # -1
  BY <1>1 DEF EntryFor, Invalid
<1>4. PICK i : Reads(lev, tag, va, t, l, i)
  BY <1>1, <1>3, WalkReads
<1>5. /\ t \in Live /\ lev[t] = l /\ i \in Indexes(t) /\ e = tables[t][i]
      /\ va \in Span(l, Number(tag, t, i))
  BY <1>4 DEF Reads
<1>. HIDE DEF t, e
<1>6. PICK n : n = Number(tag, t, i)
  OBVIOUS
<1>7. n \in Nat
  BY <1>5, <1>6, TreeTypes
<1>8. EntryOk(e, l, n)
  BY <1>5, <1>6 DEF Contents
<1>9. Mapped = Len(mmap)
  <2>1. todo = <<>> /\ Len(todo) = 0 /\ Len(mmap) \in Nat /\ ~Walking
    BY DEF TodoInv, Walking, Inv, ListInv
  <2>. QED  BY <2>1 DEF Mapped, Cur
<1>10. PICK j \in 1 .. Len(mmap) : Maker(j, e, l, n)
  BY <1>1, <1>8, <1>9 DEF EntryOk, e, t
<1>11. va \in Span(l, n)
  BY <1>5, <1>6
<1>12. FirstIn(j, l, n) /\ In(va, mmap[j])
  BY <1>10, <1>11 DEF Maker, Fills
<1>13. At(va) # {} /\ Inner(va) = j
  BY <1>2, <1>7, <1>11, <1>12, FirstIsInner DEF Inv
<1>. QED  BY <1>1, <1>2, <1>3, <1>7, <1>10, <1>11, <1>13 DEF e, t

\* Above the level at which a walk ends, no block would have done.
LEMMA SplitAbove ==
  ASSUME NEW lev, NEW tag, Here(lev, tag), pc = "done", NEW va \in 0 .. VaMax,
         NEW j \in 1 .. Len(mmap), Inner(va) = j, NEW k \in Levels,
         TableAt(va)[k] # -1, EntryFor(TableAt(va)[k], k, va).type = "table"
  PROVE  ~OneBlock(va, k)
<1>. USE DEF Here, MapInv
<1>. DEFINE t == TableAt(va)[k]
            e == EntryFor(t, k, va)
<1>1. k \in 0 .. 3
  BY Constants DEF Levels
<1>2. PICK i : Reads(lev, tag, va, t, k, i)
  BY WalkReads
<1>3. /\ t \in Live /\ lev[t] = k /\ i \in Indexes(t) /\ e = tables[t][i]
      /\ va \in Span(k, Number(tag, t, i)) /\ e.type = "table"
  BY <1>2 DEF Reads
<1>. HIDE DEF t, e
<1>4. PICK n : n = Number(tag, t, i)
  OBVIOUS
<1>5. n \in Nat /\ va \in Span(k, n)
  BY <1>3, <1>4, TreeTypes
<1>6. EntryOk(e, k, n)
  BY <1>3, <1>4 DEF Contents
<1>7. Mapped = Len(mmap) /\ Len(mmap) \in Nat
  <2>1. todo = <<>> /\ Len(todo) = 0 /\ Len(mmap) \in Nat /\ ~Walking
    BY DEF TodoInv, Walking, Inv, ListInv
  <2>. QED  BY <2>1 DEF Mapped, Cur
<1>8. PICK s \in 1 .. Len(mmap) : Splitter(s, k, n)
  BY <1>3, <1>6, <1>7 DEF EntryOk
<1>9. FirstIn(s, k, n) /\ ~Fills(mmap[s], k, n)
  BY <1>8 DEF Splitter
<1>10. PICK a \in Span(k, n) : In(a, mmap[s])
  BY <1>9 DEF FirstIn
<1>11. a \in Int
  BY <1>1, <1>5, LoType DEF Span
<1>12. SUFFICES ASSUME OneBlock(va, k) PROVE FALSE
  OBVIOUS
<1>13. /\ Fills(mmap[j], k, n)
       /\ \A m \in 1 .. Len(mmap) : mmap[m].size < mmap[j].size =>
            \A c \in Span(k, n) : ~In(c, mmap[m])
  BY <1>1, <1>5, <1>12, OneBlockMeans DEF Inv
<1>14. In(a, mmap[j])
  BY <1>10, <1>13 DEF Fills
<1>15. s # j
  BY <1>9, <1>13
<1>16. CASE j < s
  <2>1. j \in 1 .. s - 1
    BY <1>7, <1>16
  <2>. QED  BY <1>9, <1>10, <1>14, <2>1 DEF FirstIn
<1>17. CASE s < j
  <2>1. mmap[s].size < mmap[j].size
    BY <1>10, <1>11, <1>14, <1>17, SharedAddress DEF Inv
  <2>. QED  BY <1>10, <1>13, <2>1
<1>. QED  BY <1>7, <1>15, <1>16, <1>17

\* xlat_tables_map_region_action uses a table only where no block fits: each address
\* is translated by the largest block that its region, its alignment and its
\* granularity allow.
THEOREM BlocksLargest == Spec => []LargestBlocks
<1>1. ASSUME BuiltInv, pc = "done", NEW va \in 0 .. VaMax, NEW l \in LeafLevels(va)
      PROVE  OneBlock(va, l) /\ \A k \in Levels : k < l => ~OneBlock(va, k)
  <2>1. PICK lev, tag : Here(lev, tag)
    BY <1>1 DEF BuiltInv, Built, Here
  <2>2. l \in Levels /\ l \in 0 .. 3 /\ TableAt(va)[l] # -1
    BY <1>1, <2>1, LeafFound
  <2>3. PICK n \in Nat : \E j \in 1 .. Len(mmap) :
              /\ va \in Span(l, n) /\ At(va) # {} /\ Inner(va) = j
              /\ Maker(j, EntryFor(TableAt(va)[l], l, va), l, n)
    BY <1>1, <2>1, LeafFound
  <2>4. PICK j \in 1 .. Len(mmap) :
              /\ va \in Span(l, n) /\ Inner(va) = j
              /\ Maker(j, EntryFor(TableAt(va)[l], l, va), l, n)
    BY <2>3
  <2>5. FirstIn(j, l, n) /\ Fills(mmap[j], l, n)
    BY <2>4 DEF Maker
  <2>6. ListInv /\ Len(mmap) \in Nat
    BY <1>1 DEF BuiltInv, Inv, ListInv
  <2>7. ASSUME NEW i \in 1 .. Len(mmap), mmap[i].size < mmap[j].size,
               NEW a \in Span(l, n), In(a, mmap[i])
        PROVE  FALSE
    <3>1. a \in Int /\ In(a, mmap[j])
      BY <2>2, <2>5, LoType DEF Span, Fills
    <3>2. mmap[i].size \in Nat /\ mmap[j].size \in Nat
      <4>1. mmap[i] \in Regions /\ mmap[j] \in Regions
        BY <2>6 DEF ListInv
      <4>. QED  BY <4>1, RegionFacts
    <3>3. ~(i < j)
      BY <2>5, <2>6, <2>7 DEF FirstIn
    <3>4. ~(j < i)
      <4>1. ASSUME j < i PROVE mmap[j].size < mmap[i].size
        BY <2>6, <2>7, <3>1, <4>1, SharedAddress
      <4>. QED  BY <2>7, <3>2, <4>1
    <3>5. i = j
      BY <2>6, <3>3, <3>4
    <3>. QED  BY <2>7, <3>2, <3>5
  <2>8. OneBlock(va, l)
    BY <2>2, <2>4, <2>5, <2>6, <2>7, OneBlockMeans
  <2>9. ASSUME NEW k \in Levels, k < l PROVE ~OneBlock(va, k)
    <3>1. TableAt(va)[k] # -1 /\ EntryFor(TableAt(va)[k], k, va).type = "table"
      BY <1>1, <2>1, <2>2, <2>9, WalkGoesOn DEF Here, MapInv
    <3>. QED  BY <1>1, <2>1, <2>4, <3>1, SplitAbove
  <2>. QED  BY <2>8, <2>9
<1>2. BuiltInv => LargestBlocks
  BY <1>1 DEF LargestBlocks
<1>. QED  BY <1>2, TablesBuilt, PTL

\* The walk for an address of a region does not end in a fault.
LEMMA LeafExists ==
  ASSUME NEW lev, NEW tag, Here(lev, tag), pc = "done", NEW va \in 0 .. VaMax, At(va) # {}
  PROVE  LeafLevels(va) # {}
<1>. USE DEF Here, MapInv
<1>. DEFINE T == TableAt(va)
<1>1. SUFFICES ASSUME LeafLevels(va) = {} PROVE FALSE
  OBVIOUS
<1>2. BaseLevel \in 0 .. 3 /\ Levels = BaseLevel .. 3
  BY Constants DEF Levels
<1>3. Cur = Len(mmap) + 1 /\ Len(mmap) \in Nat /\ DOMAIN mmap = 1 .. Len(mmap)
  <2>1. todo = <<>> /\ Len(todo) = 0 /\ Len(mmap) \in Nat /\ mmap \in Seq(Regions)
    BY DEF TodoInv, Inv, ListInv
  <2>. QED  BY <2>1 DEF Cur
<1>4. PICK j \in 1 .. Len(mmap) : In(va, mmap[j])
  BY <1>3 DEF At, In
<1>5. T[BaseLevel] = 0 /\ \A l \in Levels : l # BaseLevel => T[l] = Below(T[l - 1], l - 1, va)
  BY WalkEquation, Zenon
<1>6. ASSUME NEW l \in Levels, T[l] # -1 PROVE l + 1 \in Levels /\ T[l + 1] # -1
  <2>1. PICK i : Reads(lev, tag, va, T[l], l, i)
    BY <1>6, WalkReads
  <2>2. /\ T[l] \in Live /\ lev[T[l]] = l /\ i \in Indexes(T[l])
        /\ EntryFor(T[l], l, va) = tables[T[l]][i] /\ va \in Span(l, Number(tag, T[l], i))
    BY <2>1 DEF Reads
  <2>3. tables[T[l]][i].type # "leaf"
    BY <1>1, <2>2 DEF LeafLevels
  <2>4. tables[T[l]][i] # Invalid
    <3>1. SUFFICES ASSUME tables[T[l]][i] = Invalid PROVE FALSE
      OBVIOUS
    <3>2. Untouched(l, Number(tag, T[l], i))
      BY <2>2, <3>1 DEF Contents, EntryOk
    <3>3. j \in 1 .. Cur - 1
      BY <1>3
    <3>. QED  BY <1>4, <2>2, <3>2, <3>3 DEF Untouched
  <2>5. tables[T[l]][i].type = "table"
    <3>1. T[l] \in TableIds
      BY <2>2, TreeTypes
    <3>. QED  BY <2>2, <2>3, <2>4, <3>1 DEF EntryTypes
  <2>6. l \in 0 .. 2 /\ Below(T[l], l, va) # -1
    BY <2>1, <2>5, WalkDescends
  <2>7. PICK k : k = l + 1
    OBVIOUS
  <2>8. k \in Levels /\ k # BaseLevel /\ k - 1 = l
    BY <1>2, <2>6, <2>7
  <2>9. T[k] = Below(T[l], l, va)
    BY <1>5, <2>8
  <2>. QED  BY <2>6, <2>7, <2>8, <2>9
<1>. HIDE DEF T
<1>7. BaseLevel \in Levels /\ T[BaseLevel] # -1
  BY <1>2, <1>5
<1>8. PICK a, b, c, d : a = BaseLevel + 1 /\ b = a + 1 /\ c = b + 1 /\ d = c + 1
  OBVIOUS
<1>9. a \in Levels /\ T[a] # -1
  BY <1>6, <1>7, <1>8
<1>10. b \in Levels /\ T[b] # -1
  BY <1>6, <1>8, <1>9
<1>11. c \in Levels /\ T[c] # -1
  BY <1>6, <1>8, <1>10
<1>12. d \in Levels
  BY <1>6, <1>8, <1>11
<1>. QED  BY <1>2, <1>8, <1>12

\* What the descriptor of a block says of an address of the block is what its
\* region says.
LEMMA LeafMeans ==
  ASSUME ListInv, NEW j \in 1 .. Len(mmap), NEW l \in 0 .. 3, NEW n \in Nat,
         NEW va \in Span(l, n), NEW d, Maker(j, d, l, n)
  PROVE  LET r == mmap[j]
         IN /\ (d.pa - (d.pa % BlockSize(l))) + (va % BlockSize(l)) = r.pa + va - r.va
            /\ d.mem = r.attr.mem /\ d.ns = r.attr.ns /\ d.write = r.attr.rw
            /\ d.user = (Regime = "EL1&0" /\ r.attr.user)
            /\ (~d.xn) = (r.attr.mem # "device" /\ ~r.attr.rw /\ ~r.attr.xn)
<1>. DEFINE b == BlockSize(l)
            r == mmap[j]
            first == Lo(l, n)
            p == r.pa + first - r.va
<1>1. b \in Nat \ {0} /\ first \in Nat /\ first = b * n
  BY LoType
<1>2. va \in Nat /\ va \in Int
  <2>1. va \in Int
    BY <1>1 DEF Span
  <2>. QED  BY <2>1, SpanAt
<1>3. va - (va % b) = first
  <2>1. va \div b = n
    BY <1>2, SpanAt
  <2>. QED  BY <1>2, <2>1, RoundsToBlock
<1>4. /\ r \in Regions /\ r.va \in Nat /\ r.pa \in Nat
      /\ (r.va % PageSize) = 0 /\ (r.pa % PageSize) = 0
  <2>1. r \in Regions
    BY DEF ListInv
  <2>2. r.pa \in Nat
    BY <2>1, WordPositive DEF Regions, RegionArg
  <2>. QED  BY <2>1, <2>2, RegionFacts, RegionPages
<1>5. d = XlatDesc(r.attr, p) /\ Fits(r, l, n)
  BY DEF Maker, Fills
<1>6. p \in Int
  BY <1>1, <1>4
<1>7. p % b = 0
  <2>1. CASE l = 3
    <3>1. b = PageSize /\ PageSize \in Nat \ {0} /\ r.pa \in Int /\ r.va \in Int /\ first \in Int
      BY <1>1, <1>4, <2>1, PageBlock, Constants
    <3>2. first % b = 0
      <4>1. n \in Int
        OBVIOUS
      <4>2. (b * n) % b = 0
        BY <1>1, <4>1, Multiple, Zenon
      <4>. QED  BY <1>1, <4>2
    <3>. HIDE DEF b, first, r
    <3>3. PICK x : x = r.pa - r.va
      OBVIOUS
    <3>4. x \in Int /\ x % b = 0
      <4>1. (r.pa - r.va) % b = 0
        BY <1>4, <3>1, PagesAdd, Zenon
      <4>. QED  BY <3>1, <3>3, <4>1
    <3>5. (x + first) % b = 0
      BY <1>1, <3>1, <3>2, <3>4, PagesAdd, Zenon
    <3>6. x + first = p
      BY <3>1, <3>3
    <3>. QED  BY <3>5, <3>6
  <2>2. CASE l # 3
    BY <1>5, <2>2 DEF Fits
  <2>. QED  BY <2>1, <2>2
<1>. HIDE DEF b, r, first, p
<1>8. /\ d.pa = p /\ d.mem = r.attr.mem /\ d.ns = r.attr.ns /\ d.write = r.attr.rw
      /\ d.user = (Regime = "EL1&0" /\ r.attr.user)
      /\ d.xn = (r.attr.mem = "device" \/ r.attr.rw \/ r.attr.xn)
  BY <1>5 DEF XlatDesc
<1>9. (d.pa - (d.pa % b)) + (va % b) = r.pa + va - r.va
  <2>1. va % b \in Int /\ va % b = va - first
    <3>1. va % b \in Int
      BY <1>1, <1>2, Division
    <3>. QED  BY <1>1, <1>2, <1>3, <3>1
  <2>2. d.pa - (d.pa % b) = p
    BY <1>6, <1>7, <1>8
  <2>3. p + (va - first) = r.pa + va - r.va
    BY <1>1, <1>2, <1>4 DEF p
  <2>. QED  BY <2>1, <2>2, <2>3
<1>10. r.attr \in Attr /\ r.attr.rw \in BOOLEAN /\ r.attr.xn \in BOOLEAN
  <2>1. r.attr \in Attr
    BY <1>4 DEF Regions, RegionArg
  <2>. QED  BY <2>1, XlatAssumption
<1>11. (~d.xn) = (r.attr.mem # "device" /\ ~r.attr.rw /\ ~r.attr.xn)
  BY <1>8, <1>10, Zenon
<1>. QED  BY <1>8, <1>9, <1>11 DEF b, r

\* What the tables say of an address is what the innermost region of the list that
\* has it says, and an address in no region is not mapped.
MapsTheList == pc = "done" => \A va \in 0 .. VaMax : Lookup(va) = Wanted(va)

\* When init_xlat_tables is done the tables translate every address as the regions
\* passed to mmap_add_region ask, attributes included, whatever the regions are.
THEOREM ListMapped == Spec => []MapsTheList
<1>1. ASSUME BuiltInv, pc = "done", NEW va \in 0 .. VaMax
      PROVE  Lookup(va) = Wanted(va)
  <2>1. PICK lev, tag : Here(lev, tag)
    BY <1>1 DEF BuiltInv, Built, Here
  <2>2. CASE LeafLevels(va) = {}
    <3>1. At(va) = {}
      BY <1>1, <2>1, <2>2, LeafExists
    <3>. QED  BY <2>2, <3>1 DEF Lookup, Wanted
  <2>3. CASE LeafLevels(va) # {}
    <3>1. PICK l \in LeafLevels(va) : l = CHOOSE k \in LeafLevels(va) : TRUE
      BY <2>3
    <3>2. PICK n \in Nat : \E j \in 1 .. Len(mmap) :
                /\ va \in Span(l, n) /\ At(va) # {} /\ Inner(va) = j
                /\ Maker(j, EntryFor(TableAt(va)[l], l, va), l, n)
      BY <1>1, <2>1, LeafFound
    <3>3. PICK j \in 1 .. Len(mmap) :
                /\ va \in Span(l, n) /\ At(va) # {} /\ Inner(va) = j
                /\ Maker(j, EntryFor(TableAt(va)[l], l, va), l, n)
      BY <3>2
    <3>4. PICK d : d = EntryFor(TableAt(va)[l], l, va)
      OBVIOUS
    <3>5. PICK r : r = mmap[j]
      OBVIOUS
    <3>6. l \in 0 .. 3 /\ ListInv
      BY <1>1, <2>1, LeafFound DEF BuiltInv, Inv
    <3>7. /\ (d.pa - (d.pa % BlockSize(l))) + (va % BlockSize(l)) = r.pa + va - r.va
          /\ d.mem = r.attr.mem /\ d.ns = r.attr.ns /\ d.write = r.attr.rw
          /\ d.user = (Regime = "EL1&0" /\ r.attr.user)
          /\ (~d.xn) = (r.attr.mem # "device" /\ ~r.attr.rw /\ ~r.attr.xn)
      BY <3>3, <3>4, <3>5, <3>6, LeafMeans
    <3>8. Lookup(va) = [pa |-> (d.pa - (d.pa % BlockSize(l))) + (va % BlockSize(l)),
                        mem |-> d.mem, ns |-> d.ns, user |-> d.user,
                        write |-> d.write, exec |-> ~d.xn]
      BY <2>3, <3>1, <3>4, Zenon DEF Lookup
    <3>9. Wanted(va) = [pa |-> r.pa + va - r.va,
                        mem |-> r.attr.mem, ns |-> r.attr.ns,
                        user |-> Regime = "EL1&0" /\ r.attr.user,
                        write |-> r.attr.rw,
                        exec |-> r.attr.mem # "device" /\ ~r.attr.rw /\ ~r.attr.xn]
      BY <3>3, <3>5, Zenon DEF Wanted
    <3>. QED  BY <3>7, <3>8, <3>9, Zenon
  <2>. QED  BY <2>2, <2>3
<1>2. BuiltInv => MapsTheList
  BY <1>1 DEF MapsTheList
<1>. QED  BY <1>2, TablesBuilt, PTL
=============================================================================
