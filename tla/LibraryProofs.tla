----------------------------- MODULE LibraryProofs -----------------------------
(***************************************************************************)
(* The parts that MCLibrary runs side by side: the image loader leaves     *)
(* nothing open but the image it still reads on; the enumeration of power  *)
(* states meets every combination once; the loops of libc's memory and     *)
(* string functions do what the C standard asks of them; the power domain  *)
(* array is the tree that a platform describes, and its queries say so.    *)
(***************************************************************************)
EXTENDS ImageLoader, PowerStates, LibcMemory, PowerDomains, FiniteSetTheorems, FunctionTheorems,
        SequenceTheorems, WellFoundedInduction, DivisionFacts, TLAPS

-----------------------------------------------------------------------------
(* Induction, for sets of numbers, and the functions defined by it.        *)

\* The least-number principle, for a set.
LEMMA Least ==
  ASSUME NEW S \in SUBSET Nat, S # {}
  PROVE  \E x \in S : \A y \in S : x <= y
<1>1. S \subseteq Nat
  OBVIOUS
<1>2. \E x \in S : \A y \in S : ~(<<y, x>> \in OpToRel(<, Nat))
  BY <1>1, NatLessThanWellFounded, WFMin
<1>3. PICK x \in S : \A y \in S : ~(<<y, x>> \in OpToRel(<, Nat))
  BY <1>2
<1>4. ASSUME NEW y \in S PROVE x <= y
  <2>1. ~(<<y, x>> \in OpToRel(<, Nat))
    BY <1>3
  <2>2. x \in Nat /\ y \in Nat
    BY <1>1
  <2>3. ~(y < x)
    BY <2>1, <2>2 DEF OpToRel
  <2>. QED  BY <2>2, <2>3
<1>. QED  BY <1>4

\* A nonempty set of numbers with a bound has a greatest one.
LEMMA Greatest ==
  ASSUME NEW n \in Nat, NEW S \in SUBSET (0 .. n), S # {}
  PROVE  \E x \in S : \A y \in S : y <= x
<1>. DEFINE D == {k \in 0 .. n : n - k \in S}
<1>1. D \in SUBSET Nat /\ D # {}
  <2>1. PICK x \in S : TRUE
    OBVIOUS
  <2>2. n - x \in 0 .. n /\ n - (n - x) = x
    BY <2>1
  <2>3. n - x \in D
    BY <2>1, <2>2
  <2>4. D \subseteq Nat
    OBVIOUS
  <2>. QED  BY <2>3, <2>4
<1>2. PICK k \in D : \A j \in D : k <= j
  BY <1>1, Least
<1>3. n - k \in S
  OBVIOUS
<1>4. ASSUME NEW y \in S PROVE y <= n - k
  <2>1. n - y \in 0 .. n /\ n - (n - y) = y
    OBVIOUS
  <2>2. n - y \in D
    BY <2>1
  <2>. QED  BY <1>2, <2>1, <2>2
<1>. QED  BY <1>3, <1>4

\* Induction up to n, for a set.
LEMMA Upward ==
  ASSUME NEW n \in Nat, NEW S, 0 \in S, \A k \in 1 .. n : k - 1 \in S => k \in S
  PROVE  \A k \in 0 .. n : k \in S
<1>. DEFINE bad == {k \in 0 .. n : k \notin S}
<1>1. CASE bad = {}
  BY <1>1
<1>2. CASE bad # {}
  <2>0. bad \in SUBSET Nat
    OBVIOUS
  <2>1. PICK b \in bad : \A y \in bad : b <= y
    <3>. HIDE DEF bad
    <3>. QED  BY <1>2, <2>0, Least
  <2>2. b \in 1 .. n /\ b \notin S
    BY <2>1
  <2>3. b - 1 \in 0 .. n /\ b - 1 \notin bad
    BY <2>1, <2>2
  <2>4. b - 1 \in S
    BY <2>3
  <2>. QED  BY <2>2, <2>4
<1>. QED  BY <1>1, <1>2

\* t begins with x0 and goes on with the steps.
Iteration(t, x0, step) == t[0] = x0 /\ \A k \in Nat \ {0} : t[k] = step[k][t[k - 1]]

\* There is a recursive function whose value at k is made from that at k - 1.
LEMMA Iterates ==
  ASSUME NEW X, NEW x0 \in X, NEW step \in [Nat -> [X -> X]]
  PROVE  \E t \in [Nat -> X] : Iteration(t, x0, step)
<1>. DEFINE Upto(n, t) == t \in [0 .. n -> X] /\ t[0] = x0 /\ \A k \in 1 .. n : t[k] = step[k][t[k - 1]]
            S == {n \in Nat : \E t : Upto(n, t)}
<1>1. ASSUME NEW n \in Nat PROVE n \in S
  <2>1. 0 \in S
    <3>1. Upto(0, [k \in 0 .. 0 |-> x0])
      OBVIOUS
    <3>. QED  BY <3>1
  <2>2. ASSUME NEW k \in 1 .. n, k - 1 \in S PROVE k \in S
    <3>1. PICK t : Upto(k - 1, t)
      BY <2>2
    <3>. DEFINE u == [j \in 0 .. k |-> IF j = k THEN step[k][t[k - 1]] ELSE t[j]]
    <3>2. t[k - 1] \in X /\ step[k] \in [X -> X]
      BY <3>1
    <3>3. u \in [0 .. k -> X] /\ u[0] = x0
      BY <3>1, <3>2
    <3>4. ASSUME NEW j \in 1 .. k PROVE u[j] = step[j][u[j - 1]]
      <4>1. u[j - 1] = t[j - 1]
        OBVIOUS
      <4>2. CASE j = k
        BY <4>1, <4>2
      <4>3. CASE j # k
        BY <3>1, <4>1, <4>3
      <4>. QED  BY <4>2, <4>3
    <3>5. Upto(k, u)
      <4>. HIDE DEF u
      <4>. QED  BY <3>3, <3>4
    <3>. HIDE DEF Upto, u
    <3>6. k \in Nat /\ \E v : Upto(k, v)
      BY <3>5
    <3>. QED  BY <3>6
  <2>. HIDE DEF S
  <2>3. \A k \in 0 .. n : k \in S
    BY <2>1, <2>2, Upward
  <2>. QED  BY <2>3
<1>. DEFINE G == [n \in Nat |-> CHOOSE t : Upto(n, t)]
            f == [n \in Nat |-> G[n][n]]
<1>2. ASSUME NEW n \in Nat PROVE Upto(n, G[n])
  <2>1. \E t : Upto(n, t)
    BY <1>1
  <2>. HIDE DEF Upto
  <2>. QED  BY <2>1
<1>3. ASSUME NEW n \in Nat PROVE f[n] \in X
  <2>1. G[n] \in [0 .. n -> X] /\ n \in 0 .. n
    BY <1>2
  <2>2. f[n] = G[n][n]
    OBVIOUS
  <2>. HIDE DEF f, G
  <2>. QED  BY <2>1, <2>2
<1>4. f[0] = x0
  BY <1>2
<1>5. ASSUME NEW n \in Nat, n # 0 PROVE f[n] = step[n][f[n - 1]]
  <2>. DEFINE T == {k \in Nat : k <= n - 1 => G[n - 1][k] = G[n][k]}
  <2>1. n - 1 \in Nat
    BY <1>5
  <2>2. Upto(n - 1, G[n - 1]) /\ Upto(n, G[n])
    BY <1>2, <2>1
  <2>. HIDE DEF G
  <2>3. 0 \in T
    BY <2>2, <2>1
  <2>4. ASSUME NEW k \in 1 .. n - 1, k - 1 \in T PROVE k \in T
    <3>1. G[n - 1][k - 1] = G[n][k - 1]
      BY <2>4
    <3>2. G[n - 1][k] = step[k][G[n - 1][k - 1]] /\ G[n][k] = step[k][G[n][k - 1]]
      BY <2>2
    <3>. QED  BY <3>1, <3>2
  <2>. HIDE DEF T
  <2>5. \A k \in 0 .. n - 1 : k \in T
    BY <2>1, <2>3, <2>4, Upward
  <2>6. G[n - 1][n - 1] = G[n][n - 1]
    BY <2>1, <2>5 DEF T
  <2>7. G[n][n] = step[n][G[n][n - 1]]
    BY <2>2, <1>5
  <2>. QED  BY <2>1, <2>6, <2>7
<1>. HIDE DEF f
<1>6. f \in [Nat -> X]
  BY <1>3 DEF f
<1>. QED  BY <1>4, <1>5, <1>6 DEF Iteration

-----------------------------------------------------------------------------
(* The image loader: at most one entity is in use between calls.           *)

Devices == {Device(i) : i \in Image}

IoState == [map : [Handle -> Image \cup {NoImage}], count : Nat, ready : SUBSET Devices]

\* At most one entity is in use, as between calls, and it is counted.
Sparse(s) ==
  \/ InUse(s) = {} /\ s.count = 0
  \/ s.count = 1 /\ \E h \in Handle : InUse(s) = {h}

\* The inductive invariant.  That at most one entity is in use is what gives io_open
\* a first free one without a search.
LoaderInv ==
  /\ io \in IoState
  /\ partial.handle \in Handle \cup {NoHandle}
  /\ IF partial.handle = NoHandle THEN InUse(io) = {} /\ io.count = 0
     ELSE InUse(io) = {partial.handle} /\ io.count = 1
  /\ loaded.dev # "none" =>
       (loaded.dev \in io.ready => loaded.fn = "load_partial_image" /\ partial.handle # NoHandle)

-----------------------------------------------------------------------------
(* The storage layer.                                                        *)

\* A pool that is not full has a first free entity.
LEMMA FreshHandle ==
  ASSUME NEW s \in IoState, Sparse(s), s.count # MaxImages
  PROVE  FirstFreeHandle(s) \in Handle \ InUse(s)
<1>1. MaxImages \in Nat \ {0} /\ Handle = 0 .. MaxImages - 1
  BY LoaderAssumption DEF Handle
<1>2. \E h \in Handle : s.map[h] = NoImage /\ \A g \in Handle : s.map[g] = NoImage => h <= g
  <2>1. CASE InUse(s) = {}
    <3>1. 0 \in Handle /\ \A g \in Handle : 0 <= g
      BY <1>1
    <3>2. s.map[0] = NoImage
      BY <2>1, <3>1 DEF InUse
    <3>. QED  BY <3>1, <3>2
  <2>2. CASE s.count = 1 /\ \E h \in Handle : InUse(s) = {h}
    <3>1. PICK h \in Handle : InUse(s) = {h}
      BY <2>2
    <3>2. \A g \in Handle : s.map[g] = NoImage <=> g # h
      BY <3>1 DEF InUse
    <3>3. 0 \in Handle /\ 1 \in Handle
      BY <1>1, <2>2
    <3>4. CASE h = 0
      <4>1. s.map[1] = NoImage
        BY <3>2, <3>3, <3>4
      <4>2. \A g \in Handle : s.map[g] = NoImage => 1 <= g
        BY <1>1, <3>2, <3>4
      <4>. QED  BY <3>3, <4>1, <4>2
    <3>5. CASE h # 0
      BY <1>1, <3>2, <3>3, <3>5
    <3>. QED  BY <3>4, <3>5
  <2>. QED  BY <2>1, <2>2 DEF Sparse
<1>3. FirstFreeHandle(s) \in Handle /\ s.map[FirstFreeHandle(s)] = NoImage
  BY <1>2 DEF FirstFreeHandle
<1>. QED  BY <1>3 DEF InUse

\* free_entity takes one entity out of the pool and of its count.
LEMMA FreedFacts ==
  ASSUME NEW s \in IoState, NEW h \in InUse(s), s.count > 0
  PROVE  /\ Freed(s, h) \in IoState
         /\ InUse(Freed(s, h)) = InUse(s) \ {h}
         /\ Freed(s, h).count = s.count - 1
         /\ Freed(s, h).ready = s.ready
<1>1. h \in Handle /\ s.map \in [Handle -> Image \cup {NoImage}] /\ s.count \in Nat
  BY DEF InUse, IoState
<1>2. Freed(s, h) = [map |-> [s.map EXCEPT ![h] = NoImage], count |-> s.count - 1, ready |-> s.ready]
  BY DEF Freed
<1>3. Freed(s, h) \in IoState
  BY <1>1, <1>2 DEF IoState
<1>4. InUse(Freed(s, h)) = InUse(s) \ {h}
  BY <1>1, <1>2 DEF InUse
<1>. QED  BY <1>2, <1>3, <1>4

\* allocate_entity puts one into both.
LEMMA AllocatedFacts ==
  ASSUME NEW s \in IoState, NEW i \in Image, Sparse(s), s.count # MaxImages
  PROVE  /\ Allocated(s, i) \in IoState
         /\ FirstFreeHandle(s) \in Handle \ InUse(s)
         /\ InUse(Allocated(s, i)) = InUse(s) \cup {FirstFreeHandle(s)}
         /\ Allocated(s, i).count = s.count + 1
<1>. DEFINE h == FirstFreeHandle(s)
<1>1. h \in Handle \ InUse(s)
  BY FreshHandle
<1>. HIDE DEF h
<1>2. /\ Allocated(s, i) = [map |-> [s.map EXCEPT ![h] = i], count |-> s.count + 1, ready |-> s.ready]
      /\ s.map \in [Handle -> Image \cup {NoImage}] /\ s.count \in Nat
  BY DEF Allocated, IoState, h
<1>3. Allocated(s, i) \in IoState
  BY <1>1, <1>2 DEF IoState
<1>4. InUse(Allocated(s, i)) = InUse(s) \cup {h}
  BY <1>1, <1>2, LoaderAssumption DEF InUse
<1>. QED  BY <1>1, <1>2, <1>3, <1>4 DEF h

\* What a call that may give a handle leaves: as many entities in use as before, or
\* one more, which is that of the handle.
OneMore(s, o) ==
  /\ o.io \in IoState
  /\ \/ o.handle = NoHandle /\ InUse(o.io) = InUse(s) /\ o.io.count = s.count
     \/ /\ o.handle \in Handle \ InUse(s)
        /\ InUse(o.io) = InUse(s) \cup {o.handle} /\ o.io.count = s.count + 1

\* io_open
LEMMA OpenFacts ==
  ASSUME NEW s \in IoState, NEW i \in Image, Sparse(s), NEW o \in OpenOutcomes(s, i)
  PROVE  OneMore(s, o)
<1>1. CASE s.count = MaxImages
  BY <1>1 DEF OpenOutcomes, OneMore
<1>2. CASE s.count # MaxImages
  <2>. DEFINE a == Allocated(s, i)
              h == FirstFreeHandle(s)
  <2>1. /\ a \in IoState /\ h \in Handle \ InUse(s)
        /\ InUse(a) = InUse(s) \cup {h} /\ a.count = s.count + 1
    BY <1>2, AllocatedFacts
  <2>2. o \in {[io |-> a, handle |-> h], [io |-> Freed(a, h), handle |-> NoHandle]}
    BY <1>2 DEF OpenOutcomes
  <2>. HIDE DEF a, h
  <2>3. s.count \in Nat
    BY DEF IoState
  <2>4. h \in InUse(a) /\ a.count > 0
    BY <2>1, <2>3
  <2>5. /\ Freed(a, h) \in IoState /\ InUse(Freed(a, h)) = InUse(a) \ {h}
        /\ Freed(a, h).count = a.count - 1
    BY <2>1, <2>4, FreedFacts
  <2>6. InUse(Freed(a, h)) = InUse(s) /\ Freed(a, h).count = s.count
    BY <2>1, <2>3, <2>5
  <2>. QED  BY <2>1, <2>2, <2>5, <2>6 DEF OneMore
<1>. QED  BY <1>1, <1>2

\* The check of the policy leaves the entities as they are.
LEMMA CheckFacts ==
  ASSUME NEW s \in IoState, NEW i \in Image, Sparse(s), NEW c \in CheckOutcomes(s, i)
  PROVE  c.io \in IoState /\ InUse(c.io) = InUse(s) /\ c.io.count = s.count
<1>. DEFINE init == [s EXCEPT !.ready = @ \cup {Device(i)}]
<1>1. init \in IoState /\ init.map = s.map /\ InUse(init) = InUse(s) /\ init.count = s.count
  <2>1. init.map = s.map /\ init.count = s.count /\ init.ready = s.ready \cup {Device(i)}
    BY DEF IoState
  <2>2. Device(i) \in Devices
    BY DEF Devices
  <2>3. init \in IoState
    BY <2>2 DEF IoState
  <2>. QED  BY <2>1, <2>3 DEF InUse
<1>2. Sparse(init)
  BY <1>1 DEF Sparse
<1>3. \/ c = [io |-> s, ret |-> "IO_FAIL"]
      \/ \E o \in OpenOutcomes(init, i) :
           c = IF o.handle = NoHandle THEN [io |-> o.io, ret |-> "IO_FAIL"]
               ELSE [io |-> Freed(o.io, o.handle), ret |-> "IO_SUCCESS"]
  BY DEF CheckOutcomes
<1>. HIDE DEF init
<1>4. CASE c = [io |-> s, ret |-> "IO_FAIL"]
  BY <1>4
<1>5. ASSUME NEW o \in OpenOutcomes(init, i),
             c = IF o.handle = NoHandle THEN [io |-> o.io, ret |-> "IO_FAIL"]
                 ELSE [io |-> Freed(o.io, o.handle), ret |-> "IO_SUCCESS"]
      PROVE  c.io \in IoState /\ InUse(c.io) = InUse(s) /\ c.io.count = s.count
  <2>1. OneMore(init, o)
    BY <1>1, <1>2, OpenFacts
  <2>2. CASE o.handle = NoHandle
    <3>1. NoHandle \notin Handle
      BY LoaderAssumption DEF NoHandle, Handle
    <3>. QED  BY <1>1, <1>5, <2>1, <2>2, <3>1 DEF OneMore
  <2>3. CASE o.handle # NoHandle
    <3>1. /\ o.io \in IoState /\ o.handle \in InUse(o.io) /\ o.handle \notin InUse(s)
          /\ InUse(o.io) = InUse(s) \cup {o.handle}
          /\ o.io.count = s.count + 1 /\ s.count \in Nat
      BY <1>1, <2>1, <2>3 DEF OneMore, IoState
    <3>2. /\ Freed(o.io, o.handle) \in IoState
          /\ InUse(Freed(o.io, o.handle)) = InUse(o.io) \ {o.handle}
          /\ Freed(o.io, o.handle).count = o.io.count - 1
      BY <3>1, FreedFacts
    <3>3. c.io = Freed(o.io, o.handle)
      BY <1>5, <2>3
    <3>. QED  BY <3>1, <3>2, <3>3
  <2>. QED  BY <2>2, <2>3
<1>. QED  BY <1>3, <1>4, <1>5

\* plat_get_image_source and io_open
LEMMA AccessFacts ==
  ASSUME NEW s \in IoState, NEW i \in Image, Sparse(s), NEW a \in AccessOutcomes(s, i)
  PROVE  OneMore(s, a)
<1>1. PICK c \in CheckOutcomes(s, i) :
        a \in IF c.ret = "IO_FAIL" THEN {[io |-> c.io, handle |-> NoHandle]} ELSE OpenOutcomes(c.io, i)
  BY DEF AccessOutcomes
<1>2. c.io \in IoState /\ InUse(c.io) = InUse(s) /\ c.io.count = s.count
  BY CheckFacts
<1>3. CASE a = [io |-> c.io, handle |-> NoHandle]
  BY <1>2, <1>3 DEF OneMore
<1>4. CASE a \in OpenOutcomes(c.io, i)
  <2>1. Sparse(c.io)
    BY <1>2 DEF Sparse
  <2>2. OneMore(c.io, a)
    BY <1>2, <1>4, <2>1, OpenFacts
  <2>. QED  BY <1>2, <2>2 DEF OneMore
<1>. QED  BY <1>1, <1>3, <1>4

\* io_close and io_dev_close
LEMMA ClosedFacts ==
  ASSUME NEW s \in IoState, NEW h \in InUse(s), s.count > 0, NEW dev
  PROVE  /\ Closed(s, h, dev) \in IoState
         /\ InUse(Closed(s, h, dev)) = InUse(s) \ {h}
         /\ Closed(s, h, dev).count = s.count - 1
         /\ dev \notin Closed(s, h, dev).ready
<1>. DEFINE f == Freed(s, h)
<1>1. f \in IoState /\ InUse(f) = InUse(s) \ {h} /\ f.count = s.count - 1
  BY FreedFacts
<1>2. Closed(s, h, dev) = [f EXCEPT !.ready = @ \ {dev}]
  BY DEF Closed
<1>. HIDE DEF f
<1>3. /\ Closed(s, h, dev).map = f.map /\ Closed(s, h, dev).count = f.count
      /\ Closed(s, h, dev).ready = f.ready \ {dev}
      /\ Closed(s, h, dev) \in IoState
  BY <1>1, <1>2 DEF IoState
<1>. QED  BY <1>1, <1>3 DEF InUse

-----------------------------------------------------------------------------
(* The steps.                                                                *)

\* The invariant leaves no two devices open at once.
LEMMA InvSparse == ASSUME LoaderInv PROVE Sparse(io)
  BY DEF LoaderInv, Sparse

\* An image opened and closed in one call, as all but the load in parts do.
LEMMA OpenedAndClosed ==
  ASSUME LoaderInv, NEW i \in Image, NEW a \in AccessOutcomes(io, i),
         UNCHANGED partial,
         IF a.handle = NoHandle THEN io' = a.io /\ loaded'.dev = "none"
         ELSE io' = Closed(a.io, a.handle, Device(i)) /\ loaded'.dev = Device(i)
  PROVE  LoaderInv'
<1>1. OneMore(io, a)
  BY InvSparse, AccessFacts DEF LoaderInv
<1>2. NoHandle \notin Handle
  BY LoaderAssumption DEF NoHandle, Handle
<1>3. io' \in IoState /\ InUse(io') = InUse(io) /\ io'.count = io.count
  <2>1. CASE a.handle = NoHandle
    BY <1>1, <1>2, <2>1 DEF OneMore
  <2>2. CASE a.handle # NoHandle
    <3>1. /\ a.io \in IoState /\ a.handle \in InUse(a.io) /\ a.handle \notin InUse(io)
          /\ InUse(a.io) = InUse(io) \cup {a.handle}
          /\ a.io.count = io.count + 1 /\ io.count \in Nat
      BY <1>1, <2>2 DEF OneMore, LoaderInv, IoState
    <3>2. /\ io' \in IoState /\ InUse(io') = InUse(a.io) \ {a.handle} /\ io'.count = a.io.count - 1
      BY <2>2, <3>1, ClosedFacts
    <3>. QED  BY <3>1, <3>2
  <2>. QED  BY <2>1, <2>2
<1>4. loaded'.dev # "none" => loaded'.dev \notin io'.ready
  <2>1. CASE a.handle = NoHandle
    BY <2>1
  <2>2. CASE a.handle # NoHandle
    <3>1. a.io \in IoState /\ a.handle \in InUse(a.io) /\ a.io.count > 0
      BY <1>1, <2>2 DEF OneMore, LoaderInv, IoState
    <3>. QED  BY <2>2, <3>1, ClosedFacts
  <2>. QED  BY <2>1, <2>2
<1>. QED  BY <1>3, <1>4 DEF LoaderInv

\* get_image_size and its like open and close the image: the invariant stays.
LEMMA GetImageStep == ASSUME LoaderInv, NEW i \in Image, GetImage(i) PROVE LoaderInv'
<1>1. PICK a \in AccessOutcomes(io, i) :
        IF a.handle = NoHandle THEN io' = a.io /\ Returned("get_image", "none", "IO_FAIL")
        ELSE io' = Closed(a.io, a.handle, Device(i)) /\ Returned("get_image", Device(i), "IO_SUCCESS")
  BY DEF GetImage
<1>2. IF a.handle = NoHandle THEN io' = a.io /\ loaded'.dev = "none"
      ELSE io' = Closed(a.io, a.handle, Device(i)) /\ loaded'.dev = Device(i)
  BY <1>1 DEF Returned
<1>3. UNCHANGED partial
  BY DEF GetImage
<1>. QED  BY <1>2, <1>3, OpenedAndClosed

\* load_image closes what it has opened, whatever the reads return.
LEMMA LoadImageStep == ASSUME LoaderInv, NEW i \in Image, LoadImage(i) PROVE LoaderInv'
<1>1. PICK a \in AccessOutcomes(io, i), size \in SizeOutcomes, read \in ReadOutcomes :
        IF a.handle = NoHandle THEN io' = a.io /\ Returned("load_image", "none", "IO_FAIL")
        ELSE /\ io' = Closed(a.io, a.handle, Device(i))
             /\ Returned("load_image", Device(i), IF size = "some" THEN ResultOf(read) ELSE ResultOf(size))
  BY DEF LoadImage
<1>2. IF a.handle = NoHandle THEN io' = a.io /\ loaded'.dev = "none"
      ELSE io' = Closed(a.io, a.handle, Device(i)) /\ loaded'.dev = Device(i)
  BY <1>1 DEF Returned
<1>3. UNCHANGED partial
  BY DEF LoadImage
<1>. QED  BY <1>2, <1>3, OpenedAndClosed

\* What load_partial_image works with: the image left open, or one it opens; then it
\* is the only one, as no other is left open.
LEMMA LoadPartialStep ==
  ASSUME LoaderInv, NEW i \in Image, NEW is_last_block \in BOOLEAN,
         LoadPartialImage(i, is_last_block)
  PROVE  LoaderInv'
<1>. DEFINE dev == IF partial.handle = NoHandle THEN Device(i) ELSE partial.dev
<1>1. NoHandle \notin Handle
  BY LoaderAssumption DEF NoHandle, Handle
<1>2. PICK a \in (IF partial.handle = NoHandle THEN AccessOutcomes(io, i)
                  ELSE {[io |-> io, handle |-> partial.handle]}) :
        IF a.handle = NoHandle
        THEN io' = a.io /\ Returned("load_partial_image", "none", "IO_FAIL") /\ UNCHANGED partial
        ELSE \E read \in ReadOutcomes :
               /\ IF read # "whole" \/ ~is_last_block
                  THEN /\ io' = Closed(a.io, a.handle, dev)
                       /\ partial' = [handle |-> NoHandle, dev |-> dev]
                  ELSE io' = a.io /\ partial' = [handle |-> a.handle, dev |-> dev]
               /\ Returned("load_partial_image", dev, ResultOf(read))
  BY DEF LoadPartialImage
<1>. HIDE DEF dev
<1>3. /\ a.io \in IoState
      /\ \/ a.handle = NoHandle /\ partial.handle = NoHandle /\ InUse(a.io) = {} /\ a.io.count = 0
         \/ a.handle \in Handle /\ InUse(a.io) = {a.handle} /\ a.io.count = 1
  <2>1. CASE partial.handle = NoHandle
    <3>1. InUse(io) = {} /\ io.count = 0 /\ OneMore(io, a)
      BY <1>2, <2>1, InvSparse, AccessFacts DEF LoaderInv
    <3>. QED  BY <2>1, <3>1 DEF OneMore
  <2>2. CASE partial.handle # NoHandle
    <3>1. a = [io |-> io, handle |-> partial.handle]
      BY <1>2, <2>2
    <3>. QED  BY <2>2, <3>1 DEF LoaderInv
  <2>. QED  BY <2>1, <2>2
<1>4. CASE a.handle = NoHandle
  <2>1. io' = a.io /\ partial' = partial /\ loaded'.dev = "none"
    BY <1>2, <1>4 DEF Returned
  <2>. QED  BY <1>1, <1>3, <1>4, <2>1 DEF LoaderInv
<1>5. CASE a.handle # NoHandle
  <2>1. /\ loaded'.fn = "load_partial_image" /\ loaded'.dev = dev
        /\ \/ io' = Closed(a.io, a.handle, dev) /\ partial'.handle = NoHandle
           \/ io' = a.io /\ partial'.handle = a.handle
    BY <1>2, <1>5 DEF Returned
  <2>2. a.handle \in Handle /\ InUse(a.io) = {a.handle} /\ a.io.count = 1
    BY <1>3, <1>5
  <2>3. CASE io' = a.io /\ partial'.handle = a.handle
    BY <1>3, <1>5, <2>1, <2>2, <2>3 DEF LoaderInv
  <2>4. CASE io' = Closed(a.io, a.handle, dev) /\ partial'.handle = NoHandle
    <3>1. /\ io' \in IoState /\ InUse(io') = InUse(a.io) \ {a.handle}
          /\ io'.count = a.io.count - 1 /\ dev \notin io'.ready
      BY <1>3, <2>2, <2>4, ClosedFacts
    <3>. QED  BY <2>1, <2>2, <2>4, <3>1 DEF LoaderInv
  <2>. QED  BY <2>1, <2>3, <2>4
<1>. QED  BY <1>4, <1>5

\* Nothing is open when the loader starts.
LEMMA LoaderStart == LoaderInit => LoaderInv
  BY DEF LoaderInit, LoaderInv, IoState, InUse, NoHandle

\* Every call of the loader keeps the invariant.
LEMMA LoaderStep == LoaderInv /\ [LoaderNext]_loaderVars => LoaderInv'
<1>. SUFFICES ASSUME LoaderInv, [LoaderNext]_loaderVars PROVE LoaderInv'
  OBVIOUS
<1>1. CASE UNCHANGED loaderVars
  BY <1>1 DEF loaderVars, LoaderInv, InUse
<1>2. ASSUME NEW i \in Image, GetImage(i) PROVE LoaderInv'
  BY <1>2, GetImageStep
<1>3. ASSUME NEW i \in Image, LoadImage(i) PROVE LoaderInv'
  BY <1>3, LoadImageStep
<1>4. ASSUME NEW i \in Image, NEW is_last_block \in BOOLEAN, LoadPartialImage(i, is_last_block)
      PROVE  LoaderInv'
  BY <1>4, LoadPartialStep
<1>. QED  BY <1>1, <1>2, <1>3, <1>4 DEF LoaderNext

\* What the invariant says of the open image is that handles are returned.
LEMMA InvReturned == LoaderInv => HandlesReturned
<1>. SUFFICES ASSUME LoaderInv PROVE HandlesReturned
  OBVIOUS
<1>1. Cardinality({}) = 0 /\ Cardinality({partial.handle}) = 1
  BY FS_EmptySet, FS_Singleton
<1>2. NoHandle \notin Handle
  BY LoaderAssumption DEF NoHandle, Handle
<1>. QED  BY <1>1, <1>2 DEF LoaderInv, HandlesReturned

\* However calls fail, between calls nothing is left open in the pool but the image
\* of a load in parts, and its device is the only one a call leaves open.
THEOREM HandlesAlwaysReturned == LoaderSpec => []HandlesReturned
<1>. QED  BY LoaderStart, LoaderStep, InvReturned, PTL DEF LoaderSpec

-----------------------------------------------------------------------------
(* Power states: the index is the number of the combination requested.     *)

\* The ids of the levels are the digits of a composite id.
LEMMA UnitFacts ==
  ASSUME Width \in Nat \ {0}
  PROVE  /\ Unit \in [Nat -> Nat \ {0}] /\ Unit[0] = 1
         /\ \A l \in Nat \ {0} : Unit[l] = Width * Unit[l - 1]
<1>. DEFINE X == Nat \ {0}
            step == [k \in Nat |-> [x \in X |-> Width * x]]
            Is(t) == t = [l \in Nat |-> IF l = 0 THEN 1 ELSE Width * t[l - 1]]
<1>1. step \in [Nat -> [X -> X]]
  <2>1. \A x \in X : Width * x \in X
    OBVIOUS
  <2>. QED  BY <2>1
<1>2. PICK t \in [Nat -> X] : Iteration(t, 1, step)
  <2>. HIDE DEF step, X
  <2>1. 1 \in X
    BY DEF X
  <2>. QED  BY <1>1, <2>1, Iterates
<1>3. ASSUME NEW k \in Nat, k # 0 PROVE step[k][t[k - 1]] = Width * t[k - 1]
  <2>1. t[k - 1] \in X
    BY <1>2, <1>3
  <2>. QED  BY <2>1
<1>4. Is(t)
  <2>. HIDE DEF step
  <2>1. t = [k \in Nat |-> t[k]]
    BY <1>2
  <2>. QED  BY <1>2, <1>3, <2>1 DEF Iteration
<1>5. Unit = CHOOSE u : Is(u)
  BY DEF Unit
<1>6. Is(Unit)
  <2>. HIDE DEF Is
  <2>. QED  BY <1>4, <1>5
<1>7. Unit[0] = 1 /\ \A l \in Nat \ {0} : Unit[l] = Width * Unit[l - 1]
  BY <1>6
<1>8. \A n \in Nat : Unit[n] \in X
  <2>. DEFINE S == {l \in Nat : Unit[l] \in X}
  <2>1. 0 \in S
    BY <1>7
  <2>2. \A n \in Nat : \A k \in 1 .. n : k - 1 \in S => k \in S
    <3>. SUFFICES ASSUME NEW n \in Nat, NEW k \in 1 .. n, k - 1 \in S PROVE k \in S
      OBVIOUS
    <3>1. Unit[k] = Width * Unit[k - 1] /\ Unit[k - 1] \in X
      BY <1>7
    <3>2. Width * Unit[k - 1] \in X
      BY <3>1
    <3>. QED  BY <3>1, <3>2
  <2>3. ASSUME NEW n \in Nat PROVE n \in S
    <3>. HIDE DEF S
    <3>. QED  BY <2>1, <2>2, Upward
  <2>. QED  BY <2>3
<1>9. Unit = [l \in Nat |-> Unit[l]]
  BY <1>6
<1>. QED  BY <1>7, <1>8, <1>9

\* The place of a higher level is a multiple of that of a lower one and its digits.
LEMMA UnitDivides ==
  ASSUME Width \in Nat \ {0}, NEW k \in Nat, NEW l \in Nat, k < l
  PROVE  \E q \in Nat : Unit[l] = Unit[k] * Width * q
<1>. DEFINE S == {j \in Nat : \E q \in Nat : Unit[k + 1 + j] = Unit[k] * Width * q}
<1>1. 0 \in S
  <2>1. Unit[k + 1] = Width * Unit[k] /\ Unit[k] \in Nat
    BY UnitFacts
  <2>2. Unit[k + 1 + 0] = Unit[k] * Width * 1
    BY <2>1
  <2>. QED  BY <2>2
<1>2. ASSUME NEW n \in Nat, NEW j \in 1 .. n, j - 1 \in S PROVE j \in S
  <2>1. PICK q \in Nat : Unit[k + 1 + (j - 1)] = Unit[k] * Width * q
    BY <1>2
  <2>2. k + 1 + (j - 1) = (k + 1 + j) - 1 /\ k + 1 + j \in Nat \ {0}
    OBVIOUS
  <2>3. Unit[k + 1 + j] = Width * (Unit[k] * Width * q)
    BY <2>1, <2>2, UnitFacts
  <2>4. PICK u \in Nat : u = Unit[k]
    BY UnitFacts
  <2>5. Width * (u * Width * q) = u * Width * (Width * q) /\ Width * q \in Nat
    BY <2>4
  <2>. QED  BY <2>3, <2>4, <2>5
<1>3. l - k - 1 \in Nat /\ k + 1 + (l - k - 1) = l
  OBVIOUS
<1>4. l - k - 1 \in S
  <2>. HIDE DEF S
  <2>. QED  BY <1>1, <1>2, <1>3, Upward
<1>. QED  BY <1>3, <1>4

\* What is added at a higher digit does not change a lower one.
LEMMA LowerDigit ==
  ASSUME NEW w \in Nat \ {0}, NEW u \in Nat \ {0}, NEW a \in Nat, NEW d \in Nat
  PROVE  ((a + u * w * d) \div u) % w = (a \div u) % w
<1>. DEFINE q == a \div u
            r == a % u
<1>1. q \in Int /\ r \in 0 .. u - 1 /\ a = u * q + r
  BY Division
<1>. HIDE DEF q, r
<1>2. w * d \in Int /\ q + w * d \in Int
  BY <1>1
<1>3. a + u * w * d = u * (q + w * d) + r
  BY <1>1
<1>4. (u * (q + w * d) + r) \div u = q + w * d
  BY <1>1, <1>2, DivisionUnique
<1>. DEFINE p == q \div w
            e == q % w
<1>5. p \in Int /\ e \in 0 .. w - 1 /\ q = w * p + e
  BY <1>1, Division
<1>. HIDE DEF p, e
<1>6. q + w * d = w * (p + d) + e /\ p + d \in Int
  BY <1>5
<1>7. (w * (p + d) + e) % w = e
  BY <1>5, <1>6, DivisionUnique
<1>. QED  BY <1>3, <1>4, <1>6, <1>7 DEF q, e

\* A digit added above the others is the one read there, and fits in one place more.
LEMMA HighestDigit ==
  ASSUME NEW w \in Nat \ {0}, NEW u \in Nat \ {0}, NEW a \in 0 .. u - 1, NEW s \in 0 .. w - 1
  PROVE  /\ ((a + s * u) \div u) % w = s
         /\ a + s * u \in 0 .. w * u - 1
<1>1. (u * s + a) \div u = s
  BY DivisionUnique
<1>2. s % w = s
  OBVIOUS
<1>3. a + s * u = u * s + a
  OBVIOUS
<1>4. s * u <= (w - 1) * u
  OBVIOUS
<1>5. (w - 1) * u = w * u - u /\ s * u \in Nat /\ w * u \in Nat
  OBVIOUS
<1>6. a + s * u \in 0 .. w * u - 1
  BY <1>4, <1>5
<1>. QED  BY <1>1, <1>2, <1>3, <1>6

-----------------------------------------------------------------------------
(* tftf_get_pstate_vars                                                      *)

Loc(idx, l) == LocalState(l, idx[l])

\* The index names a local state at every level up to top, and none above.
Names(idx, top) ==
  /\ idx \in [Levels -> Int]
  /\ \A l \in Levels : IF l <= top THEN idx[l] \in 0 .. Len(plat_state[l + 1]) - 1 ELSE idx[l] = -1

\* What the platform's table of states has to be for the framework to use it.
LEMMA TableFacts ==
  ASSUME plat_state \in StateTables
  PROVE  /\ Len(plat_state) \in Nat \ {0}
         /\ \A l \in Levels : Len(plat_state[l + 1]) \in Nat \ {0}
         /\ \A l \in Levels : \A k \in 0 .. Len(plat_state[l + 1]) - 1 : LocalState(l, k) \in StateProp
         /\ \A l \in Levels : \A j, k \in 0 .. Len(plat_state[l + 1]) - 1 :
              LocalState(l, j).id = LocalState(l, k).id => j = k
         /\ Width \in Nat \ {0}
<1>1. plat_state \in Seq(Seq(StateProp)) /\ plat_state # <<>> /\ Width \in Nat
  BY StateAssumption
<1>2. Len(plat_state) \in Nat \ {0}
  BY <1>1
<1>3. ASSUME NEW l \in Levels
      PROVE  /\ l + 1 \in DOMAIN plat_state /\ plat_state[l + 1] \in Seq(StateProp)
             /\ Len(plat_state[l + 1]) \in Nat \ {0}
  <2>1. l + 1 \in DOMAIN plat_state
    BY <1>1, <1>2 DEF Levels
  <2>2. plat_state[l + 1] \in Seq(StateProp) /\ plat_state[l + 1] # <<>>
    BY <1>1, <2>1, StateAssumption
  <2>. QED  BY <2>1, <2>2
<1>4. ASSUME NEW l \in Levels, NEW k \in 0 .. Len(plat_state[l + 1]) - 1
      PROVE  /\ LocalState(l, k) = plat_state[l + 1][k + 1]
             /\ k + 1 \in DOMAIN plat_state[l + 1] /\ plat_state[l + 1][k + 1] \in StateProp
  <2>1. PICK t \in Seq(StateProp) : t = plat_state[l + 1]
    BY <1>3
  <2>2. k + 1 \in 1 .. Len(t) /\ k < Len(t)
    BY <1>3, <2>1
  <2>3. k + 1 \in DOMAIN t /\ t[k + 1] \in StateProp
    BY <2>2
  <2>. QED  BY <2>1, <2>2, <2>3 DEF LocalState
<1>5. ASSUME NEW l \in Levels, NEW j \in 0 .. Len(plat_state[l + 1]) - 1,
             NEW k \in 0 .. Len(plat_state[l + 1]) - 1, LocalState(l, j).id = LocalState(l, k).id
      PROVE  j = k
  <2>1. \A a, b \in DOMAIN plat_state[l + 1] : plat_state[l + 1][a].id = plat_state[l + 1][b].id => a = b
    BY <1>3, StateAssumption
  <2>2. j + 1 \in DOMAIN plat_state[l + 1] /\ k + 1 \in DOMAIN plat_state[l + 1]
    BY <1>4
  <2>3. plat_state[l + 1][j + 1].id = plat_state[l + 1][k + 1].id
    BY <1>4, <1>5
  <2>4. j + 1 = k + 1
    BY <2>1, <2>2, <2>3, Zenon
  <2>. QED  BY <2>4
<1>6. Width # 0
  <2>1. 0 \in Levels
    BY <1>2 DEF Levels
  <2>2. 0 \in 0 .. Len(plat_state[0 + 1]) - 1
    BY <1>3, <2>1
  <2>3. plat_state[0 + 1][0 + 1] \in StateProp
    BY <1>4, <2>1, <2>2
  <2>4. 1 .. Width - 1 # {}
    BY <2>3 DEF StateProp
  <2>. QED  BY <1>1, <2>4
<1>. QED  BY <1>1, <1>2, <1>3, <1>4, <1>5, <1>6

\* The loop looks for the highest level with a valid index.
LEMMA TopFacts ==
  ASSUME plat_state \in StateTables, NEW t \in Levels, NEW idx, Names(idx, t)
  PROVE  Top(idx) = t
<1>. DEFINE P(l) == /\ \A k \in 0 .. l : idx[k] # PWR_STATE_INIT_INDEX
                    /\ l + 1 \in Levels => idx[l + 1] = PWR_STATE_INIT_INDEX
<1>1. Levels \subseteq Nat /\ \A l \in Levels : 0 .. l \subseteq Levels
  BY TableFacts DEF Levels
<1>2. P(t)
  BY <1>1 DEF Names, PWR_STATE_INIT_INDEX
<1>3. ASSUME NEW l \in Levels, P(l) PROVE l = t
  <2>1. CASE l < t
    <3>1. l + 1 \in 0 .. t
      BY <1>1, <2>1
    <3>2. l + 1 \in Levels /\ idx[l + 1] # PWR_STATE_INIT_INDEX
      BY <1>1, <1>2, <3>1
    <3>. QED  BY <1>3, <3>2
  <2>2. CASE l > t
    <3>1. t + 1 \in 0 .. l
      BY <1>1, <2>2
    <3>. QED  BY <1>1, <1>2, <1>3, <3>1
  <2>. QED  BY <1>1, <2>1, <2>2
<1>4. Top(idx) = CHOOSE l \in Levels : P(l)
  BY DEF Top
<1>. HIDE DEF P
<1>. QED  BY <1>2, <1>3, <1>4

\* What the loop knows after level l.
Knows(r, idx, l) ==
  /\ r.id \in 0 .. Unit[l + 1] - 1
  /\ \A k \in 0 .. l : (r.id \div Unit[k]) % Width = Loc(idx, k).id
  /\ r.type = IF \E k \in 0 .. l : Loc(idx, k).pwrdown = 1 THEN 1 ELSE 0
  /\ r.ok \in BOOLEAN
  /\ r.ok <=> \A k \in 1 .. l : Loc(idx, k).depth <= Loc(idx, k - 1).depth
  /\ r.ok => r.depth = Loc(idx, l).depth
  /\ r.depth \in Nat

LoopState == [id : Nat, type : 0 .. 1, depth : Nat, ok : BOOLEAN]

\* One turn of the loop over the levels keeps the kinds of its variables.
LEMMA LevelAddedType ==
  ASSUME NEW b \in LoopState, NEW s \in StateProp, NEW l \in Nat, Width \in Nat \ {0}
  PROVE  LevelAdded(b, s, l) \in LoopState
<1>1. Unit[l] \in Nat
  BY UnitFacts
<1>2. s.id \in Nat /\ s.pwrdown \in 0 .. 1 /\ s.depth \in Nat
  BY StateAssumption DEF StateProp
<1>3. b.id \in Nat /\ b.type \in 0 .. 1 /\ b.depth \in Nat /\ b.ok \in BOOLEAN
  BY DEF LoopState
<1>4. b.id + s.id * Unit[l] \in Nat
  BY <1>1, <1>2, <1>3
<1>. QED  BY <1>2, <1>3, <1>4 DEF LevelAdded, LoopState

FirstOf(s) == [id |-> 0, type |-> s.pwrdown, depth |-> s.depth, ok |-> TRUE]

\* The recursive function is one: its values are those of the turns.
LEMMA PStateTurns ==
  ASSUME plat_state \in StateTables, NEW top \in Levels, NEW idx, Names(idx, top)
  PROVE  \E u : /\ PStateUpTo(idx, top) = u[top]
                /\ u[0] = LevelAdded(FirstOf(Loc(idx, 0)), Loc(idx, 0), 0)
                /\ \A l \in 1 .. top : u[l] = LevelAdded(u[l - 1], Loc(idx, l), l)
<1>1. /\ top \in Nat /\ 0 .. top \subseteq Levels /\ Width \in Nat \ {0}
      /\ \A l \in 0 .. top : Loc(idx, l) \in StateProp
  BY TableFacts DEF Levels, Names, Loc
<1>. DEFINE x0 == LevelAdded(FirstOf(Loc(idx, 0)), Loc(idx, 0), 0)
            step == [l \in Nat |-> [b \in LoopState |->
                       IF l \in 0 .. top THEN LevelAdded(b, Loc(idx, l), l) ELSE b]]
            Is(u) == u = [l \in 0 .. top |->
                       LevelAdded(IF l = 0 THEN FirstOf(Loc(idx, 0)) ELSE u[l - 1], Loc(idx, l), l)]
<1>2. x0 \in LoopState
  <2>1. FirstOf(Loc(idx, 0)) \in LoopState
    BY <1>1 DEF FirstOf, LoopState, StateProp
  <2>. QED  BY <1>1, <2>1, LevelAddedType
<1>3. step \in [Nat -> [LoopState -> LoopState]]
  <2>1. ASSUME NEW l \in Nat, NEW b \in LoopState
        PROVE  (IF l \in 0 .. top THEN LevelAdded(b, Loc(idx, l), l) ELSE b) \in LoopState
    BY <1>1, LevelAddedType
  <2>. QED  BY <2>1
<1>4. PICK t \in [Nat -> LoopState] : Iteration(t, x0, step)
  <2>. HIDE DEF x0, step
  <2>. QED  BY <1>2, <1>3, Iterates
<1>. DEFINE w == [l \in 0 .. top |-> t[l]]
<1>5. ASSUME NEW l \in 0 .. top
      PROVE  t[l] = LevelAdded(IF l = 0 THEN FirstOf(Loc(idx, 0)) ELSE w[l - 1], Loc(idx, l), l)
  <2>1. CASE l = 0
    BY <1>4, <2>1 DEF Iteration
  <2>2. CASE l # 0
    <3>1. l \in Nat \ {0} /\ l - 1 \in 0 .. top /\ l - 1 \in Nat
      BY <1>1, <2>2
    <3>2. t[l - 1] \in LoopState /\ w[l - 1] = t[l - 1]
      BY <3>1
    <3>3. t[l] = step[l][t[l - 1]]
      BY <1>4, <3>1 DEF Iteration
    <3>. QED  BY <2>2, <3>1, <3>2, <3>3
  <2>. QED  BY <2>1, <2>2
<1>6. Is(w)
  <2>. HIDE DEF step, x0
  <2>. QED  BY <1>5
<1>7. PStateUpTo(idx, top) = (CHOOSE u : Is(u))[top]
  BY DEF PStateUpTo, FirstOf, Loc
<1>. DEFINE v == CHOOSE u : Is(u)
<1>8. Is(v)
  <2>. HIDE DEF Is
  <2>. QED  BY <1>6
<1>9. PStateUpTo(idx, top) = v[top]
  BY <1>7
<1>. HIDE DEF v
<1>10. /\ v[0] = LevelAdded(FirstOf(Loc(idx, 0)), Loc(idx, 0), 0)
       /\ \A l \in 1 .. top : v[l] = LevelAdded(v[l - 1], Loc(idx, l), l)
  BY <1>1, <1>8
<1>. QED  BY <1>9, <1>10

\* Level 0 alone is known after its turn.
LEMMA KnowsFirst ==
  ASSUME Width \in Nat \ {0}, NEW idx, Loc(idx, 0) \in StateProp
  PROVE  Knows(LevelAdded(FirstOf(Loc(idx, 0)), Loc(idx, 0), 0), idx, 0)
<1>1. PICK s \in StateProp : s = Loc(idx, 0)
  OBVIOUS
<1>2. s.id \in 1 .. Width - 1 /\ s.pwrdown \in 0 .. 1 /\ s.depth \in Nat
  BY DEF StateProp
<1>3. PICK r : r = LevelAdded(FirstOf(s), s, 0)
  OBVIOUS
<1>4. Unit[0] = 1 /\ Unit[0 + 1] = Width
  <2>1. Unit[0 + 1] = Width * Unit[0]
    BY UnitFacts
  <2>. QED  BY <2>1, UnitFacts
<1>5. r.id = s.id /\ r.type = s.pwrdown /\ r.depth = s.depth /\ r.ok = TRUE
  <2>1. r.id = 0 + s.id * 1
    BY <1>3, <1>4 DEF LevelAdded, FirstOf
  <2>2. r.type = s.pwrdown /\ r.depth = s.depth
    BY <1>3 DEF LevelAdded, FirstOf
  <2>3. r.ok = (TRUE /\ s.depth <= s.depth)
    BY <1>3 DEF LevelAdded, FirstOf
  <2>4. s.depth <= s.depth
    BY <1>2
  <2>5. r.id = s.id
    BY <1>2, <2>1
  <2>6. r.ok = TRUE
    BY <2>3, <2>4, Zenon
  <2>. QED  BY <2>2, <2>5, <2>6
<1>6. (r.id \div Unit[0]) % Width = s.id
  BY <1>2, <1>4, <1>5
<1>7. 0 .. 0 = {0} /\ 1 .. 0 = {}
  OBVIOUS
<1>8. r.type = IF \E k \in 0 .. 0 : Loc(idx, k).pwrdown = 1 THEN 1 ELSE 0
  BY <1>1, <1>2, <1>5, <1>7
<1>9. Knows(r, idx, 0)
  <2>1. r.id \in 0 .. Unit[0 + 1] - 1
    BY <1>2, <1>4, <1>5
  <2>2. \A k \in 0 .. 0 : (r.id \div Unit[k]) % Width = Loc(idx, k).id
    BY <1>1, <1>6, <1>7
  <2>3. r.ok \in BOOLEAN /\ (r.ok <=> \A k \in 1 .. 0 : Loc(idx, k).depth <= Loc(idx, k - 1).depth)
    BY <1>5, <1>7, Zenon
  <2>4. r.depth \in Nat /\ r.depth = Loc(idx, 0).depth
    BY <1>1, <1>2, <1>5
  <2>. QED  BY <1>8, <2>1, <2>2, <2>3, <2>4 DEF Knows
<1>. QED  BY <1>1, <1>3, <1>9

\* A turn of the loop.
LEMMA KnowsNext ==
  ASSUME Width \in Nat \ {0}, NEW l \in Nat \ {0}, NEW idx,
         \A k \in 0 .. l : Loc(idx, k) \in StateProp, NEW b, Knows(b, idx, l - 1)
  PROVE  Knows(LevelAdded(b, Loc(idx, l), l), idx, l)
<1>1. PICK s \in StateProp : s = Loc(idx, l)
  OBVIOUS
<1>2. s.id \in 1 .. Width - 1 /\ s.pwrdown \in 0 .. 1 /\ s.depth \in Nat
  BY DEF StateProp
<1>3. PICK r : r = LevelAdded(b, s, l)
  OBVIOUS
<1>4. /\ r.id = b.id + s.id * Unit[l]
      /\ r.type = IF s.pwrdown > b.type THEN s.pwrdown ELSE b.type
      /\ r.depth = IF s.depth > b.depth THEN b.depth ELSE s.depth
      /\ r.ok = (b.ok /\ s.depth <= b.depth)
  BY <1>3 DEF LevelAdded
<1>5. PICK u \in Nat \ {0} : u = Unit[l]
  BY UnitFacts
<1>6. b.id \in 0 .. u - 1 /\ Unit[l + 1] = Width * u
  <2>1. l - 1 + 1 = l /\ l + 1 - 1 = l
    OBVIOUS
  <2>. QED  BY <1>5, <2>1, UnitFacts DEF Knows
<1>7. ((b.id + s.id * u) \div u) % Width = s.id /\ b.id + s.id * u \in 0 .. Width * u - 1
  <2>1. s.id \in 0 .. Width - 1
    BY <1>2
  <2>. QED  BY <1>6, <2>1, HighestDigit
<1>8. r.id \in 0 .. Unit[l + 1] - 1
  BY <1>4, <1>5, <1>6, <1>7
<1>9. ASSUME NEW k \in 0 .. l PROVE (r.id \div Unit[k]) % Width = Loc(idx, k).id
  <2>1. CASE k = l
    BY <1>1, <1>4, <1>5, <1>7, <2>1
  <2>2. CASE k # l
    <3>1. k \in Nat /\ k < l /\ k \in 0 .. l - 1
      BY <2>2
    <3>2. PICK v \in Nat \ {0} : v = Unit[k]
      BY <3>1, UnitFacts
    <3>3. PICK q \in Nat : u = v * Width * q
      BY <1>5, <3>1, <3>2, UnitDivides
    <3>4. s.id * u = v * Width * (q * s.id) /\ q * s.id \in Nat
      BY <1>2, <3>3
    <3>5. ((b.id + v * Width * (q * s.id)) \div v) % Width = (b.id \div v) % Width
      <4>1. PICK d \in Nat : d = q * s.id
        BY <3>4
      <4>2. b.id \in Nat
        BY <1>6
      <4>3. ((b.id + v * Width * d) \div v) % Width = (b.id \div v) % Width
        BY <4>2, LowerDigit
      <4>. QED  BY <4>1, <4>3
    <3>6. (b.id \div v) % Width = Loc(idx, k).id
      BY <3>1, <3>2 DEF Knows
    <3>. QED  BY <1>4, <1>5, <3>2, <3>4, <3>5, <3>6
  <2>. QED  BY <2>1, <2>2
<1>10. r.type = IF \E k \in 0 .. l : Loc(idx, k).pwrdown = 1 THEN 1 ELSE 0
  <2>1. 0 .. l = (0 .. l - 1) \cup {l}
    OBVIOUS
  <2>2. b.type = IF \E k \in 0 .. l - 1 : Loc(idx, k).pwrdown = 1 THEN 1 ELSE 0
    BY DEF Knows
  <2>. QED  BY <1>1, <1>2, <1>4, <2>1, <2>2
<1>11. b.ok \in BOOLEAN /\ b.depth \in Nat
  BY DEF Knows
<1>12. r.ok \in BOOLEAN /\ r.depth \in Nat
  BY <1>2, <1>4, <1>11
<1>13. ASSUME r.ok PROVE r.depth = s.depth
  <2>1. s.depth <= b.depth
    BY <1>4, <1>13, Zenon
  <2>2. ~(s.depth > b.depth)
    BY <1>2, <1>11, <2>1
  <2>. QED  BY <1>4, <2>2
<1>14. r.ok <=> \A k \in 1 .. l : Loc(idx, k).depth <= Loc(idx, k - 1).depth
  <2>1. 1 .. l = (1 .. l - 1) \cup {l}
    OBVIOUS
  <2>2. b.ok <=> \A k \in 1 .. l - 1 : Loc(idx, k).depth <= Loc(idx, k - 1).depth
    BY DEF Knows
  <2>3. b.ok => b.depth = Loc(idx, l - 1).depth
    BY DEF Knows
  <2>. QED  BY <1>1, <1>4, <1>11, <2>1, <2>2, <2>3
<1>. QED  BY <1>1, <1>3, <1>8, <1>9, <1>10, <1>12, <1>13, <1>14 DEF Knows

\* After the loop the id, the type and the validity are those of the whole index.
LEMMA PStateFacts ==
  ASSUME plat_state \in StateTables, NEW top \in Levels, NEW idx, Names(idx, top)
  PROVE  Knows(PStateUpTo(idx, top), idx, top)
<1>1. /\ top \in Nat /\ 0 .. top \subseteq Levels /\ Width \in Nat \ {0}
      /\ \A l \in 0 .. top : Loc(idx, l) \in StateProp
  BY TableFacts DEF Levels, Names, Loc
<1>2. PICK u : /\ PStateUpTo(idx, top) = u[top]
               /\ u[0] = LevelAdded(FirstOf(Loc(idx, 0)), Loc(idx, 0), 0)
               /\ \A l \in 1 .. top : u[l] = LevelAdded(u[l - 1], Loc(idx, l), l)
  BY PStateTurns
<1>. DEFINE S == {l \in 0 .. top : Knows(u[l], idx, l)}
<1>3. 0 \in S
  BY <1>1, <1>2, KnowsFirst
<1>4. ASSUME NEW l \in 1 .. top, l - 1 \in S PROVE l \in S
  <2>1. \A k \in 0 .. l : Loc(idx, k) \in StateProp
    BY <1>1
  <2>2. Knows(u[l - 1], idx, l - 1)
    BY <1>4
  <2>3. Knows(LevelAdded(u[l - 1], Loc(idx, l), l), idx, l)
    <3>1. l \in Nat \ {0}
      BY <1>1
    <3>. QED  BY <1>1, <2>1, <2>2, <3>1, KnowsNext
  <2>. QED  BY <1>2, <2>3
<1>. HIDE DEF S
<1>5. top \in S
  BY <1>1, <1>3, <1>4, Upward
<1>. QED  BY <1>2, <1>5 DEF S

-----------------------------------------------------------------------------
(* The order of the odometer, for the levels 0 .. max with n[l] states each.  *)

\* The composite states of level top, and those of all levels up to lev.
StatesOf(n, max, top) ==
  {c \in [0 .. max -> Int] :
     \A l \in 0 .. max : IF l <= top THEN c[l] \in 0 .. n[l] - 1 ELSE c[l] = -1}

StatesUpTo(n, max, lev) == UNION {StatesOf(n, max, top) : top \in 0 .. lev}

Unset(max) == [l \in 0 .. max |-> -1]

\* The highest level at which they differ decides.
Before(c, d, max) ==
  \E h \in 0 .. max : c[h] < d[h] /\ \A l \in h + 1 .. max : c[l] = d[l]

UpToSame(c, d, max) == c = d \/ Before(c, d, max)

\* Of two different combinations exactly one comes before the other.
LEMMA BeforeOrder ==
  ASSUME NEW max \in Nat, NEW c \in [0 .. max -> Int], NEW d \in [0 .. max -> Int]
  PROVE  /\ c # d => Before(c, d, max) \/ Before(d, c, max)
         /\ Before(c, d, max) => c # d /\ ~Before(d, c, max)
<1>1. ASSUME c # d PROVE Before(c, d, max) \/ Before(d, c, max)
  <2>. DEFINE D == {l \in 0 .. max : c[l] # d[l]}
  <2>1. D # {}
    BY <1>1
  <2>2. PICK h \in D : \A l \in D : l <= h
    <3>1. D \in SUBSET (0 .. max)
      OBVIOUS
    <3>. HIDE DEF D
    <3>. QED  BY <2>1, <3>1, Greatest
  <2>3. \A l \in h + 1 .. max : c[l] = d[l]
    BY <2>2
  <2>4. c[h] < d[h] \/ d[h] < c[h]
    BY <2>2
  <2>. QED  BY <2>2, <2>3, <2>4 DEF Before
<1>2. ASSUME Before(c, d, max) PROVE c # d /\ ~Before(d, c, max)
  <2>1. PICK h \in 0 .. max : c[h] < d[h] /\ \A l \in h + 1 .. max : c[l] = d[l]
    BY <1>2 DEF Before
  <2>2. c # d
    BY <2>1
  <2>3. ASSUME NEW g \in 0 .. max, d[g] < c[g], \A l \in g + 1 .. max : d[l] = c[l] PROVE FALSE
    <3>1. CASE g < h
      BY <2>1, <2>3, <3>1
    <3>2. CASE g > h
      BY <2>1, <2>3, <3>2
    <3>3. CASE g = h
      BY <2>1, <2>3, <3>3
    <3>. QED  BY <3>1, <3>2, <3>3
  <2>. QED  BY <2>2, <2>3 DEF Before
<1>. QED  BY <1>1, <1>2

\* The order of the combinations is transitive.
LEMMA BeforeTransitive ==
  ASSUME NEW max \in Nat, NEW c \in [0 .. max -> Int], NEW d \in [0 .. max -> Int],
         NEW e \in [0 .. max -> Int], Before(c, d, max), Before(d, e, max)
  PROVE  Before(c, e, max)
<1>1. PICK h \in 0 .. max : c[h] < d[h] /\ \A l \in h + 1 .. max : c[l] = d[l]
  BY DEF Before
<1>2. PICK g \in 0 .. max : d[g] < e[g] /\ \A l \in g + 1 .. max : d[l] = e[l]
  BY DEF Before
<1>3. CASE h < g
  <2>1. c[g] < e[g] /\ \A l \in g + 1 .. max : c[l] = e[l]
    BY <1>1, <1>2, <1>3
  <2>. QED  BY <2>1 DEF Before
<1>4. CASE h >= g
  <2>1. c[h] < e[h] /\ \A l \in h + 1 .. max : c[l] = e[l]
    <3>0. c[h] \in Int /\ d[h] \in Int /\ e[h] \in Int
      OBVIOUS
    <3>1. c[h] < e[h]
      <4>1. CASE h = g
        BY <1>1, <1>2, <3>0, <4>1
      <4>2. CASE h > g
        <5>1. d[h] = e[h]
          BY <1>2, <4>2
        <5>. QED  BY <1>1, <5>1
      <4>. QED  BY <1>4, <4>1, <4>2
    <3>2. \A l \in h + 1 .. max : c[l] = e[l]
      BY <1>1, <1>2, <1>4
    <3>. QED  BY <3>1, <3>2
  <2>. QED  BY <2>1 DEF Before
<1>. QED  BY <1>3, <1>4

\* Where the odometer can be: at a state, or unset.
AtState(idx, n, max, lev) == idx \in StatesUpTo(n, max, lev) \/ idx = Unset(max)

\* A place of the odometer has its wheels set up to a level, and unset above.
LEMMA AtStateFacts ==
  ASSUME NEW max \in Nat, NEW n \in [0 .. max -> Nat \ {0}], NEW lev \in 0 .. max, NEW idx,
         AtState(idx, n, max, lev)
  PROVE  /\ idx \in [0 .. max -> Int]
         /\ \A l \in 0 .. max : idx[l] \in -1 .. n[l] - 1
         /\ \A l \in lev + 1 .. max : idx[l] = -1
         /\ \A l \in 0 .. max : idx[l] >= 0 => \A k \in 0 .. l : idx[k] >= 0
<1>1. CASE idx = Unset(max)
  BY <1>1 DEF Unset
<1>2. CASE idx \in StatesUpTo(n, max, lev)
  <2>1. PICK t \in 0 .. lev : idx \in StatesOf(n, max, t)
    BY <1>2 DEF StatesUpTo
  <2>2. /\ idx \in [0 .. max -> Int]
        /\ \A l \in 0 .. max : IF l <= t THEN idx[l] \in 0 .. n[l] - 1 ELSE idx[l] = -1
    BY <2>1 DEF StatesOf
  <2>3. \A l \in 0 .. max : n[l] \in Nat \ {0} /\ idx[l] \in Int
    BY <2>2
  <2>4. ASSUME NEW l \in 0 .. max PROVE idx[l] \in -1 .. n[l] - 1
    <3>1. IF l <= t THEN idx[l] \in 0 .. n[l] - 1 ELSE idx[l] = -1
      BY <2>2
    <3>2. n[l] \in Nat \ {0} /\ idx[l] \in Int
      BY <2>3
    <3>. QED  BY <3>1, <3>2
  <2>5. \A l \in lev + 1 .. max : idx[l] = -1
    BY <2>2
  <2>6. \A l \in 0 .. max : idx[l] >= 0 => \A k \in 0 .. l : idx[k] >= 0
    BY <2>2, <2>3
  <2>. QED  BY <2>2, <2>4, <2>5, <2>6
<1>. QED  BY <1>1, <1>2 DEF AtState

\* The wheels below `stop' are at their last place.
AtLast(idx, n, stop) == \A l \in 0 .. stop - 1 : idx[l] + 1 = n[l]

\* They may be all of the wheels up to a level.
LEMMA AllLast ==
  ASSUME NEW idx, NEW n, NEW lev \in Nat, \A l \in 0 .. lev : idx[l] + 1 = n[l]
  PROVE  AtLast(idx, n, lev + 1)
<1>1. \A l \in 0 .. (lev + 1) - 1 : l \in 0 .. lev
  OBVIOUS
<1>. QED  BY <1>1, Zenon DEF AtLast

\* The wheels below `stop' are back at 0, and that one is turned.
Turned(next, idx, max, stop) ==
  next = [l \in 0 .. max |-> CASE l < stop -> 0 [] l = stop -> idx[l] + 1 [] OTHER -> idx[l]]

\* next is the state that follows idx: none lies between them.
Follows(next, idx, n, max, lev) ==
  /\ next \in StatesUpTo(n, max, lev)
  /\ ~UpToSame(next, idx, max)
  /\ \A c \in StatesUpTo(n, max, lev) :
       UpToSame(c, next, max) <=> UpToSame(c, idx, max) \/ c = next

\* The wheels turn to the state that follows, and skip none.
LEMMA OdometerTurns ==
  ASSUME NEW max \in Nat, NEW n \in [0 .. max -> Nat \ {0}], NEW lev \in 0 .. max, NEW idx,
         AtState(idx, n, max, lev),
         NEW stop \in 0 .. lev, idx[stop] + 1 # n[stop], AtLast(idx, n, stop), NEW next, Turned(next, idx, max, stop)
  PROVE  Follows(next, idx, n, max, lev)
<1>1. /\ idx \in [0 .. max -> Int]
      /\ \A l \in 0 .. max : idx[l] \in -1 .. n[l] - 1
      /\ \A l \in lev + 1 .. max : idx[l] = -1
  BY AtStateFacts, Zenon
<1>0. stop \in 0 .. max /\ idx[stop] \in Int /\ n[stop] \in Nat
  BY <1>1
<1>2. /\ next \in [0 .. max -> Int] /\ next[stop] = idx[stop] + 1
      /\ \A l \in 0 .. stop - 1 : next[l] = 0
      /\ \A l \in stop + 1 .. max : next[l] = idx[l]
  <2>1. \A l \in 0 .. max : next[l] = IF l < stop THEN 0 ELSE IF l = stop THEN idx[l] + 1 ELSE idx[l]
    BY DEF Turned
  <2>2. next \in [0 .. max -> Int]
    <3>1. next = [l \in 0 .. max |-> next[l]]
      BY DEF Turned
    <3>2. ASSUME NEW l \in 0 .. max PROVE next[l] \in Int
      <4>1. idx[l] \in Int
        BY <1>1
      <4>. QED  BY <2>1, <4>1
    <3>. QED  BY <3>1, <3>2
  <2>3. stop \in 0 .. max /\ 0 .. stop - 1 \subseteq 0 .. max /\ stop + 1 .. max \subseteq 0 .. max
    OBVIOUS
  <2>. QED  BY <2>1, <2>2, <2>3
<1>3. next \in StatesUpTo(n, max, lev)
  <2>1. CASE idx = Unset(max)
    <3>1. stop = 0
      <4>1. CASE stop # 0
        <5>1. 0 \in 0 .. stop - 1 /\ idx[0] = -1 /\ n[0] \in Nat \ {0}
          BY <2>1, <4>1 DEF Unset
        <5>. QED  BY <5>1 DEF AtLast
      <4>. QED  BY <4>1
    <3>2. PICK t \in 0 .. lev : t = 0
      OBVIOUS
    <3>3. next \in StatesOf(n, max, t)
      <4>1. \A l \in 0 .. max : IF l <= t THEN next[l] \in 0 .. n[l] - 1 ELSE next[l] = -1
        <5>. SUFFICES ASSUME NEW l \in 0 .. max
                      PROVE  IF l <= t THEN next[l] \in 0 .. n[l] - 1 ELSE next[l] = -1
          OBVIOUS
        <5>1. CASE l = 0
          <6>1. next[0] = -1 + 1 /\ n[0] \in Nat \ {0}
            BY <1>2, <2>1, <3>1 DEF Unset
          <6>. QED  BY <3>2, <5>1, <6>1
        <5>2. CASE l # 0
          <6>1. l \in stop + 1 .. max
            BY <3>1, <5>2
          <6>. QED  BY <1>2, <2>1, <3>2, <5>2, <6>1 DEF Unset
        <5>. QED  BY <5>1, <5>2
      <4>2. next \in [0 .. max -> Int]
        BY <1>2
      <4>. QED  BY <4>1, <4>2 DEF StatesOf
    <3>. QED  BY <3>3 DEF StatesUpTo
  <2>2. CASE idx \in StatesUpTo(n, max, lev)
    <3>1. PICK t \in 0 .. lev : \A l \in 0 .. max : IF l <= t THEN idx[l] \in 0 .. n[l] - 1 ELSE idx[l] = -1
      BY <2>2 DEF StatesUpTo, StatesOf
    <3>2. CASE stop <= t
      <4>1. \A l \in 0 .. max : IF l <= t THEN next[l] \in 0 .. n[l] - 1 ELSE next[l] = -1
        <5>. SUFFICES ASSUME NEW l \in 0 .. max
                      PROVE  IF l <= t THEN next[l] \in 0 .. n[l] - 1 ELSE next[l] = -1
          OBVIOUS
        <5>1. CASE l < stop
          BY <1>2, <3>2, <5>1
        <5>2. CASE l = stop
          <6>1. idx[stop] \in 0 .. n[stop] - 1 /\ n[stop] \in Nat
            BY <3>1, <3>2
          <6>2. idx[stop] + 1 \in 0 .. n[stop] - 1
            BY <6>1
          <6>. QED  BY <1>2, <3>2, <5>2, <6>2
        <5>3. CASE l > stop
          <6>1. next[l] = idx[l]
            BY <1>2, <5>3
          <6>2. IF l <= t THEN idx[l] \in 0 .. n[l] - 1 ELSE idx[l] = -1
            BY <3>1
          <6>. QED  BY <6>1, <6>2
        <5>. QED  BY <5>1, <5>2, <5>3
      <4>2. next \in StatesOf(n, max, t)
        BY <1>2, <4>1 DEF StatesOf
      <4>. QED  BY <4>2 DEF StatesUpTo
    <3>3. CASE stop > t
      <4>1. stop = t + 1
        <5>1. CASE stop - 1 > t
          <6>1. stop - 1 \in 0 .. stop - 1 /\ stop - 1 \in 0 .. max /\ n[stop - 1] \in Nat \ {0}
            BY <3>3
          <6>2. idx[stop - 1] = -1 /\ idx[stop - 1] + 1 = n[stop - 1]
            BY <3>1, <5>1, <6>1 DEF AtLast
          <6>. QED  BY <6>1, <6>2
        <5>. QED  BY <3>3, <5>1
      <4>2. idx[stop] = -1 /\ next[stop] = 0 /\ stop \in 0 .. lev
        BY <1>2, <3>1, <3>3
      <4>3. \A l \in 0 .. max : IF l <= stop THEN next[l] \in 0 .. n[l] - 1 ELSE next[l] = -1
        <5>. SUFFICES ASSUME NEW l \in 0 .. max
                      PROVE  IF l <= stop THEN next[l] \in 0 .. n[l] - 1 ELSE next[l] = -1
          OBVIOUS
        <5>0. n[l] \in Nat \ {0}
          OBVIOUS
        <5>1. CASE l < stop
          <6>1. next[l] = 0
            BY <1>2, <5>1
          <6>. QED  BY <5>0, <5>1, <6>1
        <5>2. CASE l = stop
          BY <4>2, <5>0, <5>2
        <5>3. CASE l > stop
          <6>1. next[l] = idx[l]
            BY <1>2, <5>3
          <6>2. idx[l] = -1
            BY <3>1, <4>1, <5>3
          <6>. QED  BY <5>3, <6>1, <6>2
        <5>. QED  BY <5>1, <5>2, <5>3
      <4>4. next \in StatesOf(n, max, stop)
        BY <1>2, <4>3 DEF StatesOf
      <4>. QED  BY <4>2, <4>4 DEF StatesUpTo
    <3>. QED  BY <3>2, <3>3
  <2>. QED  BY <2>1, <2>2 DEF AtState
<1>4. Before(idx, next, max)
  <2>1. stop \in 0 .. max /\ idx[stop] \in Int
    BY <1>1
  <2>2. idx[stop] < next[stop] /\ \A l \in stop + 1 .. max : idx[l] = next[l]
    BY <1>2, <2>1
  <2>. QED  BY <2>1, <2>2 DEF Before
<1>5. ~UpToSame(next, idx, max)
  BY <1>1, <1>2, <1>4, BeforeOrder DEF UpToSame
<1>6. ASSUME NEW c \in StatesUpTo(n, max, lev), UpToSame(c, idx, max) PROVE UpToSame(c, next, max)
  <2>1. c \in [0 .. max -> Int]
    BY DEF StatesUpTo, StatesOf
  <2>. QED  BY <1>1, <1>2, <1>4, <1>6, <2>1, BeforeTransitive DEF UpToSame
<1>7. ASSUME NEW c \in StatesUpTo(n, max, lev), ~UpToSame(c, idx, max), c # next
      PROVE  Before(next, c, max)
  <2>1. /\ c \in [0 .. max -> Int]
        /\ \A l \in 0 .. max : c[l] \in -1 .. n[l] - 1
        /\ \A l \in 0 .. max : c[l] >= 0 => \A k \in 0 .. l : c[k] >= 0
    BY AtStateFacts DEF AtState
  <2>2. Before(idx, c, max)
    BY <1>1, <1>7, <2>1, BeforeOrder DEF UpToSame
  <2>3. PICK h \in 0 .. max : idx[h] < c[h] /\ \A l \in h + 1 .. max : idx[l] = c[l]
    BY <2>2 DEF Before
  <2>4. CASE h < stop
    <3>1. idx[h] + 1 = n[h] /\ c[h] <= n[h] - 1 /\ n[h] \in Nat /\ idx[h] \in Int /\ c[h] \in Int
      <4>1. h \in 0 .. stop - 1 /\ n[h] \in Nat
        BY <2>4
      <4>2. idx[h] + 1 = n[h]
        BY <4>1 DEF AtLast
      <4>3. idx[h] \in Int
        BY <1>1
      <4>4. c[h] \in -1 .. n[h] - 1
        BY <2>1
      <4>. QED  BY <4>1, <4>2, <4>3, <4>4
    <3>. QED  BY <2>3, <3>1
  <2>5. CASE h > stop
    <3>1. next[h] = idx[h] /\ \A l \in h + 1 .. max : next[l] = idx[l]
      BY <1>2, <2>5
    <3>2. \A l \in h + 1 .. max : next[l] = c[l]
      BY <2>3, <3>1
    <3>. QED  BY <2>3, <3>1, <3>2 DEF Before
  <2>6. CASE h = stop
    <3>1. \A l \in stop + 1 .. max : next[l] = c[l]
      BY <1>2, <2>3, <2>6
    <3>4. next[stop] \in Int /\ c[stop] \in Int
      <4>1. stop \in 0 .. max
        OBVIOUS
      <4>. QED  BY <1>2, <2>1, <4>1
    <3>2. CASE next[stop] < c[stop]
      <4>1. stop \in 0 .. max
        OBVIOUS
      <4>. QED  BY <3>1, <3>2, <4>1 DEF Before
    <3>3. CASE next[stop] >= c[stop]
      <4>1. next[stop] = c[stop] /\ c[stop] >= 0
        <5>1. next[stop] = idx[stop] + 1 /\ idx[stop] < c[stop] /\ c[stop] <= next[stop]
          BY <1>2, <2>3, <2>6, <3>3, <3>4
        <5>2. idx[stop] >= -1
          BY <1>0, <1>1
        <5>. QED  BY <1>0, <3>4, <5>1, <5>2
      <4>2. Before(c, next, max) \/ Before(next, c, max)
        BY <1>2, <1>7, <2>1, BeforeOrder
      <4>3. ASSUME NEW g \in 0 .. max, c[g] < next[g], \A l \in g + 1 .. max : c[l] = next[l] PROVE FALSE
        <5>1. g \in 0 .. stop - 1
          <6>1. c[g] # next[g]
            BY <1>2, <2>1, <4>3
          <6>2. g \notin stop + 1 .. max /\ g # stop
            BY <3>1, <4>1, <6>1
          <6>. QED  BY <6>2
        <5>2. next[g] = 0
          BY <1>2, <5>1
        <5>3. c[g] >= 0 /\ c[g] \in Int
          <6>1. stop \in 0 .. max /\ g \in 0 .. stop
            BY <5>1
          <6>. QED  BY <2>1, <4>1, <6>1
        <5>. QED  BY <4>3, <5>2, <5>3
      <4>. QED  BY <4>2, <4>3 DEF Before
    <3>. QED  BY <3>2, <3>3, <3>4
  <2>. QED  BY <2>4, <2>5, <2>6
<1>8. ASSUME NEW c \in StatesUpTo(n, max, lev), UpToSame(c, next, max), c # next
      PROVE  UpToSame(c, idx, max)
  <2>1. c \in [0 .. max -> Int] /\ Before(c, next, max)
    BY <1>8 DEF StatesUpTo, StatesOf, UpToSame
  <2>2. ~Before(next, c, max)
    BY <1>2, <2>1, BeforeOrder
  <2>. QED  BY <1>7, <1>8, <2>2
<1>9. \A c \in StatesUpTo(n, max, lev) : c = next => UpToSame(c, next, max)
  BY DEF UpToSame
<1>. QED  BY <1>3, <1>5, <1>6, <1>8, <1>9 DEF Follows

\* When every wheel turns over, no state is left.
LEMMA OdometerOver ==
  ASSUME NEW max \in Nat, NEW n \in [0 .. max -> Nat \ {0}], NEW lev \in 0 .. max, NEW idx,
         AtState(idx, n, max, lev), AtLast(idx, n, lev + 1)
  PROVE  \A c \in StatesUpTo(n, max, lev) : UpToSame(c, idx, max)
<1>. SUFFICES ASSUME NEW c \in StatesUpTo(n, max, lev), ~UpToSame(c, idx, max) PROVE FALSE
  OBVIOUS
<1>1. /\ idx \in [0 .. max -> Int]
      /\ \A l \in lev + 1 .. max : idx[l] = -1
  BY AtStateFacts
<1>2. /\ c \in [0 .. max -> Int]
      /\ \A l \in 0 .. max : c[l] \in -1 .. n[l] - 1
      /\ \A l \in lev + 1 .. max : c[l] = -1
  <2>1. PICK t \in 0 .. lev : c \in StatesOf(n, max, t)
    BY DEF StatesUpTo
  <2>2. c \in [0 .. max -> Int]
    BY <2>1 DEF StatesOf
  <2>3. ASSUME NEW l \in 0 .. max PROVE c[l] \in -1 .. n[l] - 1 /\ (l > lev => c[l] = -1)
    <3>1. IF l <= t THEN c[l] \in 0 .. n[l] - 1 ELSE c[l] = -1
      BY <2>1 DEF StatesOf
    <3>. QED  BY <3>1
  <2>. QED  BY <2>2, <2>3
<1>3. Before(idx, c, max)
  BY <1>1, <1>2, BeforeOrder DEF UpToSame
<1>4. PICK h \in 0 .. max : idx[h] < c[h]
  BY <1>3 DEF Before
<1>5. CASE h <= lev
  <2>1. idx[h] + 1 = n[h] /\ c[h] <= n[h] - 1 /\ n[h] \in Nat /\ idx[h] \in Int /\ c[h] \in Int
    <3>1. h \in 0 .. lev + 1 - 1 /\ n[h] \in Nat
      BY <1>5
    <3>2. idx[h] + 1 = n[h]
      BY <3>1 DEF AtLast
    <3>3. idx[h] \in Int
      BY <1>1
    <3>4. c[h] \in -1 .. n[h] - 1
      BY <1>2
    <3>. QED  BY <3>1, <3>2, <3>3, <3>4
  <2>. QED  BY <1>4, <2>1
<1>6. CASE h > lev
  BY <1>1, <1>2, <1>4, <1>6
<1>. QED  BY <1>5, <1>6

\* Before the first turn there is none behind.
LEMMA OdometerUnset ==
  ASSUME NEW max \in Nat, NEW n \in [0 .. max -> Nat \ {0}], NEW lev \in 0 .. max,
         NEW c \in StatesUpTo(n, max, lev)
  PROVE  ~UpToSame(c, Unset(max), max) /\ c[0] # -1
<1>1. c \in [0 .. max -> Int] /\ c[0] >= 0 /\ \A l \in 0 .. max : c[l] >= -1
  <2>1. PICK t \in 0 .. lev : c \in StatesOf(n, max, t)
    BY DEF StatesUpTo
  <2>2. c \in [0 .. max -> Int]
    BY <2>1 DEF StatesOf
  <2>3. \A l \in 0 .. max : IF l <= t THEN c[l] \in 0 .. n[l] - 1 ELSE c[l] = -1
    BY <2>1 DEF StatesOf
  <2>4. c[0] \in 0 .. n[0] - 1
    BY <2>3
  <2>5. ASSUME NEW l \in 0 .. max PROVE c[l] >= -1
    <3>1. c[l] \in 0 .. n[l] - 1 \/ c[l] = -1
      BY <2>3
    <3>. QED  BY <3>1
  <2>. QED  BY <2>2, <2>4, <2>5
<1>. QED  BY <1>1 DEF UpToSame, Before, Unset

-----------------------------------------------------------------------------
(* The invariant.                                                            *)

Highest == Len(plat_state) - 1

\* What tftf_get_pstate_vars answers.
Answer == [idx : [Levels -> Int], level : Levels, id : Nat, type : 0 .. 1, ok : BOOLEAN]

Answered(v) ==
  /\ v.level \in Levels /\ Names(v.idx, v.level)
  /\ \A l \in 0 .. v.level : (v.id \div Unit[l]) % Width = Loc(v.idx, l).id
  /\ v.type = IF \E l \in 0 .. v.level : Loc(v.idx, l).pwrdown = 1 THEN 1 ELSE 0
  /\ v.ok <=> \A l \in 1 .. v.level : Loc(v.idx, l).depth <= Loc(v.idx, l - 1).depth

BaseInv ==
  /\ plat_state \in StateTables /\ pstate_initialized \in BOOLEAN
  /\ pstate_initialized => power_states_per_level = [l \in Levels |-> Len(plat_state[l + 1])]
  /\ requested \in Seq(Answer)
  /\ \A k \in DOMAIN requested : Answered(requested[k])
  /\ IsFiniteSet(Visited)

\* All the states up to where the odometer stands are met, each once.
StatesWalk ==
  /\ pstate_id_idx \in StatesUpTo(power_states_per_level, Highest, walk.level)
  /\ Visited = {c \in StatesUpTo(power_states_per_level, Highest, walk.level) : UpToSame(c, pstate_id_idx, Highest)}
  /\ Cardinality(Visited) = Len(requested)

StatesEnded ==
  /\ pstate_id_idx = Unset(Highest)
  /\ Visited = StatesUpTo(power_states_per_level, Highest, walk.level)
  /\ Cardinality(Visited) = Len(requested)

LocalWalk ==
  /\ pstate_id_idx \in StatesOf(power_states_per_level, Highest, walk.level)
  /\ {c[walk.level] : c \in Visited} = 0 .. pstate_id_idx[walk.level]

LocalEnded ==
  /\ pstate_id_idx[walk.level] = -1
  /\ {c[walk.level] : c \in Visited} \ {-1} = 0 .. power_states_per_level[walk.level] - 1

StatesInv ==
  /\ BaseInv
  /\ walk.by = "none" => pstate_id_idx = Unset(Highest) /\ requested = <<>>
  /\ walk.by # "none" => pstate_initialized /\ walk.level \in Levels
  /\ walk.by = "states" => StatesWalk
  /\ walk.by = "states ended" => StatesEnded
  /\ walk.by = "local" => LocalWalk
  /\ walk.by = "local ended" => LocalEnded

\* Asking for the id of an index that names states gives a right answer, which is kept.
LEMMA AskedFacts ==
  ASSUME plat_state \in StateTables, NEW t \in Levels, NEW idx, Names(idx, t)
  PROVE  /\ tftf_get_pstate_vars(idx) \in Answer
         /\ Answered(tftf_get_pstate_vars(idx))
         /\ tftf_get_pstate_vars(idx).idx = idx
<1>1. PICK r : r = PStateUpTo(idx, t)
  OBVIOUS
<1>2. Knows(r, idx, t)
  BY <1>1, PStateFacts
<1>3. PICK v : v = tftf_get_pstate_vars(idx)
  OBVIOUS
<1>4. v = [idx |-> idx, level |-> t, id |-> r.id, type |-> r.type, ok |-> r.ok]
  <2>1. Top(idx) = t
    BY TopFacts
  <2>. QED  BY <1>1, <1>3, <2>1, Zenon DEF tftf_get_pstate_vars
<1>5. v.idx = idx /\ v.level = t /\ v.id = r.id /\ v.type = r.type
  BY <1>4
<1>6. v.ok = r.ok
  BY <1>4
<1>7. r.id \in Nat /\ r.type \in 0 .. 1 /\ r.ok \in BOOLEAN
  <2>1. t + 1 \in Nat /\ Width \in Nat \ {0}
    BY TableFacts DEF Levels
  <2>2. Unit[t + 1] \in Nat
    BY <2>1, UnitFacts
  <2>3. r.id \in Nat
    BY <1>2, <2>2 DEF Knows
  <2>4. r.type \in 0 .. 1
    BY <1>2 DEF Knows
  <2>5. r.ok \in BOOLEAN
    BY <1>2, Zenon DEF Knows
  <2>. QED  BY <2>3, <2>4, <2>5
<1>8. v \in Answer
  <2>1. idx \in [Levels -> Int]
    BY DEF Names
  <2>. QED  BY <1>4, <1>7, <2>1 DEF Answer
<1>9. Answered(v)
  <2>1. \A l \in 0 .. v.level : (v.id \div Unit[l]) % Width = Loc(v.idx, l).id
    BY <1>2, <1>5 DEF Knows
  <2>2. v.type = IF \E l \in 0 .. v.level : Loc(v.idx, l).pwrdown = 1 THEN 1 ELSE 0
    BY <1>2, <1>5 DEF Knows
  <2>3. v.ok <=> \A l \in 1 .. v.level : Loc(v.idx, l).depth <= Loc(v.idx, l - 1).depth
    <3>1. r.ok <=> \A l \in 1 .. t : Loc(idx, l).depth <= Loc(idx, l - 1).depth
      BY <1>2, Zenon DEF Knows
    <3>. QED  BY <1>5, <1>6, <3>1, Zenon
  <2>. QED  BY <1>5, <2>1, <2>2, <2>3, Zenon DEF Answered
<1>. QED  BY <1>3, <1>5, <1>8, <1>9

\* After the framework is set up, the indices up to a level are the odometer's places.
LEMMA CountedStates ==
  ASSUME BaseInv, pstate_initialized
  PROVE  /\ Highest \in Nat /\ Levels = 0 .. Highest
         /\ power_states_per_level \in [0 .. Highest -> Nat \ {0}]
         /\ \A t \in Levels : \A idx : Names(idx, t) <=> idx \in StatesOf(power_states_per_level, Highest, t)
         /\ \A t \in Levels : Composite(t) = StatesOf(power_states_per_level, Highest, t)
<1>1. Highest \in Nat /\ Levels = 0 .. Highest /\ \A l \in Levels : Len(plat_state[l + 1]) \in Nat \ {0}
  BY TableFacts DEF BaseInv, Highest, Levels
<1>2. power_states_per_level = [l \in Levels |-> Len(plat_state[l + 1])]
  BY DEF BaseInv
<1>3. power_states_per_level \in [0 .. Highest -> Nat \ {0}]
  BY <1>1, <1>2
<1>4. ASSUME NEW t \in Levels, NEW idx
      PROVE  Names(idx, t) <=> idx \in StatesOf(power_states_per_level, Highest, t)
  BY <1>1, <1>2 DEF Names, StatesOf
<1>5. ASSUME NEW t \in Levels PROVE Composite(t) = StatesOf(power_states_per_level, Highest, t)
  <2>1. PICK n \in [0 .. Highest -> Nat \ {0}] : n = power_states_per_level
    BY <1>3
  <2>2. ASSUME NEW idx, idx \in Composite(t) PROVE idx \in StatesOf(n, Highest, t)
    <3>1. idx \in [Levels -> {-1} \cup UNION {0 .. n[l] - 1 : l \in Levels}]
      BY <2>1, <2>2 DEF Composite
    <3>2. idx \in [0 .. Highest -> Int]
      BY <1>1, <3>1
    <3>. QED  BY <1>1, <2>1, <2>2, <3>2 DEF Composite, StatesOf
  <2>3. ASSUME NEW idx, idx \in StatesOf(n, Highest, t) PROVE idx \in Composite(t)
    <3>1. \A l \in Levels : IF l <= t THEN idx[l] \in 0 .. n[l] - 1 ELSE idx[l] = -1
      BY <1>1, <2>3 DEF StatesOf
    <3>2. idx \in [Levels -> {-1} \cup UNION {0 .. n[l] - 1 : l \in Levels}]
      <4>1. idx = [l \in Levels |-> idx[l]]
        BY <1>1, <2>3 DEF StatesOf
      <4>2. \A l \in Levels : idx[l] \in {-1} \cup UNION {0 .. n[k] - 1 : k \in Levels}
        BY <3>1
      <4>. QED  BY <4>1, <4>2
    <3>. QED  BY <2>1, <3>1, <3>2 DEF Composite
  <2>. QED  BY <2>1, <2>2, <2>3
<1>. QED  BY <1>1, <1>3, <1>4, <1>5

\* An answer stays right while the tables stay.
LEMMA AnsweredStays ==
  ASSUME plat_state' = plat_state
  PROVE  /\ Levels' = Levels /\ Answer' = Answer
         /\ \A a : Answered(a) => Answered(a)'
<1>1. Levels' = Levels /\ Answer' = Answer /\ \A a : Answered(a) => Answered(a)'
  BY DEF Levels, Answer, Answered, Names, Loc, LocalState
<1>. QED  BY <1>1

\* The answer about the state the array names joins the others.
LEMMA VisitFacts ==
  ASSUME BaseInv, NEW t \in Levels, NEW idx, NEW w, Names(idx, t), Visit(idx, w)
  PROVE  /\ BaseInv'
         /\ idx[0] # -1
         /\ Visited' = Visited \cup {idx}
         /\ Len(requested') = Len(requested) + 1
<1>1. /\ requested \in Seq(Answer) /\ plat_state \in StateTables
      /\ \A k \in DOMAIN requested : Answered(requested[k])
      /\ IsFiniteSet(Visited)
  BY DEF BaseInv
<1>2. 0 \in Levels /\ idx[0] # -1
  <2>1. 0 \in Levels /\ 0 <= t
    BY <1>1, TableFacts DEF Levels
  <2>. QED  BY <2>1 DEF Names
<1>3. PICK v \in Answer : v = tftf_get_pstate_vars(idx) /\ Answered(v) /\ v.idx = idx
  BY <1>1, AskedFacts
<1>4. requested' = Append(requested, v)
  BY <1>2, <1>3 DEF Visit, PWR_STATE_INIT_INDEX
<1>5. /\ Len(requested') = Len(requested) + 1 /\ DOMAIN requested' = DOMAIN requested \cup {Len(requested) + 1}
      /\ requested' \in Seq(Answer) /\ requested'[Len(requested) + 1] = v
      /\ \A k \in DOMAIN requested : requested'[k] = requested[k]
  BY <1>1, <1>4
<1>6. Visited' = Visited \cup {idx}
  <2>1. Visited' = {requested'[k].idx : k \in DOMAIN requested'}
    BY DEF Visited
  <2>. QED  BY <1>3, <1>5, <2>1 DEF Visited
<1>7. IsFiniteSet(Visited')
  BY <1>1, <1>6, FS_AddElement
<1>8. plat_state' = plat_state /\ power_states_per_level' = power_states_per_level /\ pstate_initialized' = pstate_initialized
  BY DEF Visit
<1>9. Levels' = Levels /\ Answer' = Answer /\ \A a : Answered(a) => Answered(a)'
  BY <1>8, AnsweredStays
<1>10. \A k \in DOMAIN requested' : Answered(requested[k])'
  <2>. SUFFICES ASSUME NEW k \in DOMAIN requested' PROVE Answered(requested[k])'
    OBVIOUS
  <2>1. PICK a : a = requested'[k]
    OBVIOUS
  <2>2. Answered(a)
    BY <1>1, <1>3, <1>5, <2>1
  <2>3. Answered(a)'
    BY <1>9, <2>2
  <2>. QED  BY <2>1, <2>3
<1>11. BaseInv'
  BY <1>5, <1>7, <1>8, <1>9, <1>10 DEF BaseInv
<1>. QED  BY <1>2, <1>5, <1>6, <1>11

\* What the framework knows stays as long as it asks for no state.
LEMMA BaseStays ==
  ASSUME BaseInv, plat_state' = plat_state, requested' = requested, pstate_initialized' \in BOOLEAN,
         pstate_initialized' => power_states_per_level' = [l \in Levels |-> Len(plat_state[l + 1])]
  PROVE  BaseInv'
<1>1. Levels' = Levels /\ Answer' = Answer /\ \A a : Answered(a) => Answered(a)'
  BY AnsweredStays
<1>2. Visited' = Visited
  BY DEF Visited
<1>. QED  BY <1>1, <1>2 DEF BaseInv

\* What the walk over the states keeps before each turn.
LEMMA NextStateIdFacts ==
  ASSUME BaseInv, pstate_initialized, NEW lev \in Levels,
         AtState(pstate_id_idx, power_states_per_level, Highest, lev),
         Visited = {c \in StatesUpTo(power_states_per_level, Highest, lev) : UpToSame(c, pstate_id_idx, Highest)},
         Cardinality(Visited) = Len(requested), NEW next, next = NextStateId(pstate_id_idx, lev), NEW w,
         Visit(next, w), w.level = lev
  PROVE  /\ BaseInv'
         /\ next[0] = -1 => StatesEnded'
         /\ next[0] # -1 => StatesWalk'
<1>1. /\ Highest \in Nat /\ Levels = 0 .. Highest
      /\ power_states_per_level \in [0 .. Highest -> Nat \ {0}]
  BY CountedStates
<1>. PICK n \in [0 .. Highest -> Nat \ {0}] : n = power_states_per_level
  BY <1>1
<1>. PICK max \in Nat : max = Highest
  BY <1>1
<1>. PICK idx : idx = pstate_id_idx
  OBVIOUS
<1>2. /\ plat_state' = plat_state /\ power_states_per_level' = n /\ pstate_initialized' = pstate_initialized
      /\ Highest' = max /\ walk'.level = lev /\ pstate_id_idx' = next
  BY DEF Visit, Highest
<1>3. /\ idx \in [0 .. max -> Int] /\ \A l \in 0 .. max : idx[l] \in -1 .. n[l] - 1
      /\ \A l \in lev + 1 .. max : idx[l] = -1
      /\ lev \in 0 .. max
  BY <1>1, AtStateFacts
<1>4. CASE \A l \in 0 .. lev : Wraps(idx, l)
  <2>1. next = [l \in Levels |-> IF l <= lev THEN -1 ELSE idx[l]]
    BY <1>4 DEF NextStateId, PWR_STATE_INIT_INDEX
  <2>2. next = Unset(max) /\ next[0] = -1
    BY <1>1, <1>3, <2>1 DEF Unset
  <2>3. requested' = requested
    BY <2>2 DEF Visit, PWR_STATE_INIT_INDEX
  <2>4. \A c \in StatesUpTo(n, max, lev) : UpToSame(c, idx, max)
    <3>1. AtLast(idx, n, lev + 1)
      <4>2. \A l \in 0 .. lev : idx[l] + 1 = n[l]
        BY <1>4 DEF Wraps
      <4>3. lev \in Nat
        BY <1>3
      <4>. QED  BY <4>2, <4>3, AllLast
    <3>. QED  BY <1>3, <3>1, OdometerOver, Zenon
  <2>5. Visited' = Visited
    BY <2>3 DEF Visited
  <2>6. Visited' = StatesUpTo(n, max, lev) /\ Cardinality(Visited') = Len(requested')
    BY <2>3, <2>4, <2>5
  <2>7. StatesEnded'
    BY <1>2, <2>2, <2>6 DEF StatesEnded
  <2>8. BaseInv'
    BY <1>2, <2>3, BaseStays DEF BaseInv
  <2>. QED  BY <2>2, <2>7, <2>8
<1>5. CASE ~\A l \in 0 .. lev : Wraps(idx, l)
  <2>. DEFINE First(l) == ~ Wraps(idx, l) /\ \A k \in 0 .. l - 1 : Wraps(idx, k)
  <2>1. \E l \in 0 .. lev : First(l)
    <3>. DEFINE D == {l \in 0 .. lev : ~ Wraps(idx, l)}
    <3>1. D \in SUBSET Nat /\ D # {}
      BY <1>5
    <3>2. PICK l \in D : \A y \in D : l <= y
      <4>. HIDE DEF D
      <4>. QED  BY <3>1, Least
    <3>3. \A k \in 0 .. l - 1 : k \in 0 .. lev /\ ~(l <= k)
      BY <1>3, <3>2
    <3>. QED  BY <3>2, <3>3
  <2>. DEFINE stop == CHOOSE l \in 0 .. lev : First(l)
  <2>2. next = [l \in Levels |-> CASE l < stop -> 0 [] l = stop -> idx[l] + 1 [] OTHER -> idx[l]]
    <3>1. next = NextStateId(idx, lev)
      OBVIOUS
    <3>. QED  BY <1>5, <3>1, Zenon DEF NextStateId
  <2>3. stop \in 0 .. lev /\ First(stop)
    <3>. HIDE DEF First
    <3>. QED  BY <2>1
  <2>. HIDE DEF stop
  <2>4. idx[stop] + 1 # n[stop] /\ \A l \in 0 .. stop - 1 : idx[l] + 1 = n[l]
    BY <2>3 DEF Wraps
  <2>. HIDE DEF First
  <2>5. /\ next \in StatesUpTo(n, max, lev)
        /\ ~UpToSame(next, idx, max)
        /\ \A c \in StatesUpTo(n, max, lev) :
              UpToSame(c, next, max) <=> UpToSame(c, idx, max) \/ c = next
    <3>1. Levels = 0 .. max
      BY <1>1
    <3>2. Turned(next, idx, max, stop)
      BY <2>2, <3>1, Zenon DEF Turned
    <3>3. AtState(idx, n, max, lev) /\ n \in [0 .. max -> Nat \ {0}]
      OBVIOUS
    <3>4. stop \in 0 .. lev /\ lev \in 0 .. max
      BY <1>3, <2>3
    <3>5. idx[stop] + 1 # n[stop]
      BY <2>4
    <3>6. AtLast(idx, n, stop)
      BY <2>4 DEF AtLast
    <3>7. Follows(next, idx, n, max, lev)
      BY <3>2, <3>3, <3>4, <3>5, <3>6, OdometerTurns
    <3>. QED  BY <3>7, Zenon DEF Follows
  <2>6. PICK t \in 0 .. lev : next \in StatesOf(n, max, t)
    BY <2>5 DEF StatesUpTo
  <2>7. t \in Levels /\ Names(next, t)
    <3>1. t \in Levels
      BY <1>1
    <3>. QED  BY <2>6, <3>1, CountedStates
  <2>8. /\ BaseInv' /\ next[0] # -1 /\ Visited' = Visited \cup {next}
        /\ Len(requested') = Len(requested) + 1
    BY <2>7, VisitFacts
  <2>9. Visited' = {c \in StatesUpTo(n, max, lev) : UpToSame(c, next, max)}
    BY <2>5, <2>8
  <2>10. Cardinality(Visited') = Len(requested')
    <3>1. IsFiniteSet(Visited) /\ next \notin Visited
      BY <2>5 DEF BaseInv
    <3>. PICK V : V = Visited
      OBVIOUS
    <3>2. Cardinality(V \cup {next}) = Cardinality(V) + 1
      BY <3>1, FS_AddElement
    <3>. QED  BY <2>8, <3>2
  <2>11. StatesWalk'
    BY <1>2, <2>5, <2>9, <2>10 DEF StatesWalk
  <2>. QED  BY <2>8, <2>11
<1>. QED  BY <1>4, <1>5

\* Before the first turn of a walk.
LEMMA UnsetFacts ==
  ASSUME BaseInv, pstate_initialized, NEW lev \in Levels, pstate_id_idx = Unset(Highest), requested = <<>>
  PROVE  /\ AtState(pstate_id_idx, power_states_per_level, Highest, lev)
         /\ Visited = {}
         /\ Visited = {c \in StatesUpTo(power_states_per_level, Highest, lev) : UpToSame(c, pstate_id_idx, Highest)}
         /\ Cardinality(Visited) = Len(requested)
<1>1. Visited = {}
  BY DEF Visited
<1>2. \A c \in StatesUpTo(power_states_per_level, Highest, lev) : ~UpToSame(c, pstate_id_idx, Highest)
  BY CountedStates, OdometerUnset
<1>3. Cardinality({}) = 0 /\ Len(requested) = 0
  BY FS_EmptySet
<1>. QED  BY <1>1, <1>2, <1>3 DEF AtState

\* tftf_set_next_state_id_idx keeps the invariant.
LEMMA SetNextStateIdInv == StatesInv /\ SetNextStateId => StatesInv'
<1>. SUFFICES ASSUME StatesInv, SetNextStateId PROVE StatesInv'
  OBVIOUS
<1>. USE DEF PWR_STATE_INIT_INDEX
<1>1. PICK lev \in Levels :
        /\ pstate_initialized
        /\ walk \in {[by |-> "none"], [by |-> "states", level |-> lev]}
        /\ LET idx == NextStateId(pstate_id_idx, lev)
           IN Visit(idx, [by |-> IF idx[0] = PWR_STATE_INIT_INDEX THEN "states ended" ELSE "states", level |-> lev])
  BY DEF SetNextStateId
<1>2. BaseInv
  BY DEF StatesInv
<1>3. /\ AtState(pstate_id_idx, power_states_per_level, Highest, lev)
      /\ Visited = {c \in StatesUpTo(power_states_per_level, Highest, lev) : UpToSame(c, pstate_id_idx, Highest)}
      /\ Cardinality(Visited) = Len(requested)
  <2>1. CASE walk = [by |-> "none"]
    <3>1. pstate_id_idx = Unset(Highest) /\ requested = <<>>
      BY <2>1 DEF StatesInv
    <3>. QED  BY <1>1, <1>2, <3>1, UnsetFacts
  <2>2. CASE walk = [by |-> "states", level |-> lev]
    BY <2>2 DEF StatesInv, StatesWalk, AtState
  <2>. QED  BY <1>1, <2>1, <2>2
<1>. PICK next : next = NextStateId(pstate_id_idx, lev)
  OBVIOUS
<1>. PICK w : w = [by |-> IF next[0] = -1 THEN "states ended" ELSE "states", level |-> lev]
  OBVIOUS
<1>4. Visit(next, w) /\ w.level = lev /\ w.by = IF next[0] = -1 THEN "states ended" ELSE "states"
  BY <1>1
<1>5. /\ BaseInv'
      /\ next[0] = -1 => StatesEnded'
      /\ next[0] # -1 => StatesWalk'
  BY <1>1, <1>2, <1>3, <1>4, NextStateIdFacts
<1>6. walk' = w /\ plat_state' = plat_state /\ pstate_initialized' = pstate_initialized
  BY <1>4 DEF Visit
<1>7. pstate_initialized'
  BY <1>1, <1>6, Zenon
<1>8. Levels' = Levels
  BY <1>6 DEF Levels
<1>. QED  BY <1>4, <1>5, <1>6, <1>7, <1>8 DEF StatesInv

\* tftf_set_next_local_state_id_idx keeps the invariant.
LEMMA SetNextLocalStateIdInv == StatesInv /\ SetNextLocalStateId => StatesInv'
<1>. SUFFICES ASSUME StatesInv, SetNextLocalStateId PROVE StatesInv'
  OBVIOUS
<1>. USE DEF PWR_STATE_INIT_INDEX
<1>1. PICK lev \in Levels :
    /\ pstate_initialized
    /\ walk \in {[by |-> "none"], [by |-> "local", level |-> lev]}
    /\ LET start == [l \in Levels |-> IF l < lev THEN 0 ELSE pstate_id_idx[l]]
           ended == pstate_id_idx[lev] + 1 >= power_states_per_level[lev]
           idx == [start EXCEPT ![lev] = IF ended THEN -1 ELSE @ + 1]
       IN Visit(idx, [by |-> IF ended THEN "local ended" ELSE "local", level |-> lev])
  BY DEF SetNextLocalStateId
<1>2. BaseInv
  BY DEF StatesInv
<1>3. /\ Highest \in Nat /\ Levels = 0 .. Highest
      /\ power_states_per_level \in [0 .. Highest -> Nat \ {0}]
  BY <1>1, <1>2, CountedStates
<1>. PICK n \in [0 .. Highest -> Nat \ {0}] : n = power_states_per_level
  BY <1>3
<1>. PICK max \in Nat : max = Highest
  BY <1>3
<1>. PICK i : i = pstate_id_idx
  OBVIOUS
<1>4. /\ i \in [0 .. max -> Int] /\ i[lev] \in -1 .. n[lev] - 1
      /\ \A l \in lev + 1 .. max : i[l] = -1
      /\ lev \in 0 .. max
  <2>1. CASE walk = [by |-> "none"]
    <3>1. i = Unset(max) /\ requested = <<>>
      BY <2>1 DEF StatesInv
    <3>2. lev \in 0 .. max /\ i = [l \in 0 .. max |-> -1]
      BY <1>3, <3>1 DEF Unset
    <3>. QED  BY <3>2
  <2>2. CASE walk = [by |-> "local", level |-> lev]
    <3>1. LocalWalk /\ walk.level = lev
      BY <2>2 DEF StatesInv
    <3>2. i \in StatesOf(n, max, lev)
      BY <3>1 DEF LocalWalk
    <3>. QED  BY <1>3, <3>2 DEF StatesOf
  <2>. QED  BY <1>1, <2>1, <2>2
<1>met. {c[lev] : c \in Visited} = 0 .. i[lev]
  <2>1. CASE walk = [by |-> "none"]
    <3>1. i = Unset(max) /\ requested = <<>>
      BY <2>1 DEF StatesInv
    <3>2. Visited = {}
      BY <3>1 DEF Visited
    <3>3. {c[lev] : c \in Visited} = {} /\ 0 .. -1 = {}
      BY <3>2
    <3>4. lev \in 0 .. max /\ i = [l \in 0 .. max |-> -1]
      BY <1>3, <3>1 DEF Unset
    <3>5. i[lev] = -1
      BY <3>4
    <3>. QED  BY <3>3, <3>5
  <2>2. CASE walk = [by |-> "local", level |-> lev]
    <3>1. LocalWalk /\ walk.level = lev
      BY <2>2 DEF StatesInv
    <3>. QED  BY <3>1 DEF LocalWalk
  <2>. QED  BY <1>1, <2>1, <2>2
<1>p. PICK idx : idx = [[l \in Levels |-> IF l < lev THEN 0 ELSE i[l]] EXCEPT ![lev] = IF i[lev] + 1 >= n[lev] THEN -1 ELSE @ + 1]
  OBVIOUS
<1>q. PICK w : w = [by |-> IF i[lev] + 1 >= n[lev] THEN "local ended" ELSE "local", level |-> lev]
  OBVIOUS
<1>5. Visit(idx, w) /\ w.level = lev /\ w.by = IF i[lev] + 1 >= n[lev] THEN "local ended" ELSE "local"
  BY <1>1, <1>p, <1>q
<1>6. /\ idx \in [0 .. max -> Int]
      /\ \A l \in 0 .. max : l < lev => idx[l] = 0
      /\ \A l \in 0 .. max : l > lev => idx[l] = -1
      /\ idx[lev] = IF i[lev] + 1 >= n[lev] THEN -1 ELSE i[lev] + 1
  <2>1. Levels = 0 .. max
    BY <1>3
  <2>2. idx = [l \in 0 .. max |-> IF l = lev THEN IF i[lev] + 1 >= n[lev] THEN -1 ELSE i[lev] + 1
                                  ELSE IF l < lev THEN 0 ELSE i[l]]
    <3>1. i[lev] + 1 \in Int /\ n[lev] \in Int /\ lev \in 0 .. max /\ ~(lev < lev)
      BY <1>4
    <3>. QED  BY <1>p, <2>1, <3>1
  <2>3. i[lev] + 1 \in Int
    BY <1>4
  <2>. QED  BY <1>4, <2>2, <2>3, SMTT(30)
<1>7. /\ plat_state' = plat_state /\ power_states_per_level' = n /\ pstate_initialized'
      /\ Highest' = max /\ walk' = w /\ pstate_id_idx' = idx /\ Levels' = Levels
      /\ pstate_initialized' = pstate_initialized
  <2>1. /\ UNCHANGED <<plat_state, power_states_per_level, pstate_initialized>>
        /\ walk' = w /\ pstate_id_idx' = idx
    BY <1>5 DEF Visit
  <2>2. Highest' = Highest /\ Levels' = Levels
    BY <2>1 DEF Highest, Levels
  <2>3. pstate_initialized'
    BY <1>1, <2>1, Zenon
  <2>. QED  BY <2>1, <2>2, <2>3
<1>8. CASE i[lev] + 1 < n[lev]
  <2>0. ~(i[lev] + 1 >= n[lev])
    BY <1>4, <1>8
  <2>1. idx[lev] = i[lev] + 1 /\ w.by = "local"
    BY <1>5, <1>6, <2>0
  <2>2. idx \in StatesOf(n, max, lev)
    <3>1. \A l \in 0 .. max : IF l <= lev THEN idx[l] \in 0 .. n[l] - 1 ELSE idx[l] = -1
      <4>1. idx[lev] = i[lev] + 1
        BY <2>1
      <4>2. SUFFICES ASSUME NEW l \in 0 .. max PROVE IF l <= lev THEN idx[l] \in 0 .. n[l] - 1 ELSE idx[l] = -1
        OBVIOUS
      <4>3. n[l] \in Nat \ {0}
        OBVIOUS
      <4>4. CASE l = lev
        <5>1. idx[l] = i[lev] + 1 /\ l <= lev /\ i[lev] \in Int /\ i[lev] >= -1 /\ i[lev] + 1 < n[l]
          BY <1>4, <1>8, <4>1, <4>4
        <5>. QED  BY <4>3, <5>1
      <4>5. CASE l < lev
        <5>1. idx[l] = 0
          BY <1>6, <4>5
        <5>2. l <= lev
          BY <1>4, <4>5
        <5>3. 0 \in 0 .. n[l] - 1
          BY <4>3
        <5>. QED  BY <5>1, <5>2, <5>3
      <4>6. CASE l > lev
        BY <1>4, <1>6, <4>6
      <4>. QED  BY <1>4, <4>4, <4>5, <4>6
    <3>. QED  BY <1>6, <3>1 DEF StatesOf
  <2>3. Names(idx, lev)
    BY <1>1, <1>2, <2>2, CountedStates
  <2>4. BaseInv' /\ Visited' = Visited \cup {idx}
    BY <1>2, <1>5, <2>3, VisitFacts
  <2>5. {c[lev] : c \in Visited'} = {c[lev] : c \in Visited} \cup {idx[lev]}
    BY <2>4
  <2>6. {c[lev] : c \in Visited'} = 0 .. idx[lev]
    <3>1. 0 .. i[lev] + 1 = (0 .. i[lev]) \cup {i[lev] + 1}
      <4>1. i[lev] \in Int /\ i[lev] >= -1
        BY <1>4
      <4>. QED  BY <4>1
    <3>. QED  BY <1>met, <2>1, <2>5, <3>1
  <2>7. LocalWalk'
    BY <1>5, <1>7, <2>2, <2>6 DEF LocalWalk
  <2>. QED  BY <1>5, <1>7, <2>1, <2>4, <2>7 DEF StatesInv
<1>9. CASE ~(i[lev] + 1 < n[lev])
  <2>1. idx[lev] = -1 /\ w.by = "local ended" /\ i[lev] = n[lev] - 1
    <3>1. i[lev] + 1 >= n[lev] /\ i[lev] = n[lev] - 1
      <4>1. n[lev] \in Nat
        BY <1>4
      <4>. QED  BY <1>4, <1>9, <4>1
    <3>. QED  BY <1>5, <1>6, <3>1
  <2>2. BaseInv' /\ (Visited' = Visited \/ Visited' = Visited \cup {idx})
    <3>1. CASE lev = 0
      <4>1. requested' = requested
        BY <1>5, <2>1, <3>1 DEF Visit
      <4>2. Visited' = Visited
        BY <4>1 DEF Visited
      <4>3. BaseInv'
        BY <1>2, <1>7, <4>1, BaseStays DEF BaseInv
      <4>. QED  BY <4>2, <4>3
    <3>2. CASE lev # 0
      <4>1. PICK t \in Levels : t = lev - 1
        BY <1>3, <3>2
      <4>2. idx \in StatesOf(n, max, t)
        <5>1. \A l \in 0 .. max : IF l <= t THEN idx[l] \in 0 .. n[l] - 1 ELSE idx[l] = -1
          <6>1. idx[lev] = -1
            BY <2>1
          <6>2. SUFFICES ASSUME NEW l \in 0 .. max PROVE IF l <= t THEN idx[l] \in 0 .. n[l] - 1 ELSE idx[l] = -1
            OBVIOUS
          <6>3. n[l] \in Nat \ {0}
            OBVIOUS
          <6>4. CASE l = lev
            <7>1. lev \in Int /\ ~(l <= t)
              BY <4>1, <6>4
            <7>. QED  BY <6>1, <6>4, <7>1
          <6>5. CASE l < lev
            <7>1. idx[l] = 0
              BY <1>6, <6>5
            <7>2. l <= t
              BY <1>4, <4>1, <6>5
            <7>3. 0 \in 0 .. n[l] - 1
              BY <6>3
            <7>. QED  BY <7>1, <7>2, <7>3
          <6>6. CASE l > lev
            BY <1>4, <1>6, <4>1, <6>6
          <6>. QED  BY <1>4, <6>4, <6>5, <6>6
        <5>. QED  BY <1>6, <5>1 DEF StatesOf
      <4>3. Names(idx, t)
        BY <1>1, <1>2, <4>2, CountedStates
      <4>. QED  BY <1>2, <1>5, <4>3, VisitFacts
    <3>. QED  BY <3>1, <3>2
  <2>3. {c[lev] : c \in Visited'} \ {-1} = 0 .. n[lev] - 1
    <3>1. \/ {c[lev] : c \in Visited'} = 0 .. i[lev]
          \/ {c[lev] : c \in Visited'} = (0 .. i[lev]) \cup {-1}
      BY <1>met, <2>1, <2>2
    <3>2. n[lev] \in Nat /\ -1 \notin 0 .. n[lev] - 1
      BY <1>3
    <3>. QED  BY <2>1, <3>1, <3>2
  <2>4. LocalEnded'
    BY <1>5, <1>7, <2>1, <2>3 DEF LocalEnded
  <2>. QED  BY <1>5, <1>7, <2>1, <2>2, <2>4 DEF StatesInv
<1>10. i[lev] + 1 \in Int /\ n[lev] \in Int
  BY <1>3, <1>4
<1>. QED  BY <1>8, <1>9

\* tftf_set_deepest_pstate_idx keeps the invariant.
LEMMA SetDeepestInv == StatesInv /\ SetDeepest => StatesInv'
<1>. SUFFICES ASSUME StatesInv, SetDeepest PROVE StatesInv'
  OBVIOUS
<1>1. PICK lev \in Levels :
        /\ pstate_initialized /\ walk.by = "none"
        /\ Visit([l \in Levels |-> IF l <= lev THEN power_states_per_level[l] - 1 ELSE pstate_id_idx[l]],
                 [by |-> "deepest", level |-> lev])
  BY DEF SetDeepest
<1>2. BaseInv /\ pstate_id_idx = Unset(Highest)
  BY <1>1 DEF StatesInv
<1>. PICK idx : idx = [l \in Levels |-> IF l <= lev THEN power_states_per_level[l] - 1 ELSE pstate_id_idx[l]]
  OBVIOUS
<1>. PICK w : w = [by |-> "deepest", level |-> lev]
  OBVIOUS
<1>3. Names(idx, lev)
  <2>1. /\ Levels = 0 .. Highest
        /\ power_states_per_level \in [0 .. Highest -> Nat \ {0}]
    BY <1>1, <1>2, CountedStates
  <2>2. idx \in StatesOf(power_states_per_level, Highest, lev)
    BY <1>2, <2>1 DEF StatesOf, Unset
  <2>. QED  BY <1>1, <1>2, <2>2, CountedStates
<1>4. Visit(idx, w)
  BY <1>1
<1>5. BaseInv'
  BY <1>2, <1>3, <1>4, VisitFacts
<1>6. walk' = w /\ pstate_initialized' /\ Levels' = Levels
  BY <1>1, <1>4 DEF Visit, Levels
<1>. QED  BY <1>5, <1>6 DEF StatesInv

\* tftf_init_pstate_framework counts the states of each level, and keeps the invariant.
LEMMA InitFrameworkInv == StatesInv /\ tftf_init_pstate_framework => StatesInv'
<1>. SUFFICES ASSUME StatesInv, tftf_init_pstate_framework PROVE StatesInv'
  OBVIOUS
<1>1. /\ ~ pstate_initialized
      /\ power_states_per_level' = [l \in Levels |-> Len(plat_state[l + 1])]
      /\ pstate_initialized' = TRUE
      /\ UNCHANGED <<plat_state, pstate_id_idx, walk, requested>>
  BY DEF tftf_init_pstate_framework
<1>2. BaseInv /\ walk.by = "none" /\ pstate_id_idx = Unset(Highest) /\ requested = <<>>
  BY <1>1 DEF StatesInv
<1>3. BaseInv'
  BY <1>1, <1>2, BaseStays
<1>4. Highest' = Highest
  BY <1>1 DEF Highest
<1>. QED  BY <1>1, <1>2, <1>3, <1>4 DEF StatesInv

\* The invariant holds before anything is set up.
LEMMA StatesInitInv == StatesInit => StatesInv
<1>. SUFFICES ASSUME StatesInit PROVE StatesInv
  OBVIOUS
<1>1. /\ plat_state \in StateTables /\ ~ pstate_initialized /\ pstate_initialized \in BOOLEAN
      /\ walk.by = "none" /\ requested = <<>>
  BY DEF StatesInit
<1>2. pstate_id_idx = Unset(Highest)
  BY DEF StatesInit, PWR_STATE_INIT_INDEX, Levels, Unset, Highest
<1>3. Visited = {} /\ IsFiniteSet({})
  BY <1>1, FS_EmptySet DEF Visited
<1>4. requested \in Seq(Answer) /\ DOMAIN requested = {}
  BY <1>1
<1>5. BaseInv
  BY <1>1, <1>3, <1>4 DEF BaseInv
<1>. QED  BY <1>1, <1>2, <1>5 DEF StatesInv

\* Whatever the platform's tables and the walk.
THEOREM StatesInvariant == StatesSpec => []StatesInv
<1>1. StatesInv /\ [StatesNext]_stateVars => StatesInv'
  <2>. SUFFICES ASSUME StatesInv, [StatesNext]_stateVars PROVE StatesInv'
    OBVIOUS
  <2>1. CASE UNCHANGED stateVars
    <3>1. /\ plat_state' = plat_state /\ requested' = requested /\ walk' = walk /\ pstate_id_idx' = pstate_id_idx
          /\ power_states_per_level' = power_states_per_level /\ pstate_initialized' = pstate_initialized
      BY <2>1 DEF stateVars
    <3>2. BaseInv'
      BY <3>1, BaseStays DEF StatesInv, BaseInv
    <3>3. Visited' = Visited /\ Highest' = Highest /\ Levels' = Levels
      BY <3>1 DEF Visited, Highest, Levels
    <3>6. walk.by # "none" => pstate_initialized'
      BY <3>1, Zenon DEF StatesInv
    <3>7. walk'.by # "none" => pstate_initialized' /\ walk'.level \in Levels'
      BY <3>1, <3>3, <3>6 DEF StatesInv
    <3>8. walk'.by = "none" => (pstate_id_idx = Unset(Highest))' /\ requested' = <<>>
      BY <3>1, <3>3 DEF StatesInv
    <3>11. walk'.by = walk.by
      BY <3>1
    <3>12. ASSUME walk'.by = "states" PROVE StatesWalk'
      <4>1. walk.by = "states"
        BY <3>11, <3>12
      <4>2. StatesWalk
        BY <4>1 DEF StatesInv
      <4>. QED  BY <3>1, <3>3, <4>2 DEF StatesWalk
    <3>13. ASSUME walk'.by = "states ended" PROVE StatesEnded'
      <4>1. walk.by = "states ended"
        BY <3>11, <3>13
      <4>2. StatesEnded
        BY <4>1 DEF StatesInv
      <4>. QED  BY <3>1, <3>3, <4>2 DEF StatesEnded
    <3>14. ASSUME walk'.by = "local" PROVE LocalWalk'
      <4>1. walk.by = "local"
        BY <3>11, <3>14
      <4>2. LocalWalk
        BY <4>1 DEF StatesInv
      <4>. QED  BY <3>1, <3>3, <4>2 DEF LocalWalk
    <3>15. ASSUME walk'.by = "local ended" PROVE LocalEnded'
      <4>1. walk.by = "local ended"
        BY <3>11, <3>15
      <4>2. LocalEnded
        BY <4>1 DEF StatesInv
      <4>. QED  BY <3>1, <3>3, <4>2 DEF LocalEnded
    <3>. QED  BY <3>2, <3>7, <3>8, <3>12, <3>13, <3>14, <3>15, Zenon DEF StatesInv
  <2>. QED  BY <2>1, SetNextStateIdInv, SetNextLocalStateIdInv, SetDeepestInv, InitFrameworkInv DEF StatesNext
<1>. QED  BY <1>1, StatesInitInv, PTL DEF StatesSpec

\* A walk with the odometer of tftf_set_next_state_id_idx meets every composite state
\* up to its level exactly once and then resets the array; a walk with
\* tftf_set_next_local_state_id_idx meets every state of its level.
THEOREM EveryStateOnce == StatesSpec => []OdometerComplete
<1>1. StatesInv => OdometerComplete
  <2>. SUFFICES ASSUME StatesInv PROVE OdometerComplete
    OBVIOUS
  <2>1. ASSUME walk.by \in {"states", "states ended"} PROVE Cardinality(Visited) = Len(requested)
    BY <2>1 DEF StatesInv, StatesWalk, StatesEnded
  <2>2. ASSUME walk.by = "states ended"
        PROVE  /\ Visited = UNION {Composite(l) : l \in 0 .. walk.level}
               /\ pstate_id_idx = [l \in Levels |-> PWR_STATE_INIT_INDEX]
    <3>1. BaseInv /\ pstate_initialized /\ walk.level \in Levels /\ StatesEnded
      BY <2>2 DEF StatesInv
    <3>2. /\ Levels = 0 .. Highest /\ Highest \in Nat
          /\ \A t \in Levels : Composite(t) = StatesOf(power_states_per_level, Highest, t)
      BY <3>1, CountedStates
    <3>3. \A t \in 0 .. walk.level : Composite(t) = StatesOf(power_states_per_level, Highest, t)
      BY <3>1, <3>2
    <3>4. Visited = UNION {Composite(l) : l \in 0 .. walk.level}
      BY <3>1, <3>3 DEF StatesEnded, StatesUpTo
    <3>. QED  BY <3>1, <3>2, <3>4 DEF StatesEnded, Unset, PWR_STATE_INIT_INDEX
  <2>3. ASSUME walk.by = "local ended"
        PROVE  /\ {idx[walk.level] : idx \in Visited} \ {PWR_STATE_INIT_INDEX}
                    = 0 .. power_states_per_level[walk.level] - 1
               /\ pstate_id_idx[walk.level] = PWR_STATE_INIT_INDEX
    BY <2>3 DEF StatesInv, LocalEnded, PWR_STATE_INIT_INDEX
  <2>. QED  BY <2>1, <2>2, <2>3 DEF OdometerComplete
<1>. QED  BY <1>1, StatesInvariant, PTL

\* The ids tftf_get_pstate_vars puts together tell the composite states of a level
\* apart and hold the local ids; it refuses exactly the states with a level that sleeps
\* more deeply than one below it, for tables of any size.
THEOREM IdsTellStatesApart == StatesSpec => []CompositeSound
<1>1. StatesInv => CompositeSound
  <2>. SUFFICES ASSUME StatesInv PROVE CompositeSound
    OBVIOUS
  <2>1. /\ plat_state \in StateTables /\ requested \in Seq(Answer)
        /\ \A k \in DOMAIN requested : Answered(requested[k])
    BY DEF StatesInv, BaseInv
  <2>2. ASSUME NEW j \in DOMAIN requested, NEW k \in DOMAIN requested,
               requested[j].id = requested[k].id, requested[j].level = requested[k].level
        PROVE  requested[j].idx = requested[k].idx
    <3>. PICK a : a = requested[j]
      OBVIOUS
    <3>. PICK b : b = requested[k]
      OBVIOUS
    <3>1. /\ a.level \in Levels /\ Names(a.idx, a.level) /\ Names(b.idx, a.level)
          /\ \A l \in 0 .. a.level : Loc(a.idx, l).id = Loc(b.idx, l).id
      BY <2>1, <2>2 DEF Answered
    <3>2. ASSUME NEW l \in Levels PROVE a.idx[l] = b.idx[l]
      <4>1. CASE l <= a.level
        <5>1. l \in 0 .. a.level
          BY <2>1, <3>1, <4>1, TableFacts DEF Levels
        <5>2. /\ a.idx[l] \in 0 .. Len(plat_state[l + 1]) - 1
              /\ b.idx[l] \in 0 .. Len(plat_state[l + 1]) - 1
          BY <3>1, <4>1 DEF Names
        <5>3. LocalState(l, a.idx[l]).id = LocalState(l, b.idx[l]).id
          BY <3>1, <5>1 DEF Loc
        <5>. QED  BY <2>1, <5>2, <5>3, TableFacts
      <4>2. CASE ~(l <= a.level)
        BY <3>1, <4>2 DEF Names
      <4>. QED  BY <4>1, <4>2
    <3>. QED  BY <3>1, <3>2 DEF Names
  <2>3. ASSUME NEW k \in DOMAIN requested
        PROVE  /\ requested[k].ok <=> \A l \in 1 .. requested[k].level :
                    LocalState(l, requested[k].idx[l]).depth <= LocalState(l - 1, requested[k].idx[l - 1]).depth
               /\ requested[k].type = IF \E l \in 0 .. requested[k].level :
                    LocalState(l, requested[k].idx[l]).pwrdown = 1 THEN 1 ELSE 0
               /\ \A l \in 0 .. requested[k].level :
                    (requested[k].id \div Unit[l]) % Width = LocalState(l, requested[k].idx[l]).id
    <3>1. Answered(requested[k])
      BY <2>1
    <3>. QED  BY <3>1, Zenon DEF Answered, Loc
  <2>. QED  BY <2>2, <2>3, Zenon DEF CompositeSound
<1>. QED  BY <1>1, StatesInvariant, PTL

-----------------------------------------------------------------------------
(* A loop that goes on to the first stop.                                    *)

Scanning(t, D, stop, val) == t = [p \in D |-> IF p \in stop THEN val[p] ELSE t[p + 1]]

\* The loop goes on within its domain.
Onward(D, stop) == \A p \in D : p \notin stop => p + 1 \in D

FirstFrom(q, p, stop) == q \in stop /\ q >= p /\ \A r \in stop : r >= p => q <= r

\* A loop that goes on until a stop comes to one.
LEMMA FirstExists ==
  ASSUME NEW max \in Nat, NEW D \in SUBSET (0 .. max), NEW stop \in SUBSET D,
         Onward(D, stop), NEW p \in D
  PROVE  \E q \in stop : FirstFrom(q, p, stop)
<1>. DEFINE E == {x \in D : x >= p}
<1>1. E \in SUBSET (0 .. max) /\ E # {}
  <2>1. p \in Int
    OBVIOUS
  <2>2. p \in E
    BY <2>1
  <2>. QED  BY <2>2
<1>2. PICK x \in E : \A y \in E : y <= x
  <2>. HIDE DEF E
  <2>. QED  BY <1>1, Greatest
<1>3. x \in stop
  <2>1. x + 1 \notin E
    BY <1>2
  <2>. QED  BY <2>1 DEF Onward
<1>. DEFINE F == {r \in stop : r >= p}
<1>4. F \in SUBSET Nat /\ F # {}
  <2>1. x \in F /\ stop \subseteq Nat
    BY <1>3
  <2>. QED  BY <2>1
<1>5. PICK q \in F : \A y \in F : q <= y
  <2>. HIDE DEF F
  <2>. QED  BY <1>4, Least
<1>. QED  BY <1>5 DEF FirstFrom

\* It comes to one stop only.
LEMMA FirstUnique ==
  ASSUME NEW stop \in SUBSET Nat, NEW p \in Nat, NEW q, NEW r, FirstFrom(q, p, stop), FirstFrom(r, p, stop)
  PROVE  q = r
BY DEF FirstFrom

\* The loop has a value everywhere in its domain.
LEMMA ScanExists ==
  ASSUME NEW max \in Nat, NEW D \in SUBSET (0 .. max), NEW stop \in SUBSET D, NEW val,
         Onward(D, stop)
  PROVE  \E t : Scanning(t, D, stop, val)
<1>. DEFINE first(p) == CHOOSE q \in stop : FirstFrom(q, p, stop)
            t == [p \in D |-> val[first(p)]]
<1>1. ASSUME NEW p \in D PROVE first(p) \in stop /\ FirstFrom(first(p), p, stop)
  BY FirstExists
<1>. HIDE DEF first
<1>2. D \subseteq Nat /\ stop \in SUBSET Nat
  OBVIOUS
<1>3. ASSUME NEW p \in D PROVE t[p] = IF p \in stop THEN val[p] ELSE t[p + 1]
  <2>1. CASE p \in stop
    <3>1. FirstFrom(p, p, stop)
      BY <1>2, <2>1 DEF FirstFrom
    <3>2. first(p) = p
      BY <1>1, <1>2, <3>1, FirstUnique
    <3>. QED  BY <2>1, <3>2
  <2>2. CASE p \notin stop
    <3>1. p + 1 \in D
      BY <2>2 DEF Onward
    <3>2. FirstFrom(first(p), p + 1, stop)
      <4>1. PICK q \in stop : q = first(p) /\ FirstFrom(q, p, stop)
        BY <1>1
      <4>2. q # p /\ q >= p /\ p \in Nat /\ q \in Nat
        BY <1>2, <2>2, <4>1 DEF FirstFrom
      <4>3. FirstFrom(q, p + 1, stop)
        BY <1>2, <4>1, <4>2 DEF FirstFrom
      <4>. QED  BY <4>1, <4>3
    <3>3. first(p) = first(p + 1)
      BY <1>1, <1>2, <3>1, <3>2, FirstUnique
    <3>. QED  BY <2>2, <3>1, <3>3
  <2>. QED  BY <2>1, <2>2
<1>4. Scanning(t, D, stop, val)
  BY <1>3 DEF Scanning
<1>. HIDE DEF t
<1>. QED  BY <1>4

Gives(t, p, val, q) == t[p] = val[q]

\* From any place of its domain the loop gives what belongs to the first stop.
LEMMA ScanValue ==
  ASSUME NEW max \in Nat, NEW D \in SUBSET (0 .. max), NEW stop \in SUBSET D, NEW val,
         Onward(D, stop), NEW t, Scanning(t, D, stop, val),
         NEW p \in D, NEW q \in stop, FirstFrom(q, p, stop)
  PROVE  Gives(t, p, val, q)
<1>. DEFINE bad == {x \in D : FirstFrom(q, x, stop) /\ t[x] # val[q]}
<1>1. ASSUME NEW x \in D PROVE t[x] = IF x \in stop THEN val[x] ELSE t[x + 1]
  BY DEF Scanning
<1>2. CASE bad # {}
  <2>0. bad \in SUBSET (0 .. max)
    OBVIOUS
  <2>1. PICK x \in bad : \A y \in bad : y <= x
    <3>. HIDE DEF bad
    <3>. QED  BY <1>2, <2>0, Greatest
  <2>2. x \in Nat /\ q \in Nat /\ FirstFrom(q, x, stop) /\ t[x] # val[q]
    <3>1. x \in D /\ FirstFrom(q, x, stop) /\ t[x] # val[q]
      OBVIOUS
    <3>. HIDE DEF bad
    <3>2. \A d \in D : d \in Nat
      OBVIOUS
    <3>3. q \in D
      OBVIOUS
    <3>4. x \in Nat /\ q \in Nat
      BY <3>1, <3>2, <3>3
    <3>. QED  BY <3>1, <3>4, Zenon
  <2>3. x \notin stop
    <3>1. ASSUME x \in stop PROVE x = q
      BY <2>2, <3>1 DEF FirstFrom
    <3>. QED  BY <1>1, <2>2, <3>1
  <2>4. x + 1 \in D /\ t[x + 1] = t[x]
    BY <1>1, <2>3 DEF Onward
  <2>5. FirstFrom(q, x + 1, stop)
    BY <2>2, <2>3 DEF FirstFrom
  <2>6. x + 1 \in bad
    BY <2>2, <2>4, <2>5
  <2>. QED  BY <2>1, <2>2, <2>6
<1>. QED  BY <1>2 DEF Gives

\* The loop gives at p what belongs to q.
Finds(q, p, D, stop, val) ==
  /\ q \in stop /\ FirstFrom(q, p, stop)
  /\ \E t : Scanning(t, D, stop, val)
  /\ \A t : Scanning(t, D, stop, val) => t[p] = val[q]

\* So from every place the loop finds a first stop, and gives what belongs to it.
LEMMA ScanFinds ==
  ASSUME NEW max \in Nat, NEW D \in SUBSET (0 .. max), NEW stop \in SUBSET D, NEW val,
         Onward(D, stop), NEW p \in D
  PROVE  \E q : Finds(q, p, D, stop, val)
<1>1. PICK q \in stop : FirstFrom(q, p, stop)
  BY FirstExists
<1>2. \E t : Scanning(t, D, stop, val)
  BY ScanExists
<1>3. ASSUME NEW t, Scanning(t, D, stop, val) PROVE t[p] = val[q]
  <2>1. Gives(t, p, val, q)
    BY <1>1, <1>3, ScanValue
  <2>. QED  BY <2>1 DEF Gives
<1>. QED  BY <1>1, <1>2, <1>3 DEF Finds

-----------------------------------------------------------------------------
(* Strings.                                                                  *)

Memory == [Cell -> 0 .. 255]

\* The length of the string at s in the memory m.
IsLength(m, s, len) ==
  len \in Nat /\ s + len \in Cell /\ m[s + len] = 0 /\ \A j \in 0 .. len - 1 : m[s + j] # 0

\* A string has a length.
LEMMA LengthExists ==
  ASSUME NEW m \in Memory, NEW s \in Cell, StringAt(m, s)
  PROVE  \E len \in Nat : IsLength(m, s, len)
<1>. DEFINE Z == {k \in Nat : s + k \in Cell /\ m[s + k] = 0}
<1>1. Z \in SUBSET Nat /\ Z # {}
  <2>1. PICK c \in Cell : c >= s /\ m[c] = 0
    BY DEF StringAt
  <2>2. c - s \in Nat /\ s + (c - s) = c
    BY <2>1, MemoryAssumption DEF Cell
  <2>3. c - s \in Z
    BY <2>1, <2>2
  <2>. QED  BY <2>3
<1>2. PICK k \in Z : \A j \in Z : k <= j
  <2>. HIDE DEF Z
  <2>. QED  BY <1>1, Least
<1>3. ASSUME NEW j \in 0 .. k - 1 PROVE m[s + j] # 0
  <2>1. j \in Nat /\ j < k /\ s + j \in Cell
    BY MemoryAssumption DEF Cell
  <2>. QED  BY <1>2, <2>1
<1>. QED  BY <1>3 DEF IsLength

\* A string has one length only.
LEMMA LengthUnique ==
  ASSUME NEW m, NEW s, NEW len, NEW k, IsLength(m, s, len), k \in Nat, m[s + k] = 0,
         \A j \in 0 .. k - 1 : m[s + j] # 0
  PROVE  k = len
<1>1. len \in Nat /\ m[s + len] = 0 /\ \A j \in 0 .. len - 1 : m[s + j] # 0
  BY DEF IsLength
<1>2. ~(k < len)
  BY <1>1
<1>3. ~(len < k)
  BY <1>1
<1>. QED  BY <1>1, <1>2, <1>3

\* Until the terminator the next character begins a string too.
LEMMA StringsBelow ==
  ASSUME NEW m \in Memory
  PROVE  /\ Size - 1 \in Nat /\ Strings(m) \in SUBSET (0 .. Size - 1)
         /\ \A p \in Strings(m) : m[p] # 0 => p + 1 \in Strings(m)
<1>1. Size - 1 \in Nat /\ Cell = 0 .. Size - 1
  BY MemoryAssumption DEF Cell
<1>2. ASSUME NEW p \in Strings(m), m[p] # 0 PROVE p + 1 \in Strings(m)
  <2>1. PICK c \in Cell : c >= p /\ m[c] = 0
    BY DEF Strings, StringAt
  <2>2. c >= p + 1 /\ p + 1 \in Cell
    BY <1>1, <1>2, <2>1 DEF Strings
  <2>. QED  BY <2>1, <2>2 DEF Strings, StringAt
<1>. QED  BY <1>1, <1>2 DEF Strings

\* From any of its characters strlen's loop ends at the terminator.
LEMMA SkipEnds ==
  ASSUME NEW m \in Memory, NEW s \in Cell, NEW len, IsLength(m, s, len), NEW i \in 0 .. len
  PROVE  Skip(m, s + i) = s + len
<1>. DEFINE Is(t) == t = [p \in Strings(m) |-> IF m[p] = 0 THEN p ELSE t[p + 1]]
            val == [p \in Strings(m) |-> p]
            stop == {p \in Strings(m) : m[p] = 0}
<1>1. Skip(m, s + i) = (CHOOSE t : Is(t))[s + i]
  BY DEF Skip
<1>2. \A t : Is(t) <=> Scanning(t, Strings(m), stop, val)
  <2>. SUFFICES ASSUME NEW t PROVE Is(t) <=> Scanning(t, Strings(m), stop, val)
    OBVIOUS
  <2>1. [p \in Strings(m) |-> IF m[p] = 0 THEN p ELSE t[p + 1]]
          = [p \in Strings(m) |-> IF p \in stop THEN val[p] ELSE t[p + 1]]
    OBVIOUS
  <2>. QED  BY <2>1 DEF Scanning
<1>3. /\ len \in Nat /\ s \in Nat /\ s + len \in Cell /\ m[s + len] = 0
      /\ \A j \in 0 .. len - 1 : m[s + j] # 0
  BY MemoryAssumption DEF IsLength, Cell
<1>4. s + i \in Strings(m) /\ s + len \in stop
  <2>1. s + i \in Cell /\ s + len >= s + i
    BY <1>3, MemoryAssumption DEF Cell
  <2>2. s + len >= s + len
    BY <1>3
  <2>. QED  BY <1>3, <2>1, <2>2 DEF Strings, StringAt
<1>5. PICK max \in Nat : Strings(m) \in SUBSET (0 .. max)
  BY StringsBelow
<1>6. stop \in SUBSET Strings(m) /\ Onward(Strings(m), stop)
  BY StringsBelow DEF Onward
<1>7. PICK a : a = s + i
  OBVIOUS
<1>8. PICK q : Finds(q, a, Strings(m), stop, val)
  <2>. HIDE DEF val, stop
  <2>. QED  BY <1>4, <1>5, <1>6, <1>7, ScanFinds
<1>9. q = s + len
  <2>1. q \in stop /\ q >= s + i /\ q <= s + len /\ q \in Int
    <3>1. s + len >= s + i
      BY <1>3
    <3>. QED  BY <1>4, <1>5, <1>7, <1>8, <3>1 DEF Finds, FirstFrom
  <2>2. ASSUME q # s + len PROVE FALSE
    <3>1. q - s \in 0 .. len - 1 /\ s + (q - s) = q
      BY <1>3, <2>1, <2>2
    <3>. QED  BY <1>3, <2>1, <3>1
  <2>. QED  BY <2>2
<1>10. val[q] = s + len
  BY <1>4, <1>9
<1>. HIDE DEF Is, val, stop
<1>. DEFINE u == CHOOSE t : Is(t)
<1>11. Is(u)
  BY <1>2, <1>8 DEF Finds
<1>12. u[a] = val[q]
  <2>. HIDE DEF u
  <2>. QED  BY <1>2, <1>8, <1>11 DEF Finds
<1>. QED  BY <1>1, <1>7, <1>10, <1>12

-----------------------------------------------------------------------------
(* Searching.                                                                *)

Hits(m, s, n, char) == {p \in s .. s + n - 1 : m[p] = char}

FirstHit(r, hits) == IF hits = {} THEN r = NULL ELSE r \in hits /\ \A p \in hits : p >= r

LastHit(r, hits) == IF hits = {} THEN r = NULL ELSE r \in hits /\ \A p \in hits : p <= r

\* memchr gives the first of the cells with the character, or NULL.
LEMMA MemChrFinds ==
  ASSUME NEW m, NEW s \in Nat, NEW c, NEW n \in Nat
  PROVE  FirstHit(MemChr(m, s, c, n), Hits(m, s, n, c % 256))
<1>. PICK char : char = c % 256
  OBVIOUS
<1>. DEFINE Is(t) == t = [k \in 0 .. n |-> IF k = n THEN NULL ELSE IF m[s + k] = char THEN s + k ELSE t[k + 1]]
            val == [k \in 0 .. n |-> IF k = n THEN NULL ELSE s + k]
            stop == {k \in 0 .. n : k = n \/ m[s + k] = char}
<1>1. MemChr(m, s, c, n) = (CHOOSE t : Is(t))[0]
  BY DEF MemChr
<1>2. \A t : Is(t) <=> Scanning(t, 0 .. n, stop, val)
  <2>. SUFFICES ASSUME NEW t PROVE Is(t) <=> Scanning(t, 0 .. n, stop, val)
    OBVIOUS
  <2>1. [k \in 0 .. n |-> IF k = n THEN NULL ELSE IF m[s + k] = char THEN s + k ELSE t[k + 1]]
          = [k \in 0 .. n |-> IF k \in stop THEN val[k] ELSE t[k + 1]]
    OBVIOUS
  <2>. QED  BY <2>1 DEF Scanning
<1>3. stop \in SUBSET (0 .. n) /\ Onward(0 .. n, stop) /\ 0 \in 0 .. n
  BY DEF Onward
<1>4. PICK q : Finds(q, 0, 0 .. n, stop, val)
  <2>. HIDE DEF val, stop
  <2>. QED  BY <1>3, ScanFinds
<1>5. FirstHit(val[q], Hits(m, s, n, char))
  <2>1. q \in stop /\ q \in 0 .. n /\ \A r \in stop : r >= 0 => q <= r
    BY <1>4 DEF Finds, FirstFrom
  <2>2. ASSUME NEW p \in Hits(m, s, n, char) PROVE p >= s + q /\ q # n
    <3>1. p - s \in 0 .. n - 1 /\ s + (p - s) = p /\ m[p] = char
      BY DEF Hits
    <3>2. p - s \in stop /\ p - s >= 0
      BY <3>1
    <3>3. q <= p - s
      BY <2>1, <3>2
    <3>. QED  BY <2>1, <3>1, <3>3
  <2>3. CASE q = n
    BY <2>2, <2>3 DEF FirstHit
  <2>4. CASE q # n
    <3>1. m[s + q] = char
      BY <2>1, <2>4
    <3>2. s + q \in Hits(m, s, n, char)
      BY <2>1, <2>4, <3>1 DEF Hits
    <3>3. val[q] = s + q
      BY <2>1, <2>4
    <3>. QED  BY <2>2, <3>2, <3>3 DEF FirstHit
  <2>. QED  BY <2>3, <2>4
<1>. HIDE DEF Is, val, stop
<1>. DEFINE u == CHOOSE t : Is(t)
<1>6. Is(u)
  BY <1>2, <1>4 DEF Finds
<1>7. u[0] = val[q]
  <2>. HIDE DEF u
  <2>. QED  BY <1>2, <1>4, <1>6 DEF Finds
<1>. QED  BY <1>1, <1>5, <1>7

\* strnlen gives the length, cut to maxlen.
LEMMA StrNLenFinds ==
  ASSUME NEW m, NEW s \in Nat, NEW len, IsLength(m, s, len), NEW n \in Nat
  PROVE  StrNLen(m, s, n) = Smaller(len, n)
<1>. DEFINE Is(t) == t = [k \in 0 .. n |-> IF k = n \/ m[s + k] = 0 THEN k ELSE t[k + 1]]
            val == [k \in 0 .. n |-> k]
            stop == {k \in 0 .. n : k = n \/ m[s + k] = 0}
<1>1. StrNLen(m, s, n) = (CHOOSE t : Is(t))[0]
  BY DEF StrNLen
<1>2. \A t : Is(t) <=> Scanning(t, 0 .. n, stop, val)
  <2>. SUFFICES ASSUME NEW t PROVE Is(t) <=> Scanning(t, 0 .. n, stop, val)
    OBVIOUS
  <2>1. [k \in 0 .. n |-> IF k = n \/ m[s + k] = 0 THEN k ELSE t[k + 1]]
          = [k \in 0 .. n |-> IF k \in stop THEN val[k] ELSE t[k + 1]]
    OBVIOUS
  <2>. QED  BY <2>1 DEF Scanning
<1>3. stop \in SUBSET (0 .. n) /\ Onward(0 .. n, stop) /\ 0 \in 0 .. n
  BY DEF Onward
<1>4. PICK q : Finds(q, 0, 0 .. n, stop, val)
  <2>. HIDE DEF val, stop
  <2>. QED  BY <1>3, ScanFinds
<1>5. val[q] = Smaller(len, n)
  <2>1. q \in stop /\ q \in 0 .. n /\ \A r \in stop : r >= 0 => q <= r
    BY <1>4 DEF Finds, FirstFrom
  <2>2. len \in Nat /\ m[s + len] = 0 /\ \A j \in 0 .. len - 1 : m[s + j] # 0
    BY DEF IsLength
  <2>3. CASE len < n
    <3>1. len \in stop
      BY <2>2, <2>3
    <3>2. q = len
      <4>1. q <= len /\ q \in Nat
        BY <2>1, <2>2, <3>1
      <4>2. q # n /\ m[s + q] = 0
        BY <2>1, <2>2, <2>3, <4>1
      <4>3. ~(q < len)
        BY <2>2, <4>1, <4>2
      <4>. QED  BY <2>2, <4>1, <4>3
    <3>. QED  BY <2>1, <2>3, <3>2 DEF Smaller
  <2>4. CASE ~(len < n)
    <3>1. q = n
      BY <2>1, <2>2, <2>4
    <3>. QED  BY <2>4, <3>1 DEF Smaller
  <2>. QED  BY <2>3, <2>4
<1>. HIDE DEF Is, val, stop
<1>. DEFINE u == CHOOSE t : Is(t)
<1>6. Is(u)
  BY <1>2, <1>4 DEF Finds
<1>7. u[0] = val[q]
  <2>. HIDE DEF u
  <2>. QED  BY <1>2, <1>4, <1>6 DEF Finds
<1>. QED  BY <1>1, <1>5, <1>7

\* strchr gives the first hit, the terminator included.
LEMMA StrChrFinds ==
  ASSUME NEW m \in Memory, NEW s \in Cell, NEW c, NEW len, IsLength(m, s, len)
  PROVE  FirstHit(StrChr(m, s, c), Hits(m, s, len + 1, c % 256))
<1>. PICK char : char = c % 256
  OBVIOUS
<1>. DEFINE Is(t) == t = [q \in Strings(m) |-> IF m[q] = char THEN q ELSE IF m[q] = 0 THEN NULL ELSE t[q + 1]]
            val == [q \in Strings(m) |-> IF m[q] = char THEN q ELSE NULL]
            stop == {q \in Strings(m) : m[q] = char \/ m[q] = 0}
<1>1. StrChr(m, s, c) = (CHOOSE t : Is(t))[s]
  BY DEF StrChr
<1>2. \A t : Is(t) <=> Scanning(t, Strings(m), stop, val)
  <2>. SUFFICES ASSUME NEW t PROVE Is(t) <=> Scanning(t, Strings(m), stop, val)
    OBVIOUS
  <2>1. [q \in Strings(m) |-> IF m[q] = char THEN q ELSE IF m[q] = 0 THEN NULL ELSE t[q + 1]]
          = [q \in Strings(m) |-> IF q \in stop THEN val[q] ELSE t[q + 1]]
    OBVIOUS
  <2>. QED  BY <2>1 DEF Scanning
<1>3. PICK max \in Nat : Strings(m) \in SUBSET (0 .. max)
  BY StringsBelow
<1>4. stop \in SUBSET Strings(m) /\ Onward(Strings(m), stop)
  BY StringsBelow DEF Onward
<1>5. /\ len \in Nat /\ s \in Nat /\ s + len \in Cell /\ m[s + len] = 0
      /\ \A j \in 0 .. len - 1 : m[s + j] # 0
  BY MemoryAssumption DEF IsLength, Cell
<1>6. s \in Strings(m) /\ s + len \in stop
  <2>1. s + len >= s /\ s + len >= s + len
    BY <1>5
  <2>. QED  BY <1>5, <2>1 DEF Strings, StringAt
<1>7. PICK q : Finds(q, s, Strings(m), stop, val)
  <2>. HIDE DEF val, stop
  <2>. QED  BY <1>3, <1>4, <1>6, ScanFinds
<1>8. FirstHit(val[q], Hits(m, s, len + 1, char))
  <2>1. q \in stop /\ q \in Strings(m) /\ q >= s /\ \A r \in stop : r >= s => q <= r
    BY <1>7 DEF Finds, FirstFrom
  <2>2. q \in s .. s + len
    <3>1. s + len >= s
      BY <1>5
    <3>. QED  BY <1>3, <1>5, <1>6, <2>1, <3>1
  <2>3. ASSUME NEW p \in Hits(m, s, len + 1, char) PROVE p >= q
    <3>1. p \in s .. s + len /\ m[p] = char
      BY <1>5 DEF Hits
    <3>2. p \in Strings(m)
      <4>1. p \in Cell /\ s + len >= p
        BY <1>5, <3>1, MemoryAssumption DEF Cell
      <4>. QED  BY <1>5, <4>1 DEF Strings, StringAt
    <3>3. p \in stop /\ p >= s
      BY <3>1, <3>2
    <3>. QED  BY <2>1, <2>2, <3>1, <3>3
  <2>4. CASE m[q] = char
    <3>1. q \in Hits(m, s, len + 1, char)
      BY <1>5, <2>2, <2>4 DEF Hits
    <3>2. val[q] = q
      BY <2>1, <2>4
    <3>. QED  BY <2>3, <3>1, <3>2 DEF FirstHit
  <2>5. CASE m[q] # char
    <3>1. m[q] = 0 /\ val[q] = NULL
      BY <2>1, <2>5
    <3>2. q = s + len
      <4>1. CASE q # s + len
        <5>1. q - s \in 0 .. len - 1 /\ s + (q - s) = q
          BY <1>5, <2>2, <4>1
        <5>. QED  BY <1>5, <3>1, <5>1
      <4>. QED  BY <4>1
    <3>3. Hits(m, s, len + 1, char) = {}
      <4>1. ASSUME NEW p \in Hits(m, s, len + 1, char) PROVE FALSE
        <5>1. p \in s .. s + len /\ m[p] = char
          BY <1>5 DEF Hits
        <5>2. p = q
          BY <2>3, <3>2, <5>1, <1>5
        <5>. QED  BY <2>5, <5>1, <5>2
      <4>. QED  BY <4>1
    <3>. QED  BY <3>1, <3>3 DEF FirstHit
  <2>. QED  BY <2>4, <2>5
<1>. HIDE DEF Is, val, stop
<1>. DEFINE u == CHOOSE t : Is(t)
<1>9. Is(u)
  BY <1>2, <1>7 DEF Finds
<1>10. u[s] = val[q]
  <2>. HIDE DEF u
  <2>. QED  BY <1>2, <1>7, <1>9 DEF Finds
<1>. QED  BY <1>1, <1>8, <1>10

-----------------------------------------------------------------------------
(* Comparing.                                                                *)

DifferAt(m, s, d, n) == {k \in 0 .. n - 1 : m[s + k] # m[d + k]}

\* r is the difference at the first place that differs.
Compares(r, m, s, d, n) ==
  IF DifferAt(m, s, d, n) = {} THEN r = 0
  ELSE \E k \in DifferAt(m, s, d, n) : (\A j \in DifferAt(m, s, d, n) : k <= j) /\ r = m[s + k] - m[d + k]

\* memcmp gives the difference of the first cells that differ.
LEMMA MemCmpFinds ==
  ASSUME NEW m, NEW s \in Nat, NEW d \in Nat, NEW n \in Nat
  PROVE  Compares(MemCmp(m, s, d, n), m, s, d, n)
<1>. DEFINE Is(t) == t = [k \in 0 .. n |-> IF k = n THEN 0
                                           ELSE IF m[s + k] # m[d + k] THEN m[s + k] - m[d + k] ELSE t[k + 1]]
            val == [k \in 0 .. n |-> IF k = n THEN 0 ELSE m[s + k] - m[d + k]]
            stop == {k \in 0 .. n : k = n \/ m[s + k] # m[d + k]}
<1>1. MemCmp(m, s, d, n) = (CHOOSE t : Is(t))[0]
  BY DEF MemCmp
<1>2. \A t : Is(t) <=> Scanning(t, 0 .. n, stop, val)
  <2>. SUFFICES ASSUME NEW t PROVE Is(t) <=> Scanning(t, 0 .. n, stop, val)
    OBVIOUS
  <2>1. [k \in 0 .. n |-> IF k = n THEN 0 ELSE IF m[s + k] # m[d + k] THEN m[s + k] - m[d + k] ELSE t[k + 1]]
          = [k \in 0 .. n |-> IF k \in stop THEN val[k] ELSE t[k + 1]]
    OBVIOUS
  <2>. QED  BY <2>1 DEF Scanning
<1>3. stop \in SUBSET (0 .. n) /\ Onward(0 .. n, stop) /\ 0 \in 0 .. n
  BY DEF Onward
<1>4. PICK q : Finds(q, 0, 0 .. n, stop, val)
  <2>. HIDE DEF val, stop
  <2>. QED  BY <1>3, ScanFinds
<1>5. Compares(val[q], m, s, d, n)
  <2>1. q \in stop /\ q \in 0 .. n /\ \A r \in stop : r >= 0 => q <= r
    BY <1>4 DEF Finds, FirstFrom
  <2>2. \A k \in DifferAt(m, s, d, n) : q <= k
    BY <2>1 DEF DifferAt
  <2>3. CASE q = n
    <3>1. DifferAt(m, s, d, n) = {}
      BY <2>2, <2>3 DEF DifferAt
    <3>. QED  BY <2>3, <3>1 DEF Compares
  <2>4. CASE q # n
    <3>1. q \in DifferAt(m, s, d, n) /\ val[q] = m[s + q] - m[d + q]
      BY <2>1, <2>4 DEF DifferAt
    <3>. QED  BY <2>2, <3>1 DEF Compares
  <2>. QED  BY <2>3, <2>4
<1>. HIDE DEF Is, val, stop
<1>. DEFINE u == CHOOSE t : Is(t)
<1>6. Is(u)
  BY <1>2, <1>4 DEF Finds
<1>7. u[0] = val[q]
  <2>. HIDE DEF u
  <2>. QED  BY <1>2, <1>4, <1>6 DEF Finds
<1>. QED  BY <1>1, <1>5, <1>7

\* Where the loops of strcmp and strncmp stop, if they go that far.
Stop(m, s, d, k) == m[s + k] # m[d + k] \/ m[s + k] = 0

\* Up to the shorter of the two strings, the first stop decides.
LEMMA FirstStopDecides ==
  ASSUME NEW m, NEW s \in Nat, NEW d \in Nat, NEW ls, IsLength(m, s, ls), NEW ld, IsLength(m, d, ld),
         NEW q \in Nat, Stop(m, s, d, q), \A k \in 0 .. q - 1 : ~Stop(m, s, d, k)
  PROVE  /\ q <= ls /\ q <= ld
         /\ m[s + q] = m[d + q] => q = ls /\ q = ld
<1>1. /\ ls \in Nat /\ m[s + ls] = 0 /\ \A j \in 0 .. ls - 1 : m[s + j] # 0
      /\ ld \in Nat /\ m[d + ld] = 0 /\ \A j \in 0 .. ld - 1 : m[d + j] # 0
  BY DEF IsLength
<1>2. Stop(m, s, d, ls) /\ Stop(m, s, d, ld)
  BY <1>1 DEF Stop
<1>3. q <= ls /\ q <= ld
  BY <1>1, <1>2
<1>4. ASSUME m[s + q] = m[d + q] PROVE q = ls /\ q = ld
  <2>1. m[s + q] = 0 /\ m[d + q] = 0
    BY <1>4 DEF Stop
  <2>. QED  BY <1>1, <1>3, <2>1
<1>. QED  BY <1>3, <1>4

\* strncmp compares up to the end of the shorter string, or n.
LEMMA StrNCmpFinds ==
  ASSUME NEW m, NEW s \in Nat, NEW d \in Nat, NEW n \in Nat,
         NEW ls, IsLength(m, s, ls), NEW ld, IsLength(m, d, ld)
  PROVE  Compares(StrNCmp(m, s, d, n), m, s, d, Smaller(n, 1 + Smaller(ls, ld)))
<1>. DEFINE Is(t) == t = [k \in 0 .. n |-> IF k = n THEN 0
                            ELSE IF m[s + k] # m[d + k] THEN m[s + k] - m[d + k]
                            ELSE IF m[s + k] = 0 THEN 0 ELSE t[k + 1]]
            val == [k \in 0 .. n |-> IF k = n THEN 0 ELSE IF m[s + k] # m[d + k] THEN m[s + k] - m[d + k] ELSE 0]
            stop == {k \in 0 .. n : k = n \/ Stop(m, s, d, k)}
<1>1. StrNCmp(m, s, d, n) = (CHOOSE t : Is(t))[0]
  BY DEF StrNCmp
<1>2. \A t : Is(t) <=> Scanning(t, 0 .. n, stop, val)
  <2>. SUFFICES ASSUME NEW t PROVE Is(t) <=> Scanning(t, 0 .. n, stop, val)
    OBVIOUS
  <2>1. [k \in 0 .. n |-> IF k = n THEN 0
                            ELSE IF m[s + k] # m[d + k] THEN m[s + k] - m[d + k]
                            ELSE IF m[s + k] = 0 THEN 0 ELSE t[k + 1]]
          = [k \in 0 .. n |-> IF k \in stop THEN val[k] ELSE t[k + 1]]
    BY DEF Stop
  <2>. QED  BY <2>1 DEF Scanning
<1>3. stop \in SUBSET (0 .. n) /\ Onward(0 .. n, stop) /\ 0 \in 0 .. n
  BY DEF Onward
<1>4. PICK q : Finds(q, 0, 0 .. n, stop, val)
  <2>. HIDE DEF val, stop
  <2>. QED  BY <1>3, ScanFinds
<1>5. ls \in Nat /\ ld \in Nat
  BY DEF IsLength
<1>6. PICK z \in Nat : z = Smaller(n, 1 + Smaller(ls, ld)) /\ z <= n /\ z <= ls + 1 /\ z <= ld + 1
                       /\ (z = n \/ z = ls + 1 \/ z = ld + 1)
  BY <1>5 DEF Smaller
<1>7. Compares(val[q], m, s, d, z)
  <2>1. q \in stop /\ q \in 0 .. n /\ \A r \in stop : r >= 0 => q <= r
    BY <1>4 DEF Finds, FirstFrom
  <2>2. \A k \in DifferAt(m, s, d, z) : q <= k /\ k < n
    BY <1>6, <2>1 DEF DifferAt, Stop
  <2>3. CASE q = n
    <3>1. DifferAt(m, s, d, z) = {}
      BY <1>6, <2>2, <2>3 DEF DifferAt
    <3>. QED  BY <2>3, <3>1 DEF Compares
  <2>4. CASE q # n
    <3>1. /\ q <= ls /\ q <= ld
          /\ m[s + q] = m[d + q] => q = ls /\ q = ld
      <4>1. \A k \in 0 .. q - 1 : ~Stop(m, s, d, k)
        BY <2>1
      <4>2. Stop(m, s, d, q) /\ q \in Nat
        BY <2>1, <2>4
      <4>. QED  BY <4>1, <4>2, FirstStopDecides
    <3>2. CASE m[s + q] # m[d + q]
      <4>1. q \in 0 .. z - 1
        BY <1>5, <1>6, <2>1, <2>4, <3>1
      <4>2. q \in DifferAt(m, s, d, z) /\ val[q] = m[s + q] - m[d + q]
        BY <2>1, <2>4, <3>2, <4>1 DEF DifferAt
      <4>. QED  BY <2>2, <4>2 DEF Compares
    <3>3. CASE m[s + q] = m[d + q]
      <4>1. ASSUME NEW k \in DifferAt(m, s, d, z) PROVE FALSE
        <5>1. k = q
          BY <1>5, <1>6, <2>2, <3>1, <3>3 DEF DifferAt
        <5>. QED  BY <3>3, <5>1 DEF DifferAt
      <4>2. val[q] = 0
        BY <2>1, <2>4, <3>3
      <4>. QED  BY <4>1, <4>2 DEF Compares
    <3>. QED  BY <3>2, <3>3
  <2>. QED  BY <2>3, <2>4
<1>. HIDE DEF Is, val, stop
<1>. DEFINE u == CHOOSE t : Is(t)
<1>8. Is(u)
  BY <1>2, <1>4 DEF Finds
<1>9. u[0] = val[q]
  <2>. HIDE DEF u
  <2>. QED  BY <1>2, <1>4, <1>8 DEF Finds
<1>. QED  BY <1>1, <1>6, <1>7, <1>9

\* strcmp compares up to the end of the shorter string.
LEMMA StrCmpFinds ==
  ASSUME NEW m \in Memory, NEW s \in Cell, NEW d \in Cell,
         NEW ls, IsLength(m, s, ls), NEW ld, IsLength(m, d, ld)
  PROVE  Compares(StrCmp(m, s, d), m, s, d, Smaller(Size, 1 + Smaller(ls, ld)))
<1>. DEFINE D == {j \in Cell : StringAt(m, s + j) /\ StringAt(m, d + j)}
            Is(t) == t = [k \in D |-> IF m[s + k] # m[d + k] THEN m[s + k] - m[d + k]
                                      ELSE IF m[s + k] = 0 THEN 0 ELSE t[k + 1]]
            val == [k \in D |-> IF m[s + k] # m[d + k] THEN m[s + k] - m[d + k] ELSE 0]
            stop == {k \in D : Stop(m, s, d, k)}
<1>1. StrCmp(m, s, d) = (CHOOSE t : Is(t))[0]
  BY DEF StrCmp
<1>2. \A t : Is(t) <=> Scanning(t, D, stop, val)
  <2>. SUFFICES ASSUME NEW t PROVE Is(t) <=> Scanning(t, D, stop, val)
    OBVIOUS
  <2>1. [k \in D |-> IF m[s + k] # m[d + k] THEN m[s + k] - m[d + k]
                     ELSE IF m[s + k] = 0 THEN 0 ELSE t[k + 1]]
          = [k \in D |-> IF k \in stop THEN val[k] ELSE t[k + 1]]
    BY DEF Stop
  <2>. QED  BY <2>1 DEF Scanning
<1>3. /\ ls \in Nat /\ s + ls \in Cell /\ m[s + ls] = 0 /\ \A j \in 0 .. ls - 1 : m[s + j] # 0
      /\ ld \in Nat /\ d + ld \in Cell /\ m[d + ld] = 0 /\ \A j \in 0 .. ld - 1 : m[d + j] # 0
      /\ s \in Nat /\ d \in Nat /\ Size \in Nat \ {0}
  BY MemoryAssumption DEF IsLength, Cell
<1>4. PICK max \in Nat : D \in SUBSET (0 .. max) /\ Cell = 0 .. max
  <2>1. Size - 1 \in Nat /\ Cell = 0 .. Size - 1
    BY <1>3 DEF Cell
  <2>. QED  BY <2>1
<1>5. Onward(D, stop)
  <2>1. ASSUME NEW k \in D, k \notin stop PROVE k + 1 \in D
    <3>1. k \in Nat /\ m[s + k] # 0 /\ m[d + k] # 0
      BY <1>4, <2>1 DEF Stop
    <3>2. PICK c \in Cell : c >= s + k /\ m[c] = 0
      BY DEF StringAt
    <3>3. PICK e \in Cell : e >= d + k /\ m[e] = 0
      BY DEF StringAt
    <3>4. c # s + k /\ e # d + k
      BY <3>1, <3>2, <3>3
    <3>5. c >= s + (k + 1) /\ e >= d + (k + 1) /\ k + 1 \in Cell
      BY <1>3, <1>4, <3>1, <3>2, <3>3, <3>4
    <3>. QED  BY <3>2, <3>3, <3>5 DEF StringAt
  <2>. QED  BY <2>1 DEF Onward
<1>6. ASSUME NEW k \in Nat, k <= ls, k <= ld PROVE k \in D
  <2>1. k \in Cell /\ s + ls >= s + k /\ d + ld >= d + k
    BY <1>3, <1>4, <1>6
  <2>. QED  BY <1>3, <2>1 DEF StringAt
<1>7. PICK q : Finds(q, 0, D, stop, val)
  <2>1. 0 \in D /\ stop \in SUBSET D
    BY <1>3, <1>6
  <2>. HIDE DEF D, val, stop
  <2>. QED  BY <1>4, <1>5, <2>1, ScanFinds
<1>8. PICK z \in Nat : z = Smaller(Size, 1 + Smaller(ls, ld)) /\ z <= ls + 1 /\ z <= ld + 1
                       /\ (z = ls + 1 \/ z = ld + 1)
  <2>1. ls + 1 <= Size /\ ld + 1 <= Size
    BY <1>3 DEF Cell
  <2>. QED  BY <1>3, <2>1 DEF Smaller
<1>9. Compares(val[q], m, s, d, z)
  <2>1. q \in stop /\ q \in Nat /\ q \in D /\ \A r \in stop : r >= 0 => q <= r
    BY <1>4, <1>7 DEF Finds, FirstFrom
  <2>2. /\ q <= ls /\ q <= ld
        /\ m[s + q] = m[d + q] => q = ls /\ q = ld
    <3>1. ASSUME NEW k \in 0 .. q - 1, Stop(m, s, d, k) PROVE FALSE
      <4>1. CASE k <= ls /\ k <= ld
        <5>1. k \in stop /\ k >= 0
          BY <1>6, <3>1, <4>1
        <5>. QED  BY <2>1, <5>1
      <4>2. CASE ~(k <= ls /\ k <= ld)
        <5>1. ls \in Nat /\ ld \in Nat
          BY <1>3
        <5>2. CASE ls <= ld
          <6>1. ls \in D /\ Stop(m, s, d, ls) /\ ls < k
            BY <1>3, <1>6, <4>2, <5>2 DEF Stop
          <6>2. q <= ls
            BY <1>3, <2>1, <6>1
          <6>. QED  BY <1>3, <2>1, <6>1, <6>2
        <5>3. CASE ~(ls <= ld)
          <6>1. ld \in D /\ Stop(m, s, d, ld) /\ ld < k
            BY <1>3, <1>6, <4>2, <5>3 DEF Stop
          <6>2. q <= ld
            BY <1>3, <2>1, <6>1
          <6>. QED  BY <1>3, <2>1, <6>1, <6>2
        <5>. QED  BY <5>2, <5>3
      <4>. QED  BY <4>1, <4>2
    <3>2. Stop(m, s, d, q)
      BY <2>1
    <3>. QED  BY <1>3, <2>1, <3>1, <3>2, FirstStopDecides
  <2>3. \A k \in DifferAt(m, s, d, z) : q <= k
    <3>1. ASSUME NEW k \in DifferAt(m, s, d, z) PROVE q <= k
      <4>1. k \in Nat /\ k <= ls /\ k <= ld /\ Stop(m, s, d, k)
        BY <1>3, <1>8 DEF DifferAt, Stop
      <4>2. k \in stop
        BY <1>6, <4>1
      <4>. QED  BY <2>1, <4>1, <4>2
    <3>. QED  BY <3>1
  <2>4. CASE m[s + q] # m[d + q]
    <3>1. q \in 0 .. z - 1
      BY <1>3, <1>8, <2>1, <2>2
    <3>2. q \in DifferAt(m, s, d, z) /\ val[q] = m[s + q] - m[d + q]
      BY <2>1, <2>4, <3>1 DEF DifferAt
    <3>. QED  BY <2>3, <3>2 DEF Compares
  <2>5. CASE m[s + q] = m[d + q]
    <3>1. ASSUME NEW k \in DifferAt(m, s, d, z) PROVE FALSE
      <4>1. k = q
        BY <1>3, <1>8, <2>2, <2>3, <2>5 DEF DifferAt
      <4>. QED  BY <2>5, <4>1 DEF DifferAt
    <3>2. val[q] = 0
      BY <2>1, <2>5
    <3>. QED  BY <3>1, <3>2 DEF Compares
  <2>. QED  BY <2>4, <2>5
<1>. HIDE DEF Is, val, stop, D
<1>. DEFINE u == CHOOSE t : Is(t)
<1>10. Is(u)
  BY <1>2, <1>7 DEF Finds
<1>11. u[0] = val[q]
  <2>. HIDE DEF u
  <2>. QED  BY <1>2, <1>7, <1>10 DEF Finds
<1>. QED  BY <1>1, <1>8, <1>9, <1>11

\* save is always the last occurrence so far.
LEMMA StrRChrFinds ==
  ASSUME NEW m \in Memory, NEW s \in Cell, NEW c, NEW len, IsLength(m, s, len)
  PROVE  LastHit(StrRChr(m, s, c), Hits(m, s, len + 1, c % 256))
<1>. PICK char : char = c % 256
  OBVIOUS
<1>1. len \in Nat /\ s \in Nat
  BY MemoryAssumption DEF IsLength, Cell
<1>. DEFINE n == len + 1
            Is(t) == t = [k \in 0 .. n |-> IF k = 0 THEN NULL
                                           ELSE IF m[s + k - 1] = char THEN s + k - 1 ELSE t[k - 1]]
            step == [k \in Nat |-> [x \in Int |-> IF m[s + k - 1] = char THEN s + k - 1 ELSE x]]
<1>2. StrRChr(m, s, c) = (CHOOSE t : Is(t))[n]
  <2>1. Skip(m, s + 0) = s + len
    BY <1>1, SkipEnds
  <2>2. StrLen(m, s) = len
    BY <1>1, <2>1 DEF StrLen
  <2>. QED  BY <2>2 DEF StrRChr
<1>3. PICK t \in [Nat -> Int] : Iteration(t, NULL, step)
  <2>1. step \in [Nat -> [Int -> Int]]
    BY <1>1
  <2>2. NULL \in Int
    BY DEF NULL
  <2>. HIDE DEF step
  <2>. QED  BY <2>1, <2>2, Iterates
<1>. DEFINE w == [k \in 0 .. n |-> t[k]]
<1>4. Is(w)
  <2>1. ASSUME NEW k \in 0 .. n
        PROVE  t[k] = IF k = 0 THEN NULL ELSE IF m[s + k - 1] = char THEN s + k - 1 ELSE w[k - 1]
    <3>1. CASE k = 0
      BY <1>3, <3>1 DEF Iteration
    <3>2. CASE k # 0
      <4>1. k \in Nat \ {0} /\ k - 1 \in Nat /\ k - 1 \in 0 .. n
        BY <1>1, <3>2
      <4>2. t[k] = step[k][t[k - 1]] /\ t[k - 1] \in Int
        BY <1>3, <4>1 DEF Iteration
      <4>. QED  BY <3>2, <4>1, <4>2
    <3>. QED  BY <3>1, <3>2
  <2>. HIDE DEF step
  <2>. QED  BY <2>1
<1>. DEFINE v == CHOOSE x : Is(x)
<1>5. Is(v)
  <2>. HIDE DEF Is, w
  <2>. QED  BY <1>4
<1>. HIDE DEF v, step, w
<1>step. \A k \in 1 .. n : v[k] = IF m[s + k - 1] = char THEN s + k - 1 ELSE v[k - 1]
  <2>. SUFFICES ASSUME NEW k \in 1 .. n PROVE v[k] = IF m[s + k - 1] = char THEN s + k - 1 ELSE v[k - 1]
    OBVIOUS
  <2>1. \A j \in 0 .. n : v[j] = IF j = 0 THEN NULL ELSE IF m[s + j - 1] = char THEN s + j - 1 ELSE v[j - 1]
    BY <1>5, Zenon
  <2>2. k \in 0 .. n /\ k # 0
    BY <1>1
  <2>. QED  BY <2>1, <2>2, Zenon
<1>. DEFINE S == {k \in 0 .. n : LastHit(v[k], Hits(m, s, k, char))}
<1>6. 0 \in S
  <2>1. Hits(m, s, 0, char) = {}
    BY <1>1 DEF Hits
  <2>2. v[0] = NULL /\ 0 \in 0 .. n
    BY <1>1, <1>5
  <2>. QED  BY <2>1, <2>2 DEF LastHit
<1>7. ASSUME NEW k \in 1 .. n, k - 1 \in S PROVE k \in S
  <2>1. v[k] = IF m[s + k - 1] = char THEN s + k - 1 ELSE v[k - 1]
    BY <1>step
  <2>2. LastHit(v[k - 1], Hits(m, s, k - 1, char))
    BY <1>7
  <2>3. Hits(m, s, k, char) = Hits(m, s, k - 1, char) \cup (IF m[s + k - 1] = char THEN {s + k - 1} ELSE {})
    <3>1. s .. s + k - 1 = (s .. s + (k - 1) - 1) \cup {s + k - 1}
      BY <1>1
    <3>. QED  BY <3>1 DEF Hits
  <2>4. \A x \in Hits(m, s, k - 1, char) : x <= s + k - 1
    BY <1>1 DEF Hits
  <2>5. LastHit(v[k], Hits(m, s, k, char))
    <3>1. CASE m[s + k - 1] = char
      <4>1. v[k] = s + k - 1 /\ v[k] \in Hits(m, s, k, char) /\ s + k - 1 <= s + k - 1
        BY <1>1, <2>1, <2>3, <3>1
      <4>2. \A x \in Hits(m, s, k, char) : x <= v[k]
        BY <2>3, <2>4, <3>1, <4>1
      <4>. QED  BY <4>1, <4>2 DEF LastHit
    <3>2. CASE m[s + k - 1] # char
      BY <2>1, <2>2, <2>3, <3>2 DEF LastHit
    <3>. QED  BY <3>1, <3>2
  <2>. QED  BY <2>5
<1>8. n \in S
  <2>. HIDE DEF S
  <2>1. n \in Nat /\ n \in 0 .. n
    BY <1>1
  <2>. HIDE DEF n
  <2>. QED  BY <1>6, <1>7, <2>1, Upward
<1>. QED  BY <1>2, <1>8 DEF v

-----------------------------------------------------------------------------
(* Copying.                                                                  *)

\* The memory after the k cells at s are copied to d.
Copied(m, d, s, k) == [c \in Cell |-> IF c - d \in 0 .. k - 1 THEN m[s + (c - d)] ELSE m[c]]

\* memcpy's loop copies, if what it reads later is not overwritten.
LEMMA MemCpyCopies ==
  ASSUME NEW m \in Memory, NEW d \in Nat, NEW s \in Nat, NEW n \in Nat, Object(d, n), Object(s, n),
         d <= s \/ Disjoint(d, n, s, n)
  PROVE  MemCpy(m, d, s, n) = Copied(m, d, s, n)
<1>. DEFINE w == [k \in 0 .. n |-> Copied(m, d, s, k)]
            Is(t) == t = [k \in 0 .. n |-> IF k = 0 THEN m ELSE [t[k - 1] EXCEPT ![d + k - 1] = t[k - 1][s + k - 1]]]
<1>1. Copied(m, d, s, 0) = m
  BY DEF Copied, Memory
<1>2. ASSUME NEW k \in 1 .. n, NEW x, x = Copied(m, d, s, k - 1)
      PROVE  [x EXCEPT ![d + k - 1] = x[s + k - 1]] = Copied(m, d, s, k)
  <2>1. /\ Size \in Nat /\ d + k - 1 \in Cell /\ s + k - 1 \in Cell
        /\ s + k - 1 - d \notin 0 .. k - 1 - 1
    BY MemoryAssumption DEF Object, Cell, Disjoint
  <2>2. x[s + k - 1] = m[s + k - 1]
    BY <1>2, <2>1 DEF Copied
  <2>3. ASSUME NEW c \in Cell
        PROVE  (IF c = d + k - 1 THEN m[s + k - 1] ELSE x[c])
                 = IF c - d \in 0 .. k - 1 THEN m[s + (c - d)] ELSE m[c]
    <3>1. CASE c = d + k - 1
      <4>1. c - d \in 0 .. k - 1 /\ s + (c - d) = s + k - 1
        BY <3>1
      <4>. QED  BY <3>1, <4>1
    <3>2. CASE c # d + k - 1
      <4>1. c - d \in 0 .. k - 1 - 1 <=> c - d \in 0 .. k - 1
        BY <3>2 DEF Cell
      <4>. QED  BY <1>2, <3>2, <4>1 DEF Copied
    <3>. QED  BY <3>1, <3>2
  <2>4. [x EXCEPT ![d + k - 1] = x[s + k - 1]] = [c \in Cell |-> IF c = d + k - 1 THEN m[s + k - 1] ELSE x[c]]
    BY <1>2, <2>2 DEF Copied
  <2>. QED  BY <2>3, <2>4 DEF Copied
<1>3. Is(w)
  <2>1. ASSUME NEW k \in 0 .. n
        PROVE  Copied(m, d, s, k) = IF k = 0 THEN m ELSE [w[k - 1] EXCEPT ![d + k - 1] = w[k - 1][s + k - 1]]
    <3>1. CASE k # 0
      <4>1. k \in 1 .. n /\ w[k - 1] = Copied(m, d, s, k - 1)
        BY <3>1
      <4>. HIDE DEF w
      <4>. QED  BY <1>2, <3>1, <4>1
    <3>. QED  BY <1>1, <3>1
  <2>. QED  BY <2>1
<1>4. MemCpy(m, d, s, n) = (CHOOSE t : Is(t))[n]
  BY DEF MemCpy
<1>. DEFINE v == CHOOSE t : Is(t)
<1>5. Is(v)
  <2>. HIDE DEF Is, w
  <2>. QED  BY <1>3
<1>. HIDE DEF v
<1>step. \A k \in 1 .. n : v[k] = [v[k - 1] EXCEPT ![d + k - 1] = v[k - 1][s + k - 1]]
  <2>. SUFFICES ASSUME NEW k \in 1 .. n PROVE v[k] = [v[k - 1] EXCEPT ![d + k - 1] = v[k - 1][s + k - 1]]
    OBVIOUS
  <2>1. \A j \in 0 .. n : v[j] = IF j = 0 THEN m ELSE [v[j - 1] EXCEPT ![d + j - 1] = v[j - 1][s + j - 1]]
    BY <1>5, Zenon
  <2>2. k \in 0 .. n /\ k # 0
    OBVIOUS
  <2>. QED  BY <2>1, <2>2, Zenon
<1>. DEFINE S == {k \in 0 .. n : v[k] = Copied(m, d, s, k)}
<1>6. 0 \in S
  BY <1>1, <1>5
<1>7. ASSUME NEW k \in 1 .. n, k - 1 \in S PROVE k \in S
  <2>1. v[k] = [v[k - 1] EXCEPT ![d + k - 1] = v[k - 1][s + k - 1]]
    BY <1>step
  <2>2. v[k - 1] = Copied(m, d, s, k - 1)
    BY <1>7
  <2>. QED  BY <1>2, <2>1, <2>2
<1>8. n \in S
  <2>. HIDE DEF S
  <2>. QED  BY <1>6, <1>7, Upward
<1>. QED  BY <1>4, <1>8 DEF v

\* The loop from the last byte copies, if the destination is above the source.
LEMMA CopyBackwardsCopies ==
  ASSUME NEW m \in Memory, NEW d \in Nat, NEW s \in Nat, NEW n \in Nat, Object(d, n), Object(s, n), s <= d
  PROVE  CopyBackwards(m, d, s, n) = Copied(m, d, s, n)
<1>. DEFINE W(k) == [c \in Cell |-> IF c - d \in n - k .. n - 1 THEN m[s + (c - d)] ELSE m[c]]
            w == [k \in 0 .. n |-> W(k)]
            Is(t) == t = [k \in 0 .. n |-> IF k = 0 THEN m ELSE [t[k - 1] EXCEPT ![d + n - k] = t[k - 1][s + n - k]]]
<1>1. W(0) = m
  BY DEF Memory
<1>2. ASSUME NEW k \in 1 .. n, NEW x, x = W(k - 1)
      PROVE  [x EXCEPT ![d + n - k] = x[s + n - k]] = W(k)
  <2>1. /\ Size \in Nat /\ d + n - k \in Cell /\ s + n - k \in Cell
        /\ s + n - k - d \notin n - (k - 1) .. n - 1
    BY MemoryAssumption DEF Object, Cell
  <2>2. x[s + n - k] = m[s + n - k]
    BY <1>2, <2>1
  <2>3. ASSUME NEW c \in Cell
        PROVE  (IF c = d + n - k THEN m[s + n - k] ELSE x[c])
                 = IF c - d \in n - k .. n - 1 THEN m[s + (c - d)] ELSE m[c]
    <3>1. CASE c = d + n - k
      <4>1. c - d \in n - k .. n - 1 /\ s + (c - d) = s + n - k
        BY <3>1
      <4>. QED  BY <3>1, <4>1
    <3>2. CASE c # d + n - k
      <4>1. c - d \in n - (k - 1) .. n - 1 <=> c - d \in n - k .. n - 1
        BY <3>2 DEF Cell
      <4>. QED  BY <1>2, <3>2, <4>1
    <3>. QED  BY <3>1, <3>2
  <2>4. [x EXCEPT ![d + n - k] = x[s + n - k]] = [c \in Cell |-> IF c = d + n - k THEN m[s + n - k] ELSE x[c]]
    BY <1>2, <2>2
  <2>. QED  BY <2>3, <2>4
<1>. HIDE DEF W
<1>3. Is(w)
  <2>1. ASSUME NEW k \in 0 .. n
        PROVE  W(k) = IF k = 0 THEN m ELSE [w[k - 1] EXCEPT ![d + n - k] = w[k - 1][s + n - k]]
    <3>1. CASE k # 0
      <4>1. k \in 1 .. n /\ w[k - 1] = W(k - 1)
        BY <3>1
      <4>. HIDE DEF w
      <4>. QED  BY <1>2, <3>1, <4>1
    <3>. QED  BY <1>1, <3>1
  <2>. QED  BY <2>1
<1>4. CopyBackwards(m, d, s, n) = (CHOOSE t : Is(t))[n]
  BY DEF CopyBackwards
<1>. DEFINE v == CHOOSE t : Is(t)
<1>5. Is(v)
  <2>. HIDE DEF Is, w
  <2>. QED  BY <1>3
<1>. HIDE DEF v
<1>step. \A k \in 1 .. n : v[k] = [v[k - 1] EXCEPT ![d + n - k] = v[k - 1][s + n - k]]
  <2>. SUFFICES ASSUME NEW k \in 1 .. n PROVE v[k] = [v[k - 1] EXCEPT ![d + n - k] = v[k - 1][s + n - k]]
    OBVIOUS
  <2>1. \A j \in 0 .. n : v[j] = IF j = 0 THEN m ELSE [v[j - 1] EXCEPT ![d + n - j] = v[j - 1][s + n - j]]
    BY <1>5, Zenon
  <2>2. k \in 0 .. n /\ k # 0
    OBVIOUS
  <2>. QED  BY <2>1, <2>2, Zenon
<1>. DEFINE S == {k \in 0 .. n : v[k] = W(k)}
<1>6. 0 \in S
  BY <1>1, <1>5
<1>7. ASSUME NEW k \in 1 .. n, k - 1 \in S PROVE k \in S
  <2>1. v[k] = [v[k - 1] EXCEPT ![d + n - k] = v[k - 1][s + n - k]]
    BY <1>step
  <2>2. v[k - 1] = W(k - 1)
    BY <1>7
  <2>. QED  BY <1>2, <2>1, <2>2
<1>8. n \in S
  <2>. HIDE DEF S
  <2>. QED  BY <1>6, <1>7, Upward
<1>9. W(n) = Copied(m, d, s, n)
  BY DEF W, Copied
<1>. QED  BY <1>4, <1>8, <1>9 DEF v

\* memset's loop writes the byte to each of the cells, and to no other.
LEMMA MemSetSets ==
  ASSUME NEW m \in Memory, NEW d \in Nat, NEW val, NEW n \in Nat, Object(d, n)
  PROVE  MemSet(m, d, val, n) = [c \in Cell |-> IF c - d \in 0 .. n - 1 THEN val % 256 ELSE m[c]]
<1>. PICK byte : byte = val % 256
  OBVIOUS
<1>. DEFINE W(k) == [c \in Cell |-> IF c - d \in 0 .. k - 1 THEN byte ELSE m[c]]
            w == [k \in 0 .. n |-> W(k)]
            Is(t) == t = [k \in 0 .. n |-> IF k = 0 THEN m ELSE [t[k - 1] EXCEPT ![d + k - 1] = byte]]
<1>1. W(0) = m
  BY DEF Memory
<1>2. ASSUME NEW k \in 1 .. n, NEW x, x = W(k - 1) PROVE [x EXCEPT ![d + k - 1] = byte] = W(k)
  <2>1. ASSUME NEW c \in Cell
        PROVE  (IF c = d + k - 1 THEN byte ELSE x[c]) = IF c - d \in 0 .. k - 1 THEN byte ELSE m[c]
    BY <1>2 DEF Cell
  <2>2. [x EXCEPT ![d + k - 1] = byte] = [c \in Cell |-> IF c = d + k - 1 THEN byte ELSE x[c]]
    BY <1>2
  <2>. QED  BY <2>1, <2>2
<1>. HIDE DEF W
<1>3. Is(w)
  <2>1. ASSUME NEW k \in 0 .. n PROVE W(k) = IF k = 0 THEN m ELSE [w[k - 1] EXCEPT ![d + k - 1] = byte]
    <3>1. CASE k # 0
      <4>1. k \in 1 .. n /\ w[k - 1] = W(k - 1)
        BY <3>1
      <4>. HIDE DEF w
      <4>. QED  BY <1>2, <3>1, <4>1
    <3>. QED  BY <1>1, <3>1
  <2>. QED  BY <2>1
<1>4. MemSet(m, d, val, n) = (CHOOSE t : Is(t))[n]
  BY DEF MemSet
<1>. DEFINE v == CHOOSE t : Is(t)
<1>5. Is(v)
  <2>. HIDE DEF Is, w
  <2>. QED  BY <1>3
<1>. HIDE DEF v
<1>step. \A k \in 1 .. n : v[k] = [v[k - 1] EXCEPT ![d + k - 1] = byte]
  <2>. SUFFICES ASSUME NEW k \in 1 .. n PROVE v[k] = [v[k - 1] EXCEPT ![d + k - 1] = byte]
    OBVIOUS
  <2>1. \A j \in 0 .. n : v[j] = IF j = 0 THEN m ELSE [v[j - 1] EXCEPT ![d + j - 1] = byte]
    BY <1>5, Zenon
  <2>2. k \in 0 .. n /\ k # 0
    OBVIOUS
  <2>. QED  BY <2>1, <2>2, Zenon
<1>. DEFINE S == {k \in 0 .. n : v[k] = W(k)}
<1>6. 0 \in S
  BY <1>1, <1>5
<1>7. ASSUME NEW k \in 1 .. n, k - 1 \in S PROVE k \in S
  <2>1. v[k] = [v[k - 1] EXCEPT ![d + k - 1] = byte]
    BY <1>step
  <2>2. v[k - 1] = W(k - 1)
    BY <1>7
  <2>. QED  BY <1>2, <2>1, <2>2
<1>8. n \in S
  <2>. HIDE DEF S
  <2>. QED  BY <1>6, <1>7, Upward
<1>. QED  BY <1>4, <1>8 DEF v, W

\* Of the two loops memmove takes one that copies, also when the objects overlap.
LEMMA MemMoveCopies ==
  ASSUME NEW m \in Memory, NEW d \in Cell, NEW s \in Cell, NEW n \in Nat, Object(d, n), Object(s, n)
  PROVE  MemMove(m, d, s, n) = Copied(m, d, s, n)
<1>1. /\ d \in Nat /\ s \in Nat /\ Word \in Nat \ {0} /\ Size \in Nat /\ Size < Word
      /\ d + n <= Size /\ s + n <= Size /\ d < Size /\ s < Size
  BY MemoryAssumption DEF Cell, Object
<1>2. CASE s <= d
  <2>1. PICK x \in 0 .. Word - 1 : x = d - s
    BY <1>1, <1>2
  <2>2. (Word * 0 + x) % Word = x
    BY <1>1, DivisionUnique
  <2>3. x % Word = x
    BY <1>1, <2>1, <2>2
  <2>4. CASE x >= n
    <3>1. Disjoint(d, n, s, n)
      BY <1>1, <2>1, <2>4 DEF Disjoint
    <3>. QED  BY <1>1, <2>1, <2>3, <2>4, <3>1, MemCpyCopies DEF MemMove
  <2>5. CASE ~(x >= n)
    BY <1>1, <1>2, <2>1, <2>3, <2>5, CopyBackwardsCopies DEF MemMove
  <2>. QED  BY <2>4, <2>5
<1>3. CASE d < s
  <2>1. PICK x \in 0 .. Word - 1 : x = d - s + Word
    BY <1>1, <1>3
  <2>2. (Word * (-1) + x) % Word = x
    BY <1>1, DivisionUnique
  <2>3. Word * (-1) + x = d - s
    BY <1>1, <2>1
  <2>4. (d - s) % Word = x /\ x >= n
    BY <1>1, <2>1, <2>2, <2>3
  <2>. QED  BY <1>1, <1>3, <2>4, MemCpyCopies DEF MemMove
<1>. QED  BY <1>1, <1>2, <1>3

\* A length is a number of whole chunks and less than a chunk more.
LEMMA WholeChunks ==
  ASSUME NEW n \in Nat
  PROVE  \E q, r : /\ q = n \div Chunk /\ r = (n % Chunk) /\ q \in Nat /\ r \in Nat /\ n = q * Chunk + r
                  /\ q * Chunk \in Nat
<1>1. n \div Chunk \in Int /\ (n % Chunk) \in 0 .. Chunk - 1 /\ n = Chunk * (n \div Chunk) + (n % Chunk)
  BY MemoryAssumption, Division
<1>2. PICK q \in Int : q = n \div Chunk
  BY <1>1
<1>3. PICK r \in 0 .. Chunk - 1 : r = (n % Chunk)
  BY <1>1
<1>4. q >= 0
  <2>1. CASE q < 0
    <3>1. q <= -1 /\ Chunk * q <= Chunk * (-1)
      BY MemoryAssumption, <2>1
    <3>. QED  BY MemoryAssumption, <1>1, <1>2, <1>3, <3>1
  <2>. QED  BY <2>1
<1>5. q \in Nat /\ q * Chunk \in Nat /\ Chunk * q = q * Chunk
  BY MemoryAssumption, <1>4
<1>6. n = Chunk * q + r
  BY <1>1, <1>2, <1>3, Zenon
<1>7. n = q * Chunk + r
  BY <1>5, <1>6, Zenon
<1>8. r \in Nat
  BY <1>3, MemoryAssumption
<1>. QED  BY <1>2, <1>3, <1>5, <1>7, <1>8, Zenon

Zeroed(m, d, n) == [c \in Cell |-> IF c - d \in 0 .. n - 1 THEN 0 ELSE m[c]]

\* zeromem16 clears the whole chunks and then the rest: all of the length.
LEMMA ZeroMem16Sets ==
  ASSUME NEW m \in Memory, NEW d \in Nat, NEW n \in Nat, Object(d, n)
  PROVE  ZeroMem16(m, d, n) = [c \in Cell |-> IF c - d \in 0 .. n - 1 THEN 0 ELSE m[c]]
<1>1. Chunk \in Nat \ {0} /\ Size \in Nat
  BY MemoryAssumption
<1>2. PICK q, r : /\ q = n \div Chunk /\ r = (n % Chunk) /\ q \in Nat /\ r \in Nat /\ n = q * Chunk + r
                  /\ q * Chunk \in Nat
  BY WholeChunks
<1>. DEFINE zeros == [j \in 0 .. Chunk - 1 |-> 0]
            W(k) == Zeroed(m, d, k * Chunk)
            w == [k \in 0 .. q |-> W(k)]
            Is(t) == t = [k \in 0 .. q |-> IF k = 0 THEN m ELSE StorePair(t[k - 1], d + (k - 1) * Chunk, zeros)]
<1>3. W(0) = m
  <2>1. 0 * Chunk = 0
    BY <1>1
  <2>2. Zeroed(m, d, 0) = m
    BY DEF Memory, Zeroed
  <2>. QED  BY <2>1, <2>2
<1>4. ASSUME NEW k \in 1 .. q, NEW x, x = W(k - 1) PROVE StorePair(x, d + (k - 1) * Chunk, zeros) = W(k)
  <2>1. PICK e \in Nat : e = (k - 1) * Chunk /\ e + Chunk = k * Chunk
    BY <1>1
  <2>2. DOMAIN zeros = 0 .. Chunk - 1 /\ \A j \in 0 .. Chunk - 1 : zeros[j] = 0
    OBVIOUS
  <2>3. ASSUME NEW c \in Cell
        PROVE  (IF c - (d + e) \in 0 .. Chunk - 1 THEN zeros[c - (d + e)] ELSE x[c])
                 = IF c - d \in 0 .. e + Chunk - 1 THEN 0 ELSE m[c]
    <3>0. x = Zeroed(m, d, e)
      BY <1>4, <2>1
    <3>1. x[c] = IF c - d \in 0 .. e - 1 THEN 0 ELSE m[c]
      BY <3>0 DEF Zeroed
    <3>. QED  BY <1>1, <2>2, <3>1 DEF Cell
  <2>4. W(k) = [c \in Cell |-> IF c - d \in 0 .. e + Chunk - 1 THEN 0 ELSE m[c]]
    <3>1. W(k) = Zeroed(m, d, e + Chunk)
      BY <2>1
    <3>2. Zeroed(m, d, e + Chunk) = [c \in Cell |-> IF c - d \in 0 .. e + Chunk - 1 THEN 0 ELSE m[c]]
      BY <1>1 DEF Zeroed
    <3>. HIDE DEF W
    <3>. QED  BY <3>1, <3>2, Zenon
  <2>5. StorePair(x, d + e, zeros) = [c \in Cell |-> IF c - (d + e) \in 0 .. Chunk - 1 THEN zeros[c - (d + e)] ELSE x[c]]
    BY <2>2 DEF StorePair
  <2>. HIDE DEF zeros, W
  <2>. QED  BY <2>1, <2>3, <2>4, <2>5
<1>. HIDE DEF W, zeros
<1>5. Is(w)
  <2>1. ASSUME NEW k \in 0 .. q PROVE W(k) = IF k = 0 THEN m ELSE StorePair(w[k - 1], d + (k - 1) * Chunk, zeros)
    <3>1. CASE k # 0
      <4>1. k \in 1 .. q /\ w[k - 1] = W(k - 1)
        BY <1>2, <3>1
      <4>. HIDE DEF w
      <4>. QED  BY <1>4, <3>1, <4>1
    <3>. QED  BY <1>3, <3>1
  <2>. QED  BY <2>1
<1>6. ZeroMem16(m, d, n) = MemSet((CHOOSE t : Is(t))[q], d + q * Chunk, 0, r)
  BY <1>2 DEF ZeroMem16, zeros
<1>. DEFINE v == CHOOSE t : Is(t)
<1>7. Is(v)
  <2>. HIDE DEF Is, w
  <2>. QED  BY <1>5
<1>. HIDE DEF v
<1>step. \A k \in 1 .. q : v[k] = StorePair(v[k - 1], d + (k - 1) * Chunk, zeros)
  <2>. SUFFICES ASSUME NEW k \in 1 .. q PROVE v[k] = StorePair(v[k - 1], d + (k - 1) * Chunk, zeros)
    OBVIOUS
  <2>1. \A j \in 0 .. q : v[j] = IF j = 0 THEN m ELSE StorePair(v[j - 1], d + (j - 1) * Chunk, zeros)
    BY <1>7, Zenon
  <2>2. k \in 0 .. q /\ k # 0
    OBVIOUS
  <2>. QED  BY <2>1, <2>2, Zenon
<1>. DEFINE S == {k \in 0 .. q : v[k] = W(k)}
<1>8. 0 \in S
  <2>1. \A j \in 0 .. q : v[j] = IF j = 0 THEN m ELSE StorePair(v[j - 1], d + (j - 1) * Chunk, zeros)
    BY <1>7, Zenon
  <2>2. 0 \in 0 .. q
    BY <1>2
  <2>3. v[0] = m
    BY <2>1, <2>2, Zenon
  <2>. QED  BY <1>3, <2>2, <2>3
<1>9. ASSUME NEW k \in 1 .. q, k - 1 \in S PROVE k \in S
  <2>1. v[k] = StorePair(v[k - 1], d + (k - 1) * Chunk, zeros)
    BY <1>step
  <2>2. v[k - 1] = W(k - 1)
    BY <1>9
  <2>. QED  BY <1>4, <2>1, <2>2
<1>10. q \in S
  <2>. HIDE DEF S
  <2>. QED  BY <1>2, <1>8, <1>9, Upward
<1>11. ZeroMem16(m, d, n) = MemSet(W(q), d + q * Chunk, 0, r)
  BY <1>6, <1>10 DEF v
<1>12. PICK e \in Nat : e = q * Chunk /\ n = e + r
  BY <1>2
<1>13. PICK x \in Memory : x = W(q) /\ x = [c \in Cell |-> IF c - d \in 0 .. e - 1 THEN 0 ELSE m[c]]
  <2>1. W(q) = Zeroed(m, d, e)
    BY <1>12 DEF W
  <2>2. Zeroed(m, d, e) = [c \in Cell |-> IF c - d \in 0 .. e - 1 THEN 0 ELSE m[c]]
    BY Zenon DEF Zeroed
  <2>3. Zeroed(m, d, e) \in Memory
    BY DEF Zeroed, Memory
  <2>. QED  BY <2>1, <2>2, <2>3
<1>14. MemSet(x, d + e, 0, r) = [c \in Cell |-> IF c - (d + e) \in 0 .. r - 1 THEN 0 % 256 ELSE x[c]]
  <2>1. Object(d + e, r) /\ d + e \in Nat
    BY <1>1, <1>2, <1>12 DEF Object
  <2>. QED  BY <1>2, <2>1, MemSetSets
<1>15. ASSUME NEW c \in Cell
       PROVE  (IF c - (d + e) \in 0 .. r - 1 THEN 0 % 256 ELSE x[c]) = IF c - d \in 0 .. n - 1 THEN 0 ELSE m[c]
  <2>1. x[c] = IF c - d \in 0 .. e - 1 THEN 0 ELSE m[c]
    BY <1>13
  <2>. QED  BY <1>2, <1>12, <2>1 DEF Cell
<1>. QED  BY <1>11, <1>12, <1>13, <1>14, <1>15

\* memcpy16 copies the whole chunks and then the rest: all of the length.
LEMMA MemCpy16Copies ==
  ASSUME NEW m \in Memory, NEW d \in Nat, NEW s \in Nat, NEW n \in Nat, Object(d, n), Object(s, n),
         Disjoint(d, n, s, n)
  PROVE  MemCpy16(m, d, s, n) = Copied(m, d, s, n)
<1>1. Chunk \in Nat \ {0} /\ Size \in Nat
  BY MemoryAssumption
<1>2. PICK q, r : /\ q = n \div Chunk /\ r = (n % Chunk) /\ q \in Nat /\ r \in Nat /\ n = q * Chunk + r
                  /\ q * Chunk \in Nat
  BY WholeChunks
<1>. DEFINE W(k) == Copied(m, d, s, k * Chunk)
            w == [k \in 0 .. q |-> W(k)]
            Pair(x, k) == [j \in 0 .. Chunk - 1 |-> x[s + (k - 1) * Chunk + j]]
            Is(t) == t = [k \in 0 .. q |-> IF k = 0 THEN m
                                           ELSE StorePair(t[k - 1], d + (k - 1) * Chunk, Pair(t[k - 1], k))]
<1>3. W(0) = m
  <2>1. 0 * Chunk = 0
    BY <1>1
  <2>. QED  BY <2>1 DEF Memory, Copied
<1>4. ASSUME NEW k \in 1 .. q, NEW x, x = W(k - 1) PROVE StorePair(x, d + (k - 1) * Chunk, Pair(x, k)) = W(k)
  <2>1. PICK e \in Nat : e = (k - 1) * Chunk /\ e + Chunk = k * Chunk
    BY <1>1
  <2>2. e + Chunk <= n
    <3>1. k * Chunk <= q * Chunk
      BY <1>1, <1>2
    <3>2. PICK f \in Nat : f = q * Chunk
      BY <1>2
    <3>. QED  BY <1>1, <1>2, <2>1, <3>1, <3>2
  <2>. PICK pair : pair = [j \in 0 .. Chunk - 1 |-> x[s + e + j]]
    OBVIOUS
  <2>3. Pair(x, k) = pair
    BY <2>1
  <2>4. ASSUME NEW j \in 0 .. Chunk - 1 PROVE pair[j] = m[s + e + j]
    <3>1. s + e + j \in Cell
      BY <1>1, <2>2 DEF Cell, Object
    <3>2. s + e + j - d \notin 0 .. e - 1
      BY <1>1, <2>2 DEF Disjoint
    <3>. QED  BY <1>4, <2>1, <3>1, <3>2, SMTT(30) DEF Copied
  <2>5. ASSUME NEW c \in Cell
        PROVE  (IF c - (d + e) \in 0 .. Chunk - 1 THEN pair[c - (d + e)] ELSE x[c])
                 = IF c - d \in 0 .. e + Chunk - 1 THEN m[s + (c - d)] ELSE m[c]
    <3>1. x[c] = IF c - d \in 0 .. e - 1 THEN m[s + (c - d)] ELSE m[c]
      BY <1>4, <2>1 DEF Copied
    <3>2. c \in Int
      BY DEF Cell
    <3>3. CASE c - (d + e) \in 0 .. Chunk - 1
      <4>1. s + e + (c - (d + e)) = s + (c - d) /\ c - d \in 0 .. e + Chunk - 1
        BY <1>1, <3>2, <3>3
      <4>. QED  BY <2>4, <3>3, <4>1
    <3>4. CASE c - (d + e) \notin 0 .. Chunk - 1
      <4>1. c - d \in 0 .. e - 1 <=> c - d \in 0 .. e + Chunk - 1
        BY <1>1, <3>2, <3>4
      <4>. QED  BY <3>1, <3>4, <4>1
    <3>. QED  BY <3>3, <3>4
  <2>6. W(k) = [c \in Cell |-> IF c - d \in 0 .. e + Chunk - 1 THEN m[s + (c - d)] ELSE m[c]]
    <3>1. W(k) = Copied(m, d, s, e + Chunk)
      BY <2>1
    <3>2. Copied(m, d, s, e + Chunk) = [c \in Cell |-> IF c - d \in 0 .. e + Chunk - 1 THEN m[s + (c - d)] ELSE m[c]]
      BY <1>1 DEF Copied
    <3>. HIDE DEF W
    <3>. QED  BY <3>1, <3>2, Zenon
  <2>7. StorePair(x, d + e, pair) = [c \in Cell |-> IF c - (d + e) \in 0 .. Chunk - 1 THEN pair[c - (d + e)] ELSE x[c]]
    BY DEF StorePair
  <2>. HIDE DEF W, Pair
  <2>. QED  BY <2>1, <2>3, <2>5, <2>6, <2>7
<1>. HIDE DEF W
<1>5. Is(w)
  <2>1. ASSUME NEW k \in 0 .. q
        PROVE  W(k) = IF k = 0 THEN m ELSE StorePair(w[k - 1], d + (k - 1) * Chunk, Pair(w[k - 1], k))
    <3>1. CASE k # 0
      <4>1. k \in 1 .. q /\ w[k - 1] = W(k - 1)
        BY <1>2, <3>1
      <4>. HIDE DEF w, Pair
      <4>. QED  BY <1>4, <3>1, <4>1
    <3>. QED  BY <1>3, <3>1
  <2>. HIDE DEF Pair
  <2>. QED  BY <2>1
<1>6. MemCpy16(m, d, s, n) = MemCpy((CHOOSE t : Is(t))[q], d + q * Chunk, s + q * Chunk, r)
  BY <1>2 DEF MemCpy16
<1>. DEFINE v == CHOOSE t : Is(t)
<1>7. Is(v)
  <2>. HIDE DEF Is, w
  <2>. QED  BY <1>5
<1>. HIDE DEF v, Pair
<1>step. \A k \in 1 .. q : v[k] = StorePair(v[k - 1], d + (k - 1) * Chunk, Pair(v[k - 1], k))
  <2>. SUFFICES ASSUME NEW k \in 1 .. q PROVE v[k] = StorePair(v[k - 1], d + (k - 1) * Chunk, Pair(v[k - 1], k))
    OBVIOUS
  <2>1. \A j \in 0 .. q : v[j] = IF j = 0 THEN m ELSE StorePair(v[j - 1], d + (j - 1) * Chunk, Pair(v[j - 1], j))
    BY <1>7, Zenon
  <2>2. k \in 0 .. q /\ k # 0
    OBVIOUS
  <2>. QED  BY <2>1, <2>2, Zenon
<1>. DEFINE S == {k \in 0 .. q : v[k] = W(k)}
<1>8. 0 \in S
  <2>1. \A j \in 0 .. q : v[j] = IF j = 0 THEN m ELSE StorePair(v[j - 1], d + (j - 1) * Chunk, Pair(v[j - 1], j))
    BY <1>7, Zenon
  <2>2. 0 \in 0 .. q
    BY <1>2
  <2>3. v[0] = m
    BY <2>1, <2>2, Zenon
  <2>. QED  BY <1>3, <2>2, <2>3
<1>9. ASSUME NEW k \in 1 .. q, k - 1 \in S PROVE k \in S
  <2>1. v[k] = StorePair(v[k - 1], d + (k - 1) * Chunk, Pair(v[k - 1], k))
    BY <1>step
  <2>2. v[k - 1] = W(k - 1)
    BY <1>9
  <2>. QED  BY <1>4, <2>1, <2>2
<1>10. q \in S
  <2>. HIDE DEF S
  <2>. QED  BY <1>2, <1>8, <1>9, Upward, SMTT(30)
<1>11. MemCpy16(m, d, s, n) = MemCpy(W(q), d + q * Chunk, s + q * Chunk, r)
  BY <1>6, <1>10 DEF v
<1>12. PICK e \in Nat : e = q * Chunk /\ n = e + r
  BY <1>2
<1>13. PICK x : x = W(q) /\ x = Copied(m, d, s, e)
  BY <1>12 DEF W
<1>14. ASSUME NEW c \in Cell, c - d \in 0 .. n - 1
       PROVE s + (c - d) \in Cell /\ s + (c - d) - d \notin 0 .. n - 1
  BY <1>1, <1>14 DEF Cell, Object, Disjoint
<1>15. x \in Memory
  <2>1. ASSUME NEW c \in Cell PROVE (IF c - d \in 0 .. e - 1 THEN m[s + (c - d)] ELSE m[c]) \in 0 .. 255
    <3>1. CASE c - d \in 0 .. e - 1
      <4>1. s + (c - d) \in Cell
        BY <1>2, <1>12, <1>14, <3>1
      <4>. QED  BY <3>1, <4>1 DEF Memory
    <3>. QED  BY <3>1 DEF Memory
  <2>. QED  BY <1>13, <2>1 DEF Copied, Memory
<1>16. MemCpy(x, d + e, s + e, r) = Copied(x, d + e, s + e, r)
  <2>1. Object(d + e, r) /\ d + e \in Nat /\ Object(s + e, r) /\ s + e \in Nat /\ Disjoint(d + e, r, s + e, r)
    BY <1>1, <1>2, <1>12 DEF Object, Disjoint
  <2>. QED  BY <1>2, <1>15, <2>1, MemCpyCopies
<1>17. ASSUME NEW c \in Cell
       PROVE  (IF c - (d + e) \in 0 .. r - 1 THEN x[s + e + (c - (d + e))] ELSE x[c])
                = IF c - d \in 0 .. n - 1 THEN m[s + (c - d)] ELSE m[c]
  <2>1. \A b \in Cell : x[b] = IF b - d \in 0 .. e - 1 THEN m[s + (b - d)] ELSE m[b]
    BY <1>13 DEF Copied
  <2>2. c \in Int
    BY DEF Cell
  <2>3. CASE c - (d + e) \in 0 .. r - 1
    <3>1. s + e + (c - (d + e)) = s + (c - d) /\ c - d \in 0 .. n - 1
      BY <1>2, <1>12, <2>2, <2>3
    <3>2. s + (c - d) \in Cell /\ s + (c - d) - d \notin 0 .. e - 1
      BY <1>2, <1>12, <1>14, <3>1
    <3>. QED  BY <2>1, <2>3, <3>1, <3>2
  <2>4. CASE c - (d + e) \notin 0 .. r - 1
    <3>1. c - d \in 0 .. e - 1 <=> c - d \in 0 .. n - 1
      BY <1>2, <1>12, <2>2, <2>4
    <3>. QED  BY <2>1, <2>4, <3>1
  <2>. QED  BY <2>3, <2>4
<1>. QED  BY <1>11, <1>12, <1>13, <1>16, <1>17 DEF Copied

-----------------------------------------------------------------------------
(* Copying strings.                                                          *)

\* The memory after kept characters at s are copied to d, up to written with zeros.
StrCopied(m, d, s, kept, written) ==
  [c \in Cell |-> IF c - d \notin 0 .. written - 1 THEN m[c] ELSE IF c - d < kept THEN m[s + c - d] ELSE 0]

\* strncpy copies up to the terminator, and pads with zeros.
LEMMA StrNCpyCopies ==
  ASSUME NEW m \in Memory, NEW d \in Nat, NEW s \in Nat, NEW n \in Nat, Object(d, n),
         NEW len, IsLength(m, s, len), Disjoint(d, n, s, len + 1)
  PROVE  StrNCpy(m, d, s, n) = StrCopied(m, d, s, Smaller(len, n), n)
<1>1. /\ len \in Nat /\ s + len \in Cell /\ m[s + len] = 0 /\ \A j \in 0 .. len - 1 : m[s + j] # 0
      /\ Size \in Nat
  BY MemoryAssumption DEF IsLength
<1>. DEFINE Mem(k) == [c \in Cell |-> IF c - d \in 0 .. k - 1 THEN (IF c - d < len THEN m[s + (c - d)] ELSE 0) ELSE m[c]]
            W(k) == [mem |-> Mem(k), ended |-> len < k]
            Char(x, k) == IF x.ended THEN 0 ELSE x.mem[s + k - 1]
            Next(x, k) == [mem |-> [x.mem EXCEPT ![d + k - 1] = Char(x, k)], ended |-> Char(x, k) = 0]
            w == [k \in 0 .. n |-> W(k)]
            Is(t) == t = [k \in 0 .. n |-> IF k = 0 THEN [mem |-> m, ended |-> FALSE] ELSE Next(t[k - 1], k)]
<1>2. W(0) = [mem |-> m, ended |-> FALSE]
  <2>1. Mem(0) = m
    BY DEF Memory
  <2>2. (len < 0) = FALSE
    BY <1>1
  <2>. HIDE DEF Mem
  <2>. QED  BY <2>1, <2>2, Zenon
<1>3. ASSUME NEW k \in 1 .. n PROVE Next(W(k - 1), k) = W(k)
  <2>10. PICK x : x = Mem(k - 1)
    OBVIOUS
  <2>11. \A c \in Cell : x[c] = IF c - d \in 0 .. k - 1 - 1 THEN (IF c - d < len THEN m[s + (c - d)] ELSE 0) ELSE m[c]
    BY <2>10
  <2>1. W(k - 1).mem = x
    BY <2>10
  <2>2. W(k - 1).ended <=> len < k - 1
    OBVIOUS
  <2>12. PICK char : char = Char(W(k - 1), k)
    OBVIOUS
  <2>3. char = IF k - 1 < len THEN m[s + k - 1] ELSE 0
    <3>1. CASE len < k - 1
      <4>1. char = 0
        <5>. HIDE DEF W
        <5>. QED  BY <2>2, <2>12, <3>1, Zenon
      <4>. QED  BY <1>1, <3>1, <4>1
    <3>2. CASE ~(len < k - 1)
      <4>1. char = x[s + k - 1]
        <5>. HIDE DEF W
        <5>. QED  BY <2>1, <2>2, <2>12, <3>2, Zenon
      <4>2. s + k - 1 \in Cell /\ s + k - 1 - d \notin 0 .. k - 1 - 1
        BY <1>1, <3>2 DEF Cell, Object, Disjoint
      <4>3. x[s + k - 1] = m[s + k - 1]
        BY <2>11, <4>2
      <4>4. k - 1 = len => m[s + k - 1] = 0
        BY <1>1
      <4>. QED  BY <1>1, <3>2, <4>1, <4>3, <4>4
    <3>. QED  BY <3>1, <3>2
  <2>4. (char = 0) <=> (len < k)
    <3>1. CASE k - 1 < len
      <4>1. k - 1 \in 0 .. len - 1 /\ s + (k - 1) = s + k - 1
        BY <1>1, <3>1
      <4>2. m[s + k - 1] # 0
        BY <1>1, <4>1
      <4>. QED  BY <1>1, <2>3, <3>1, <4>2
    <3>2. CASE ~(k - 1 < len)
      BY <1>1, <2>3, <3>2
    <3>. QED  BY <3>1, <3>2
  <2>5. [x EXCEPT ![d + k - 1] = char] = Mem(k)
    <3>1. ASSUME NEW c \in Cell
          PROVE  (IF c = d + k - 1 THEN char ELSE x[c])
                   = IF c - d \in 0 .. k - 1 THEN (IF c - d < len THEN m[s + (c - d)] ELSE 0) ELSE m[c]
      <4>1. CASE c = d + k - 1
        <5>1. c - d \in 0 .. k - 1 /\ c - d = k - 1 /\ s + (c - d) = s + k - 1
          BY <4>1
        <5>. QED  BY <2>3, <4>1, <5>1
      <4>2. CASE c # d + k - 1
        <5>1. c - d \in 0 .. k - 1 - 1 <=> c - d \in 0 .. k - 1
          BY <4>2 DEF Cell
        <5>. QED  BY <2>11, <4>2, <5>1
      <4>. QED  BY <4>1, <4>2
    <3>2. [x EXCEPT ![d + k - 1] = char] = [c \in Cell |-> IF c = d + k - 1 THEN char ELSE x[c]]
      BY <2>10
    <3>. QED  BY <3>1, <3>2
  <2>6. (char = 0) = (len < k)
    BY <2>4
  <2>7. Next(W(k - 1), k) = [mem |-> [x EXCEPT ![d + k - 1] = char], ended |-> char = 0]
    <3>. HIDE DEF W, Char
    <3>. QED  BY <2>1, <2>12, Zenon
  <2>8. W(k) = [mem |-> Mem(k), ended |-> len < k]
    OBVIOUS
  <2>. HIDE DEF W, Next, Mem
  <2>. QED  BY <2>5, <2>6, <2>7, <2>8, Zenon
<1>4. W(n).mem = Mem(n)
  OBVIOUS
<1>. HIDE DEF W, Next
<1>5. Is(w)
  <2>1. ASSUME NEW k \in 0 .. n
        PROVE  W(k) = IF k = 0 THEN [mem |-> m, ended |-> FALSE] ELSE Next(w[k - 1], k)
    <3>1. CASE k # 0
      <4>1. k \in 1 .. n /\ w[k - 1] = W(k - 1)
        BY <3>1
      <4>. HIDE DEF w
      <4>. QED  BY <1>3, <3>1, <4>1
    <3>. QED  BY <1>2, <3>1
  <2>. QED  BY <2>1
<1>6. StrNCpy(m, d, s, n) = (CHOOSE t : Is(t))[n].mem
  BY DEF StrNCpy, Next
<1>. DEFINE v == CHOOSE t : Is(t)
<1>7. Is(v)
  <2>. HIDE DEF Is, w
  <2>. QED  BY <1>5
<1>. HIDE DEF v
<1>step. \A k \in 1 .. n : v[k] = Next(v[k - 1], k)
  <2>. SUFFICES ASSUME NEW k \in 1 .. n PROVE v[k] = Next(v[k - 1], k)
    OBVIOUS
  <2>1. \A j \in 0 .. n : v[j] = IF j = 0 THEN [mem |-> m, ended |-> FALSE] ELSE Next(v[j - 1], j)
    BY <1>7, Zenon
  <2>2. k \in 0 .. n /\ k # 0
    OBVIOUS
  <2>. QED  BY <2>1, <2>2, Zenon
<1>. DEFINE S == {k \in 0 .. n : v[k] = W(k)}
<1>8. 0 \in S
  BY <1>2, <1>7
<1>9. ASSUME NEW k \in 1 .. n, k - 1 \in S PROVE k \in S
  <2>1. v[k] = Next(v[k - 1], k)
    BY <1>step
  <2>2. v[k - 1] = W(k - 1)
    BY <1>9
  <2>. QED  BY <1>3, <2>1, <2>2
<1>10. n \in S
  <2>. HIDE DEF S
  <2>. QED  BY <1>8, <1>9, Upward
<1>11. StrNCpy(m, d, s, n) = Mem(n)
  BY <1>4, <1>6, <1>10 DEF v
<1>12. ASSUME NEW c \in Cell
       PROVE  (IF c - d \in 0 .. n - 1 THEN (IF c - d < len THEN m[s + (c - d)] ELSE 0) ELSE m[c])
                = IF c - d \notin 0 .. n - 1 THEN m[c] ELSE IF c - d < Smaller(len, n) THEN m[s + c - d] ELSE 0
  <2>1. CASE c - d \in 0 .. n - 1
    <3>1. s + (c - d) = s + c - d /\ (c - d < len <=> c - d < Smaller(len, n))
      BY <1>1, <2>1 DEF Smaller, Cell
    <3>. QED  BY <2>1, <3>1
  <2>. QED  BY <2>1
<1>. QED  BY <1>11, <1>12 DEF StrCopied

\* One more cell of x is copied.
CopiedToo(x, m, d, s, k) ==
  /\ x[s + k - 1] = m[s + k - 1]
  /\ [x EXCEPT ![d + k - 1] = x[s + k - 1]] = Copied(m, d, s, k)

\* One turn of strlcpy's first loop copies one cell more.
LEMMA CopyOne ==
  ASSUME NEW m, NEW d \in Nat, NEW s \in Nat, NEW k \in Nat \ {0}, d + k - 1 \in Cell, s + k - 1 \in Cell,
         s + k - 1 - d \notin 0 .. k - 1 - 1, NEW x, x = Copied(m, d, s, k - 1)
  PROVE  CopiedToo(x, m, d, s, k)
<1>1. x[s + k - 1] = m[s + k - 1]
  BY DEF Copied
<1>2. ASSUME NEW c \in Cell
      PROVE  (IF c = d + k - 1 THEN m[s + k - 1] ELSE x[c])
               = IF c - d \in 0 .. k - 1 THEN m[s + (c - d)] ELSE m[c]
  <2>1. CASE c = d + k - 1
    <3>1. c - d \in 0 .. k - 1 /\ s + (c - d) = s + k - 1
      BY <2>1
    <3>. QED  BY <2>1, <3>1
  <2>2. CASE c # d + k - 1
    <3>1. c - d \in 0 .. k - 1 - 1 <=> c - d \in 0 .. k - 1
      BY <2>2 DEF Cell
    <3>. QED  BY <2>2, <3>1 DEF Copied
  <2>. QED  BY <2>1, <2>2
<1>3. [x EXCEPT ![d + k - 1] = x[s + k - 1]] = [c \in Cell |-> IF c = d + k - 1 THEN m[s + k - 1] ELSE x[c]]
  BY <1>1 DEF Copied
<1>4. [x EXCEPT ![d + k - 1] = x[s + k - 1]] = Copied(m, d, s, k)
  BY <1>2, <1>3 DEF Copied
<1>. QED  BY <1>1, <1>4 DEF CopiedToo

\* strlcpy's first loop copies what fits, and knows if that was the whole string.
LEMMA WhatFits ==
  ASSUME NEW m \in Memory, NEW d \in Nat, NEW s \in Nat, NEW n \in Nat, Object(d, n),
         NEW len, IsLength(m, s, len), Disjoint(d, n, s, len + 1)
  PROVE  CopyWhatFits(m, d, s, n) =
           [mem |-> Copied(m, d, s, Smaller(n, len + 1)), copied |-> Smaller(n, len + 1), ended |-> len < n]
<1>1. /\ len \in Nat /\ s + len \in Cell /\ m[s + len] = 0 /\ \A j \in 0 .. len - 1 : m[s + j] # 0
      /\ Size \in Nat
  BY MemoryAssumption DEF IsLength
<1>. DEFINE Z(k) == Smaller(k, len + 1)
            W(k) == [mem |-> Copied(m, d, s, Z(k)), copied |-> Z(k), ended |-> len < k]
            Next(x, k) == IF x.ended THEN x
                          ELSE [mem |-> [x.mem EXCEPT ![d + k - 1] = x.mem[s + k - 1]], copied |-> k,
                                ended |-> x.mem[s + k - 1] = 0]
            w == [k \in 0 .. n |-> W(k)]
            Begin == [mem |-> m, copied |-> 0, ended |-> FALSE]
            Is(t) == t = [k \in 0 .. n |-> IF k = 0 THEN Begin ELSE Next(t[k - 1], k)]
<1>2. W(0) = Begin
  <2>1. Z(0) = 0 /\ Copied(m, d, s, 0) = m
    BY <1>1 DEF Memory, Copied, Smaller
  <2>2. (len < 0) = FALSE
    BY <1>1
  <2>. HIDE DEF Z
  <2>. QED  BY <2>1, <2>2, Zenon
<1>3. ASSUME NEW k \in 1 .. n PROVE Next(W(k - 1), k) = W(k)
  <2>0. PICK x : x = Copied(m, d, s, Z(k - 1))
    OBVIOUS
  <2>1. W(k - 1).mem = x
    BY <2>0
  <2>2. W(k - 1).ended <=> len < k - 1
    OBVIOUS
  <2>3. CASE len < k - 1
    <3>1. Z(k - 1) = Z(k)
      BY <1>1, <2>3 DEF Smaller
    <3>2. (len < k - 1) = (len < k)
      BY <1>1, <2>3
    <3>3. W(k - 1) = W(k)
      <4>. HIDE DEF Z
      <4>. QED  BY <3>1, <3>2, Zenon
    <3>4. Next(W(k - 1), k) = W(k - 1)
      <4>. HIDE DEF W
      <4>. QED  BY <2>2, <2>3, Zenon
    <3>. QED  BY <3>3, <3>4
  <2>4. CASE ~(len < k - 1)
    <3>1. Z(k - 1) = k - 1 /\ Z(k) = k
      BY <1>1, <2>4 DEF Smaller
    <3>2. d + k - 1 \in Cell /\ s + k - 1 \in Cell /\ s + k - 1 - d \notin 0 .. k - 1 - 1
      BY <1>1, <2>4 DEF Cell, Object, Disjoint
    <3>3. /\ x[s + k - 1] = m[s + k - 1]
          /\ [x EXCEPT ![d + k - 1] = x[s + k - 1]] = Copied(m, d, s, k)
      <4>1. x = Copied(m, d, s, k - 1) /\ k \in Nat \ {0}
        BY <2>0, <3>1
      <4>2. CopiedToo(x, m, d, s, k)
        BY <3>2, <4>1, CopyOne
      <4>. QED  BY <4>2 DEF CopiedToo
    <3>4. (m[s + k - 1] = 0) <=> (len < k)
      <4>1. CASE k - 1 = len
        <5>1. s + k - 1 = s + len /\ len < k
          BY <1>1, <4>1
        <5>. QED  BY <1>1, <5>1
      <4>2. CASE k - 1 # len
        <5>1. k - 1 \in 0 .. len - 1 /\ s + (k - 1) = s + k - 1 /\ ~(len < k)
          BY <1>1, <2>4, <4>2
        <5>. QED  BY <1>1, <5>1
      <4>. QED  BY <4>1, <4>2
    <3>5. (x[s + k - 1] = 0) = (len < k)
      BY <3>3, <3>4
    <3>6. Next(W(k - 1), k) = [mem |-> [x EXCEPT ![d + k - 1] = x[s + k - 1]], copied |-> k, ended |-> x[s + k - 1] = 0]
      <4>. HIDE DEF W
      <4>. QED  BY <2>1, <2>2, <2>4, Zenon
    <3>7. W(k) = [mem |-> Copied(m, d, s, k), copied |-> k, ended |-> len < k]
      <4>. HIDE DEF Z
      <4>. QED  BY <3>1, Zenon
    <3>. HIDE DEF W, Next
    <3>. QED  BY <3>3, <3>5, <3>6, <3>7, Zenon
  <2>. QED  BY <2>3, <2>4
<1>4. W(n) = [mem |-> Copied(m, d, s, Smaller(n, len + 1)), copied |-> Smaller(n, len + 1), ended |-> len < n]
  BY Zenon
<1>. HIDE DEF W, Next, Begin
<1>5. Is(w)
  <2>1. ASSUME NEW k \in 0 .. n
        PROVE  W(k) = IF k = 0 THEN Begin ELSE Next(w[k - 1], k)
    <3>1. CASE k # 0
      <4>1. k \in 1 .. n /\ w[k - 1] = W(k - 1)
        BY <3>1
      <4>. HIDE DEF w
      <4>. QED  BY <1>3, <3>1, <4>1
    <3>. QED  BY <1>2, <3>1
  <2>. QED  BY <2>1
<1>6. CopyWhatFits(m, d, s, n) = (CHOOSE t : Is(t))[n]
  BY DEF CopyWhatFits, Next, Begin
<1>. DEFINE v == CHOOSE t : Is(t)
<1>7. Is(v)
  <2>. HIDE DEF Is, w
  <2>. QED  BY <1>5
<1>. HIDE DEF v
<1>step. \A k \in 1 .. n : v[k] = Next(v[k - 1], k)
  <2>. SUFFICES ASSUME NEW k \in 1 .. n PROVE v[k] = Next(v[k - 1], k)
    OBVIOUS
  <2>1. \A j \in 0 .. n : v[j] = IF j = 0 THEN Begin ELSE Next(v[j - 1], j)
    BY <1>7, Zenon
  <2>2. k \in 0 .. n /\ k # 0
    OBVIOUS
  <2>. QED  BY <2>1, <2>2, Zenon
<1>. DEFINE S == {k \in 0 .. n : v[k] = W(k)}
<1>8. 0 \in S
  BY <1>2, <1>7
<1>9. ASSUME NEW k \in 1 .. n, k - 1 \in S PROVE k \in S
  <2>1. v[k] = Next(v[k - 1], k)
    BY <1>step
  <2>2. v[k - 1] = W(k - 1)
    BY <1>9
  <2>. QED  BY <1>3, <2>1, <2>2
<1>10. n \in S
  <2>. HIDE DEF S
  <2>. QED  BY <1>8, <1>9, Upward
<1>. QED  BY <1>4, <1>6, <1>10 DEF v

\* strlcpy copies what fits, terminates it, and returns the length of the source.
LEMMA StrLCpyCopies ==
  ASSUME NEW m \in Memory, NEW d \in Nat, NEW s \in Cell, NEW n \in Nat, Object(d, n),
         NEW len, IsLength(m, s, len), Disjoint(d, n, s, len + 1)
  PROVE  /\ StrLCpy(m, d, s, n).mem = StrCopied(m, d, s, IF n = 0 THEN 0 ELSE Smaller(len, n - 1),
                                                IF n = 0 THEN 0 ELSE Smaller(len + 1, n))
         /\ StrLCpy(m, d, s, n).ret = len
<1>1. /\ len \in Nat /\ s \in Nat /\ s + len \in Cell /\ m[s + len] = 0 /\ \A j \in 0 .. len - 1 : m[s + j] # 0
      /\ Size \in Nat
  BY MemoryAssumption DEF IsLength, Cell
<1>2. PICK k \in Nat : k = IF n = 0 THEN 0 ELSE n - 1
  OBVIOUS
<1>10. PICK z : z = Smaller(k, len + 1)
  OBVIOUS
<1>3. z \in Nat /\ z <= k /\ z <= len + 1 /\ (len < k => z = len + 1) /\ (~(len < k) => z = k)
  BY <1>1, <1>10 DEF Smaller
<1>11. PICK x : x = Copied(m, d, s, z)
  OBVIOUS
<1>12. \A b \in Cell : x[b] = IF b - d \in 0 .. z - 1 THEN m[s + (b - d)] ELSE m[b]
  BY <1>11 DEF Copied
<1>13. x = [b \in Cell |-> x[b]]
  BY <1>11 DEF Copied
<1>14. PICK c : c = CopyWhatFits(m, d, s, k)
  OBVIOUS
<1>4. c.mem = x /\ c.copied = z /\ (c.ended <=> len < k)
  <2>1. Object(d, k) /\ Disjoint(d, k, s, len + 1)
    BY <1>1, <1>2 DEF Object, Disjoint
  <2>2. c = [mem |-> x, copied |-> z, ended |-> len < k]
    BY <1>1, <1>10, <1>11, <1>14, <2>1, WhatFits
  <2>3. c.mem = x /\ c.copied = z
    BY <2>2, Zenon
  <2>4. c.ended <=> len < k
    BY <2>2, Zenon
  <2>. QED  BY <2>3, <2>4
<1>15. PICK cut : cut = IF n = 0 THEN x ELSE [x EXCEPT ![d + z] = 0]
  OBVIOUS
<1>5. StrLCpy(m, d, s, n) = IF c.ended THEN [mem |-> x, ret |-> z - 1] ELSE [mem |-> cut, ret |-> Skip(cut, s + z) - s]
  BY <1>2, <1>4, <1>14, <1>15, Zenon DEF StrLCpy
<1>6. CASE len < k
  <2>1. StrLCpy(m, d, s, n) = [mem |-> x, ret |-> z - 1]
    BY <1>4, <1>5, <1>6, Zenon
  <2>2. z - 1 = len /\ n # 0 /\ Smaller(len, n - 1) = len /\ Smaller(len + 1, n) = len + 1
    BY <1>1, <1>2, <1>3, <1>6 DEF Smaller
  <2>3. ASSUME NEW b \in Cell
        PROVE  x[b] = IF b - d \notin 0 .. len + 1 - 1 THEN m[b] ELSE IF b - d < len THEN m[s + b - d] ELSE 0
    <3>0. z = len + 1
      BY <1>3, <1>6
    <3>1. x[b] = IF b - d \in 0 .. len + 1 - 1 THEN m[s + (b - d)] ELSE m[b]
      BY <1>1, <1>12, <3>0
    <3>2. CASE b - d \in 0 .. len + 1 - 1
      <4>1. s + (b - d) = s + b - d
        BY <1>1, <3>2 DEF Cell
      <4>2. CASE b - d < len
        BY <3>1, <3>2, <4>1, <4>2
      <4>3. CASE ~(b - d < len)
        <5>1. b - d = len
          BY <1>1, <3>2, <4>3
        <5>. QED  BY <1>1, <3>1, <3>2, <4>3, <5>1
      <4>. QED  BY <4>2, <4>3
    <3>. QED  BY <3>1, <3>2
  <2>4. x = StrCopied(m, d, s, len, len + 1)
    <3>1. [b \in Cell |-> x[b]] = StrCopied(m, d, s, len, len + 1)
      BY <1>1, <2>3 DEF StrCopied
    <3>. QED  BY <1>13, <3>1, Zenon
  <2>. QED  BY <2>1, <2>2, <2>4
<1>7. CASE ~(len < k)
  <2>1. StrLCpy(m, d, s, n) = [mem |-> cut, ret |-> Skip(cut, s + z) - s]
    BY <1>4, <1>5, <1>7, Zenon
  <2>2. z = k
    BY <1>3, <1>7
  <2>3. ASSUME NEW b \in Cell
        PROVE  cut[b] = IF n = 0 THEN m[b]
                        ELSE IF b - d \notin 0 .. n - 1 THEN m[b] ELSE IF b - d < n - 1 THEN m[s + b - d] ELSE 0
    <3>1. x[b] = IF b - d \in 0 .. k - 1 THEN m[s + (b - d)] ELSE m[b]
      BY <1>12, <2>2
    <3>2. CASE n = 0
      BY <1>2, <1>15, <3>1, <3>2
    <3>3. CASE n # 0
      <4>1. b \in Int /\ k = n - 1
        BY <1>2, <3>3 DEF Cell
      <4>2. cut[b] = IF b = d + k THEN 0 ELSE x[b]
        BY <1>13, <1>15, <2>2, <3>3
      <4>3. CASE b = d + k
        BY <3>3, <4>1, <4>2, <4>3
      <4>4. CASE b # d + k
        <5>1. s + (b - d) = s + b - d /\ (b - d \in 0 .. k - 1 <=> b - d \in 0 .. n - 1) /\ (b - d \in 0 .. n - 1 => b - d < n - 1)
          BY <1>1, <4>1, <4>4
        <5>. QED  BY <3>1, <3>3, <4>2, <4>4, <5>1
      <4>. QED  BY <4>3, <4>4
    <3>. QED  BY <3>2, <3>3
  <2>4. cut = [b \in Cell |-> cut[b]]
    BY <1>13, <1>15
  <2>5. ASSUME NEW j \in 0 .. len PROVE cut[s + j] = m[s + j] /\ s + j \in Cell
    <3>1. s + j \in Cell
      BY <1>1 DEF Cell
    <3>2. n # 0 => s + j - d \notin 0 .. n - 1
      BY <1>1 DEF Disjoint
    <3>3. PICK b \in Cell : b = s + j
      BY <3>1
    <3>4. cut[b] = m[b]
      BY <2>3, <3>2, <3>3
    <3>. QED  BY <3>1, <3>3, <3>4
  <2>6. cut \in Memory
    <3>1. ASSUME NEW b \in Cell, n # 0, b - d \in 0 .. n - 1, b - d < n - 1 PROVE s + b - d \in Cell
      BY <1>1, <1>2, <1>7, <3>1 DEF Cell
    <3>2. ASSUME NEW b \in Cell PROVE cut[b] \in 0 .. 255
      BY <2>3, <3>1 DEF Memory
    <3>. QED  BY <2>4, <3>2 DEF Memory
  <2>7. IsLength(cut, s, len)
    BY <1>1, <2>5 DEF IsLength
  <2>8. Skip(cut, s + z) - s = len
    <3>1. z \in 0 .. len
      BY <1>1, <1>3, <1>7, <2>2
    <3>2. Skip(cut, s + z) = s + len
      BY <2>6, <2>7, <3>1, SkipEnds
    <3>. QED  BY <1>1, <3>2
  <2>9. cut = StrCopied(m, d, s, IF n = 0 THEN 0 ELSE Smaller(len, n - 1), IF n = 0 THEN 0 ELSE Smaller(len + 1, n))
    <3>1. CASE n = 0
      <4>1. \A b \in Cell : b - d \notin 0 .. 0 - 1
        OBVIOUS
      <4>. QED  BY <2>3, <2>4, <3>1, <4>1 DEF StrCopied
    <3>2. CASE n # 0
      <4>1. Smaller(len, n - 1) = n - 1 /\ Smaller(len + 1, n) = n
        BY <1>1, <1>2, <1>7, <3>2 DEF Smaller
      <4>. QED  BY <2>3, <2>4, <3>2, <4>1 DEF StrCopied
    <3>. QED  BY <3>1, <3>2
  <2>. QED  BY <2>1, <2>8, <2>9
<1>. QED  BY <1>6, <1>7

-----------------------------------------------------------------------------
(* The calls.                                                                *)

LengthIn(m, s) == CHOOSE k \in 0 .. Size - 1 : m[s + k] = 0 /\ \A j \in 0 .. k - 1 : m[s + j] # 0

\* CopiesExact and SearchesExact of the call r after which the memory is m.
CopiesFor(r, m) ==
  r.fn \in {"memmove", "memset", "strncpy", "strlcpy"} =>
    LET d == r.a  s == r.b  n == r.n
        kept(k) == CASE r.fn = "memmove" -> n
                     [] r.fn = "strncpy" -> Smaller(LengthIn(r.old, s), n)
                     [] r.fn = "strlcpy" -> IF n = 0 THEN 0 ELSE Smaller(LengthIn(r.old, s), n - 1)
        written == CASE r.fn = "strlcpy" -> IF n = 0 THEN 0 ELSE Smaller(LengthIn(r.old, s) + 1, n)
                     [] OTHER -> n
    IN /\ \A c \in Cell :
            m[c] = IF c - d \notin 0 .. written - 1 THEN r.old[c]
                   ELSE IF r.fn = "memset" THEN s % 256
                   ELSE IF c - d < kept(0) THEN r.old[s + c - d]
                   ELSE 0
       /\ r.ret = IF r.fn = "strlcpy" THEN LengthIn(r.old, s) ELSE d

FindsFor(r) ==
  r.fn \in {"memchr", "strchr", "strrchr"} =>
    LET s == r.a
        n == IF r.fn = "memchr" THEN r.n ELSE LengthIn(r.old, s) + 1
        hits == {p \in s .. s + n - 1 : r.old[p] = r.b % 256}
    IN /\ r.ret = NULL <=> hits = {}
       /\ hits # {} =>
            /\ r.ret \in hits
            /\ \A p \in hits : IF r.fn = "strrchr" THEN p <= r.ret ELSE p >= r.ret

MeasuresFor(r) == r.fn \in {"strnlen"} => r.ret = Smaller(LengthIn(r.old, r.a), r.n)

ComparesWith(ret, m, s, d, n) ==
  LET differ == {k \in 0 .. n - 1 : m[s + k] # m[d + k]}
  IN IF differ = {} THEN ret = 0
     ELSE LET k == CHOOSE k \in differ : \A j \in differ : k <= j
          IN (ret > 0 <=> m[s + k] > m[d + k]) /\ ret # 0

ComparesFor(r) ==
  r.fn \in {"memcmp", "strncmp"} =>
    LET s == r.a  d == r.b
        n == IF r.fn = "memcmp" THEN r.n
             ELSE Smaller(r.n, 1 + Smaller(LengthIn(r.old, s), LengthIn(r.old, d)))
    IN ComparesWith(r.ret, r.old, s, d, n)

ExactFor(r, m) == CopiesFor(r, m) /\ FindsFor(r) /\ MeasuresFor(r) /\ ComparesFor(r)

\* strlen and the length of the C standard agree.
LEMMA LengthFacts ==
  ASSUME NEW m \in Memory, NEW s \in Cell, StringAt(m, s)
  PROVE  \E len \in Nat : IsLength(m, s, len) /\ LengthIn(m, s) = len /\ StrLen(m, s) = len
<1>1. PICK len \in Nat : IsLength(m, s, len)
  BY LengthExists
<1>2. s \in Nat /\ len \in 0 .. Size - 1 /\ m[s + len] = 0 /\ \A j \in 0 .. len - 1 : m[s + j] # 0
  BY <1>1, MemoryAssumption DEF IsLength, Cell
<1>. DEFINE P(k) == m[s + k] = 0 /\ \A j \in 0 .. k - 1 : m[s + j] # 0
<1>3. ASSUME NEW k \in 0 .. Size - 1, P(k) PROVE k = len
  <2>1. k \in Nat
    OBVIOUS
  <2>. QED  BY <1>1, <1>3, <2>1, LengthUnique
<1>4. P(len)
  BY <1>2
<1>5. LengthIn(m, s) = CHOOSE k \in 0 .. Size - 1 : P(k)
  BY DEF LengthIn
<1>6. LengthIn(m, s) = len
  <2>. HIDE DEF P
  <2>. QED  BY <1>2, <1>3, <1>4, <1>5
<1>7. StrLen(m, s) = len
  <2>1. Skip(m, s + 0) = s + len /\ s + 0 = s
    BY <1>1, <1>2, SkipEnds
  <2>. QED  BY <1>2, <2>1 DEF StrLen
<1>. QED  BY <1>1, <1>6, <1>7

\* The call as it is kept, and what is exact about each.
CallOf(fn, a, b, n, m, ret) == [fn |-> fn, a |-> a, b |-> b, n |-> n, old |-> m, ret |-> ret]

\* A copy that reads all of the source as it was is what memmove must do.
LEMMA ExactMove ==
  ASSUME NEW m, NEW d \in Cell, NEW s \in Cell, NEW n \in Nat, NEW r, r = CallOf("memmove", d, s, n, m, d)
  PROVE  ExactFor(r, Copied(m, d, s, n))
<1>1. r.fn = "memmove" /\ r.a = d /\ r.b = s /\ r.n = n /\ r.old = m /\ r.ret = d
  BY DEF CallOf
<1>. PICK x : x = Copied(m, d, s, n)
  OBVIOUS
<1>2. ASSUME NEW c \in Cell
      PROVE  x[c] = IF c - d \notin 0 .. n - 1 THEN m[c] ELSE IF c - d < n THEN m[s + c - d] ELSE 0
  <2>1. x[c] = IF c - d \in 0 .. n - 1 THEN m[s + (c - d)] ELSE m[c]
    BY DEF Copied
  <2>2. CASE c - d \in 0 .. n - 1
    <3>1. s + (c - d) = s + c - d /\ c - d < n
      BY <2>2 DEF Cell
    <3>. QED  BY <2>1, <2>2, <3>1
  <2>. QED  BY <2>1, <2>2
<1>3. CopiesFor(r, x)
  BY <1>1, <1>2 DEF CopiesFor
<1>4. FindsFor(r) /\ MeasuresFor(r) /\ ComparesFor(r)
  BY <1>1 DEF FindsFor, MeasuresFor, ComparesFor
<1>. QED  BY <1>3, <1>4 DEF ExactFor

\* Cells set to the low byte are what memset must do.
LEMMA ExactSet ==
  ASSUME NEW m, NEW d \in Cell, NEW val, NEW n \in Nat, NEW r, r = CallOf("memset", d, val, n, m, d),
         NEW x, x = [c \in Cell |-> IF c - d \in 0 .. n - 1 THEN val % 256 ELSE m[c]]
  PROVE  ExactFor(r, x)
<1>1. r.fn = "memset" /\ r.a = d /\ r.b = val /\ r.n = n /\ r.old = m /\ r.ret = d
  BY DEF CallOf
<1>2. \A c \in Cell : x[c] = IF c - d \notin 0 .. n - 1 THEN m[c] ELSE val % 256
  OBVIOUS
<1>3. CopiesFor(r, x)
  BY <1>1, <1>2 DEF CopiesFor
<1>4. FindsFor(r) /\ MeasuresFor(r) /\ ComparesFor(r)
  BY <1>1 DEF FindsFor, MeasuresFor, ComparesFor
<1>. QED  BY <1>3, <1>4 DEF ExactFor

\* A string copied and padded is what strncpy must do.
LEMMA ExactStrNCpy ==
  ASSUME NEW m, NEW d \in Cell, NEW s \in Cell, NEW n \in Nat, NEW r, r = CallOf("strncpy", d, s, n, m, d),
         NEW x, x = StrCopied(m, d, s, Smaller(LengthIn(m, s), n), n)
  PROVE  ExactFor(r, x)
<1>1. r.fn = "strncpy" /\ r.a = d /\ r.b = s /\ r.n = n /\ r.old = m /\ r.ret = d
  BY DEF CallOf
<1>2. \A c \in Cell : x[c] = IF c - d \notin 0 .. n - 1 THEN m[c]
                             ELSE IF c - d < Smaller(LengthIn(m, s), n) THEN m[s + c - d] ELSE 0
  BY DEF StrCopied
<1>3. CopiesFor(r, x)
  BY <1>1, <1>2 DEF CopiesFor
<1>4. FindsFor(r) /\ MeasuresFor(r) /\ ComparesFor(r)
  BY <1>1 DEF FindsFor, MeasuresFor, ComparesFor
<1>. QED  BY <1>3, <1>4 DEF ExactFor

\* A string cut and terminated is what strlcpy must do.
LEMMA ExactStrLCpy ==
  ASSUME NEW m, NEW d \in Cell, NEW s \in Cell, NEW n \in Nat, NEW r,
         r = CallOf("strlcpy", d, s, n, m, LengthIn(m, s)), NEW x,
         x = StrCopied(m, d, s, IF n = 0 THEN 0 ELSE Smaller(LengthIn(m, s), n - 1),
                                IF n = 0 THEN 0 ELSE Smaller(LengthIn(m, s) + 1, n))
  PROVE  ExactFor(r, x)
<1>1. r.fn = "strlcpy" /\ r.a = d /\ r.b = s /\ r.n = n /\ r.old = m /\ r.ret = LengthIn(m, s)
  BY DEF CallOf
<1>. PICK kept : kept = IF n = 0 THEN 0 ELSE Smaller(LengthIn(m, s), n - 1)
  OBVIOUS
<1>. PICK written : written = IF n = 0 THEN 0 ELSE Smaller(LengthIn(m, s) + 1, n)
  OBVIOUS
<1>2. \A c \in Cell : x[c] = IF c - d \notin 0 .. written - 1 THEN m[c] ELSE IF c - d < kept THEN m[s + c - d] ELSE 0
  BY DEF StrCopied
<1>3. CopiesFor(r, x)
  BY <1>1, <1>2 DEF CopiesFor
<1>4. FindsFor(r) /\ MeasuresFor(r) /\ ComparesFor(r)
  BY <1>1 DEF FindsFor, MeasuresFor, ComparesFor
<1>. QED  BY <1>3, <1>4 DEF ExactFor

\* What the search fn has found among the first n cells.
Searched(fn, ret, m, s, c, k, n) ==
  \/ fn = "memchr" /\ n = k /\ FirstHit(ret, Hits(m, s, n, c % 256))
  \/ fn = "strchr" /\ n = LengthIn(m, s) + 1 /\ FirstHit(ret, Hits(m, s, n, c % 256))
  \/ fn = "strrchr" /\ n = LengthIn(m, s) + 1 /\ LastHit(ret, Hits(m, s, n, c % 256))

\* A first or last hit is what a search must return.
LEMMA ExactSearch ==
  ASSUME NEW m, NEW s \in Cell, NEW c, NEW k, NEW n \in Nat, NEW fn, NEW ret, NEW r, r = CallOf(fn, s, c, k, m, ret),
         Searched(fn, ret, m, s, c, k, n)
  PROVE  ExactFor(r, m)
<1>. USE DEF Searched
<1>1. r.fn = fn /\ r.a = s /\ r.b = c /\ r.n = k /\ r.old = m /\ r.ret = ret
  BY DEF CallOf
<1>. PICK hits : hits = Hits(m, s, n, c % 256)
  OBVIOUS
<1>2. NULL \notin hits /\ hits = {p \in s .. s + n - 1 : m[p] = c % 256}
  BY MemoryAssumption DEF Hits, NULL, Cell
<1>3. n = IF r.fn = "memchr" THEN r.n ELSE LengthIn(r.old, s) + 1
  BY <1>1
<1>4. ret = NULL <=> hits = {}
  BY <1>2 DEF FirstHit, LastHit
<1>5. hits # {} =>
        /\ ret \in hits
        /\ \A p \in hits : IF fn = "strrchr" THEN p <= ret ELSE p >= ret
  BY DEF FirstHit, LastHit
<1>6. FindsFor(r)
  BY <1>1, <1>2, <1>3, <1>4, <1>5 DEF FindsFor
<1>7. CopiesFor(r, m) /\ MeasuresFor(r) /\ ComparesFor(r)
  BY <1>1 DEF CopiesFor, MeasuresFor, ComparesFor
<1>. QED  BY <1>6, <1>7 DEF ExactFor

\* The length cut to maxlen is what strnlen must return.
LEMMA ExactMeasure ==
  ASSUME NEW m, NEW s, NEW n, NEW ret, NEW r, r = CallOf("strnlen", s, 0, n, m, ret), ret = Smaller(LengthIn(m, s), n)
  PROVE  ExactFor(r, m)
<1>1. r.fn = "strnlen" /\ r.a = s /\ r.n = n /\ r.old = m /\ r.ret = ret
  BY DEF CallOf
<1>2. MeasuresFor(r)
  BY <1>1 DEF MeasuresFor
<1>3. CopiesFor(r, m) /\ FindsFor(r) /\ ComparesFor(r)
  BY <1>1 DEF CopiesFor, FindsFor, ComparesFor
<1>. QED  BY <1>2, <1>3 DEF ExactFor

\* The difference of the first cells that differ is what a comparison must return.
LEMMA ExactCompare ==
  ASSUME NEW m \in Memory, NEW s \in Cell, NEW d \in Cell, NEW k, NEW n \in Nat, Object(s, n), Object(d, n),
         NEW fn, NEW ret, NEW r, r = CallOf(fn, s, d, k, m, ret), Compares(ret, m, s, d, n),
         \/ fn = "memcmp" /\ n = k
         \/ fn = "strncmp" /\ n = Smaller(k, 1 + Smaller(LengthIn(m, s), LengthIn(m, d)))
  PROVE  ExactFor(r, m)
<1>1. r.fn = fn /\ r.a = s /\ r.b = d /\ r.n = k /\ r.old = m /\ r.ret = ret
  BY DEF CallOf
<1>2. n = IF r.fn = "memcmp" THEN r.n ELSE Smaller(r.n, 1 + Smaller(LengthIn(r.old, s), LengthIn(r.old, d)))
  BY <1>1
<1>0. PICK differ : differ = DifferAt(m, s, d, n)
  OBVIOUS
<1>3. differ = {j \in 0 .. n - 1 : m[s + j] # m[d + j]}
  BY <1>0 DEF DifferAt
<1>4. IF differ = {} THEN ret = 0
      ELSE LET j == CHOOSE j \in differ : \A i \in differ : j <= i
           IN (ret > 0 <=> m[s + j] > m[d + j]) /\ ret # 0
  <2>1. CASE differ = {}
    BY <1>0, <2>1 DEF Compares
  <2>2. CASE differ # {}
    <3>1. PICK j \in differ : (\A i \in differ : j <= i) /\ ret = m[s + j] - m[d + j]
      BY <1>0, <2>2 DEF Compares
    <3>. DEFINE P(l) == \A i \in differ : l <= i
    <3>2. ASSUME NEW l \in differ, P(l) PROVE l = j
      <4>1. l <= j /\ j <= l /\ l \in Int /\ j \in Int
        BY <1>3, <3>1, <3>2
      <4>. QED  BY <4>1
    <3>3. (CHOOSE l \in differ : P(l)) = j
      <4>1. P(j)
        BY <3>1
      <4>. HIDE DEF P
      <4>. QED  BY <3>2, <4>1
    <3>4. m[s + j] \in Int /\ m[d + j] \in Int /\ m[s + j] # m[d + j]
      <4>1. s + j \in Cell /\ d + j \in Cell
        BY <1>3, MemoryAssumption DEF Cell, Object
      <4>. QED  BY <1>3, <4>1 DEF Memory
    <3>5. (ret > 0 <=> m[s + j] > m[d + j]) /\ ret # 0
      BY <3>1, <3>4
    <3>. QED  BY <2>2, <3>3, <3>5
  <2>. QED  BY <2>1, <2>2
<1>5. ComparesFor(r)
  <2>1. ComparesWith(ret, m, s, d, n)
    BY <1>3, <1>4, Zenon DEF ComparesWith
  <2>. QED  BY <1>1, <1>2, <2>1 DEF ComparesFor
<1>6. CopiesFor(r, m) /\ FindsFor(r) /\ MeasuresFor(r)
  BY <1>1 DEF CopiesFor, FindsFor, MeasuresFor
<1>. QED  BY <1>5, <1>6 DEF ExactFor

-----------------------------------------------------------------------------
(* The invariant.                                                            *)

MemInv == (memCall.fn = "filled" => mem \in Memory) /\ MemoryExact

\* A call keeps the invariant if what it gives is exact.
LEMMA CalledInv ==
  ASSUME NEW fn, fn # "filled", NEW a, NEW b, NEW n, NEW m, NEW ret, Called(fn, a, b, n, m, ret),
         ExactFor(CallOf(fn, a, b, n, mem, ret), m)
  PROVE  MemInv'
<1>1. mem' = m /\ memCall' = CallOf(fn, a, b, n, mem, ret)
  BY DEF Called, CallOf
<1>2. memCall'.fn # "filled"
  BY <1>1 DEF CallOf
<1>3. ExactFor(memCall', mem')
  BY <1>1
<1>4. MemoryExact'
  BY <1>3, Zenon DEF MemoryExact, CopiesExact, SearchesExact, ExactFor, CopiesFor, FindsFor, MeasuresFor, ComparesFor,
                     ComparesWith, Made, LengthIn, Length
<1>. QED  BY <1>2, <1>4 DEF MemInv

\* The memory a function is called on holds bytes.
LEMMA CalledMemory ==
  ASSUME MemInv, NEW fn, NEW a, NEW b, NEW n, NEW m, NEW ret, Called(fn, a, b, n, m, ret)
  PROVE  mem \in Memory
<1>1. memCall.fn = "filled"
  BY DEF Called
<1>. QED  BY <1>1 DEF MemInv

\* The copying functions keep the invariant.
LEMMA CopyInv == MemInv /\ Copy => MemInv'
<1>. SUFFICES ASSUME MemInv, Copy PROVE MemInv'
  OBVIOUS
<1>1. PICK d \in Cell, s \in Cell, n \in 0 .. Size :
    /\ Object(d, n)
    /\ \/ /\ Object(s, n)
          /\ \/ Called("memmove", d, s, n, MemMove(mem, d, s, n), d)
             \/ Disjoint(d, n, s, n) /\ Called("memmove", d, s, n, MemCpy(mem, d, s, n), d)
             \/ /\ Disjoint(d, n, s, n) /\ d % Chunk = 0 /\ s % Chunk = 0
                /\ Called("memmove", d, s, n, MemCpy16(mem, d, s, n), d)
       \/ /\ StringAt(mem, s) /\ Disjoint(d, n, s, StrLen(mem, s) + 1)
          /\ \/ Called("strncpy", d, s, n, StrNCpy(mem, d, s, n), d)
             \/ LET c == StrLCpy(mem, d, s, n) IN Called("strlcpy", d, s, n, c.mem, c.ret)
  BY DEF Copy
<1>2. n \in Nat /\ d \in Nat /\ s \in Nat
  BY MemoryAssumption DEF Cell
<1>3. mem \in Memory
  BY <1>1, CalledMemory
<1>4. ASSUME Object(s, n), NEW m, m = Copied(mem, d, s, n), Called("memmove", d, s, n, m, d) PROVE MemInv'
  BY <1>2, <1>4, ExactMove, CalledInv
<1>5. ASSUME Object(s, n), Called("memmove", d, s, n, MemMove(mem, d, s, n), d) PROVE MemInv'
  BY <1>1, <1>2, <1>3, <1>4, <1>5, MemMoveCopies
<1>6. ASSUME Object(s, n), Disjoint(d, n, s, n), Called("memmove", d, s, n, MemCpy(mem, d, s, n), d) PROVE MemInv'
  BY <1>1, <1>2, <1>3, <1>4, <1>6, MemCpyCopies
<1>7. ASSUME Object(s, n), Disjoint(d, n, s, n), Called("memmove", d, s, n, MemCpy16(mem, d, s, n), d) PROVE MemInv'
  BY <1>1, <1>2, <1>3, <1>4, <1>7, MemCpy16Copies
<1>8. ASSUME StringAt(mem, s), Disjoint(d, n, s, StrLen(mem, s) + 1) 
      PROVE  \E len \in Nat : IsLength(mem, s, len) /\ LengthIn(mem, s) = len /\ Disjoint(d, n, s, len + 1)
  BY <1>3, <1>8, LengthFacts
<1>9. ASSUME StringAt(mem, s), Disjoint(d, n, s, StrLen(mem, s) + 1),
             Called("strncpy", d, s, n, StrNCpy(mem, d, s, n), d)
      PROVE  MemInv'
  <2>1. PICK len \in Nat : IsLength(mem, s, len) /\ LengthIn(mem, s) = len /\ Disjoint(d, n, s, len + 1)
    BY <1>8, <1>9
  <2>2. StrNCpy(mem, d, s, n) = StrCopied(mem, d, s, Smaller(LengthIn(mem, s), n), n)
    BY <1>1, <1>2, <1>3, <2>1, StrNCpyCopies
  <2>3. ExactFor(CallOf("strncpy", d, s, n, mem, d), StrNCpy(mem, d, s, n))
    BY <1>2, <2>2, ExactStrNCpy
  <2>. QED  BY <1>9, <2>3, CalledInv
<1>10. ASSUME StringAt(mem, s), Disjoint(d, n, s, StrLen(mem, s) + 1), NEW c, c = StrLCpy(mem, d, s, n),
              Called("strlcpy", d, s, n, c.mem, c.ret)
      PROVE  MemInv'
  <2>1. PICK len \in Nat : IsLength(mem, s, len) /\ LengthIn(mem, s) = len /\ Disjoint(d, n, s, len + 1)
    BY <1>8, <1>10
  <2>2. /\ c.mem = StrCopied(mem, d, s, IF n = 0 THEN 0 ELSE Smaller(LengthIn(mem, s), n - 1),
                                        IF n = 0 THEN 0 ELSE Smaller(LengthIn(mem, s) + 1, n))
        /\ c.ret = LengthIn(mem, s)
    BY <1>1, <1>2, <1>3, <1>10, <2>1, StrLCpyCopies
  <2>. PICK x : x = c.mem
    OBVIOUS
  <2>3. ExactFor(CallOf("strlcpy", d, s, n, mem, LengthIn(mem, s)), x)
    BY <1>2, <2>2, ExactStrLCpy
  <2>4. Called("strlcpy", d, s, n, x, LengthIn(mem, s))
    BY <1>10, <2>2
  <2>. QED  BY <2>3, <2>4, CalledInv
<1>. QED  BY <1>1, <1>5, <1>6, <1>7, <1>9, <1>10

\* memset and zeromem16 keep the invariant.
LEMMA SetInv == MemInv /\ Set => MemInv'
<1>. SUFFICES ASSUME MemInv, Set PROVE MemInv'
  OBVIOUS
<1>1. PICK d \in Cell, c \in CharArg, n \in 0 .. Size :
    /\ Object(d, n)
    /\ \/ Called("memset", d, c, n, MemSet(mem, d, c, n), d)
       \/ c = 0 /\ d % Chunk = 0 /\ Called("memset", d, 0, n, ZeroMem16(mem, d, n), d)
  BY DEF Set
<1>2. n \in Nat /\ d \in Nat
  BY MemoryAssumption DEF Cell
<1>3. mem \in Memory
  BY <1>1, CalledMemory
<1>4. ASSUME NEW x, NEW b, x = [i \in Cell |-> IF i - d \in 0 .. n - 1 THEN b % 256 ELSE mem[i]],
             Called("memset", d, b, n, x, d)
      PROVE  MemInv'
  <2>1. ExactFor(CallOf("memset", d, b, n, mem, d), x)
    BY <1>2, <1>4, ExactSet
  <2>. QED  BY <1>4, <2>1, CalledInv
<1>5. CASE Called("memset", d, c, n, MemSet(mem, d, c, n), d)
  <2>1. MemSet(mem, d, c, n) = [i \in Cell |-> IF i - d \in 0 .. n - 1 THEN c % 256 ELSE mem[i]]
    BY <1>1, <1>2, <1>3, MemSetSets
  <2>. QED  BY <1>4, <1>5, <2>1
<1>6. CASE Called("memset", d, 0, n, ZeroMem16(mem, d, n), d)
  <2>1. 0 % 256 = 0
    OBVIOUS
  <2>2. ZeroMem16(mem, d, n) = [i \in Cell |-> IF i - d \in 0 .. n - 1 THEN 0 % 256 ELSE mem[i]]
    BY <1>1, <1>2, <1>3, <2>1, ZeroMem16Sets
  <2>. QED  BY <1>4, <1>6, <2>2
<1>. QED  BY <1>1, <1>5, <1>6

\* The searches keep the invariant.
LEMMA SearchInv == MemInv /\ Search => MemInv'
<1>. SUFFICES ASSUME MemInv, Search PROVE MemInv'
  OBVIOUS
<1>1. PICK s \in Cell, c \in CharArg, n \in 0 .. Size :
    \/ Object(s, n) /\ Called("memchr", s, c, n, mem, MemChr(mem, s, c, n))
    \/ /\ StringAt(mem, s)
       /\ \/ Called("strchr", s, c, 0, mem, StrChr(mem, s, c))
          \/ Called("strrchr", s, c, 0, mem, StrRChr(mem, s, c))
          \/ Called("strnlen", s, 0, n, mem, StrNLen(mem, s, n))
          \/ Called("strnlen", s, 0, Size, mem, StrLen(mem, s))
  BY DEF Search
<1>2. n \in Nat /\ s \in Nat
  BY MemoryAssumption DEF Cell
<1>3. mem \in Memory
  BY <1>1, CalledMemory
<1>4. CASE Called("memchr", s, c, n, mem, MemChr(mem, s, c, n))
  <2>1. PICK ret : ret = MemChr(mem, s, c, n)
    OBVIOUS
  <2>3. FirstHit(ret, Hits(mem, s, n, c % 256))
    BY <1>2, <2>1, MemChrFinds
  <2>5. Searched("memchr", ret, mem, s, c, n, n)
    BY <2>3 DEF Searched
  <2>4. ExactFor(CallOf("memchr", s, c, n, mem, ret), mem)
    BY <1>2, <2>5, ExactSearch
  <2>2. ExactFor(CallOf("memchr", s, c, n, mem, MemChr(mem, s, c, n)), mem)
    BY <2>1, <2>4
  <2>. QED  BY <1>4, <2>2, CalledInv
<1>5. CASE StringAt(mem, s) /\ Called("strchr", s, c, 0, mem, StrChr(mem, s, c))
  <2>1. PICK len \in Nat : IsLength(mem, s, len) /\ LengthIn(mem, s) = len
    BY <1>3, <1>5, LengthFacts
  <2>2. PICK k \in Nat : k = len + 1
    OBVIOUS
  <2>3. FirstHit(StrChr(mem, s, c), Hits(mem, s, k, c % 256)) /\ k = LengthIn(mem, s) + 1
    BY <1>3, <2>1, <2>2, StrChrFinds
  <2>5. Searched("strchr", StrChr(mem, s, c), mem, s, c, 0, k)
    BY <2>3 DEF Searched
  <2>4. ExactFor(CallOf("strchr", s, c, 0, mem, StrChr(mem, s, c)), mem)
    BY <2>5, ExactSearch
  <2>. QED  BY <1>5, <2>4, CalledInv
<1>6. CASE StringAt(mem, s) /\ Called("strrchr", s, c, 0, mem, StrRChr(mem, s, c))
  <2>1. PICK len \in Nat : IsLength(mem, s, len) /\ LengthIn(mem, s) = len
    BY <1>3, <1>6, LengthFacts
  <2>2. PICK k \in Nat : k = len + 1
    OBVIOUS
  <2>3. LastHit(StrRChr(mem, s, c), Hits(mem, s, k, c % 256)) /\ k = LengthIn(mem, s) + 1
    BY <1>3, <2>1, <2>2, StrRChrFinds
  <2>5. Searched("strrchr", StrRChr(mem, s, c), mem, s, c, 0, k)
    BY <2>3 DEF Searched
  <2>4. ExactFor(CallOf("strrchr", s, c, 0, mem, StrRChr(mem, s, c)), mem)
    BY <2>5, ExactSearch
  <2>. QED  BY <1>6, <2>4, CalledInv
<1>7. CASE StringAt(mem, s) /\ Called("strnlen", s, 0, n, mem, StrNLen(mem, s, n))
  <2>1. PICK len \in Nat : IsLength(mem, s, len) /\ LengthIn(mem, s) = len
    BY <1>3, <1>7, LengthFacts
  <2>2. StrNLen(mem, s, n) = Smaller(LengthIn(mem, s), n)
    BY <1>2, <2>1, StrNLenFinds
  <2>3. ExactFor(CallOf("strnlen", s, 0, n, mem, StrNLen(mem, s, n)), mem)
    BY <2>2, ExactMeasure
  <2>. QED  BY <1>7, <2>3, CalledInv
<1>8. CASE StringAt(mem, s) /\ Called("strnlen", s, 0, Size, mem, StrLen(mem, s))
  <2>1. PICK len \in Nat : IsLength(mem, s, len) /\ LengthIn(mem, s) = len /\ StrLen(mem, s) = len
    BY <1>3, <1>8, LengthFacts
  <2>2. len < Size
    BY <1>2, <2>1, MemoryAssumption DEF IsLength, Cell
  <2>3. StrLen(mem, s) = Smaller(LengthIn(mem, s), Size)
    BY <2>1, <2>2 DEF Smaller
  <2>4. ExactFor(CallOf("strnlen", s, 0, Size, mem, StrLen(mem, s)), mem)
    BY <2>3, ExactMeasure
  <2>. QED  BY <1>8, <2>4, CalledInv
<1>. QED  BY <1>1, <1>4, <1>5, <1>6, <1>7, <1>8

\* The comparisons keep the invariant.
LEMMA CompareInv == MemInv /\ Compare => MemInv'
<1>. SUFFICES ASSUME MemInv, Compare PROVE MemInv'
  OBVIOUS
<1>1. PICK s \in Cell, d \in Cell, n \in 0 .. Size :
    \/ Object(s, n) /\ Object(d, n) /\ Called("memcmp", s, d, n, mem, MemCmp(mem, s, d, n))
    \/ /\ StringAt(mem, s) /\ StringAt(mem, d)
       /\ \/ Called("strncmp", s, d, Size, mem, StrCmp(mem, s, d))
          \/ Called("strncmp", s, d, n, mem, StrNCmp(mem, s, d, n))
  BY DEF Compare
<1>2. n \in Nat /\ s \in Nat /\ d \in Nat /\ Size \in Nat
  BY MemoryAssumption DEF Cell
<1>3. mem \in Memory
  BY <1>1, CalledMemory
<1>4. CASE Object(s, n) /\ Object(d, n) /\ Called("memcmp", s, d, n, mem, MemCmp(mem, s, d, n))
  <2>1. Compares(MemCmp(mem, s, d, n), mem, s, d, n)
    BY <1>2, MemCmpFinds
  <2>2. ExactFor(CallOf("memcmp", s, d, n, mem, MemCmp(mem, s, d, n)), mem)
    BY <1>2, <1>3, <1>4, <2>1, ExactCompare
  <2>. QED  BY <1>4, <2>2, CalledInv
<1>5. ASSUME StringAt(mem, s), StringAt(mem, d), NEW k \in Nat, k <= Size
      PROVE  \E ls, ld, z \in Nat :
               /\ IsLength(mem, s, ls) /\ IsLength(mem, d, ld)
               /\ LengthIn(mem, s) = ls /\ LengthIn(mem, d) = ld
               /\ z = Smaller(k, 1 + Smaller(ls, ld)) /\ Object(s, z) /\ Object(d, z)
  <2>1. PICK ls \in Nat : IsLength(mem, s, ls) /\ LengthIn(mem, s) = ls
    BY <1>3, <1>5, LengthFacts
  <2>2. PICK ld \in Nat : IsLength(mem, d, ld) /\ LengthIn(mem, d) = ld
    BY <1>3, <1>5, LengthFacts
  <2>3. s + ls < Size /\ d + ld < Size
    BY <1>2, <2>1, <2>2, MemoryAssumption DEF IsLength, Cell
  <2>4. PICK z \in Nat : z = Smaller(k, 1 + Smaller(ls, ld)) /\ z <= ls + 1 /\ z <= ld + 1
    BY <1>5, <2>1, <2>2 DEF Smaller
  <2>5. Object(s, z) /\ Object(d, z)
    BY <1>2, <2>3, <2>4 DEF Object
  <2>. QED  BY <2>1, <2>2, <2>4, <2>5
<1>6. CASE StringAt(mem, s) /\ StringAt(mem, d) /\ Called("strncmp", s, d, Size, mem, StrCmp(mem, s, d))
  <2>1. PICK ls, ld, z \in Nat :
               /\ IsLength(mem, s, ls) /\ IsLength(mem, d, ld)
               /\ LengthIn(mem, s) = ls /\ LengthIn(mem, d) = ld
               /\ z = Smaller(Size, 1 + Smaller(ls, ld)) /\ Object(s, z) /\ Object(d, z)
    BY <1>2, <1>5, <1>6
  <2>2. Compares(StrCmp(mem, s, d), mem, s, d, z)
    BY <1>3, <2>1, StrCmpFinds
  <2>3. ExactFor(CallOf("strncmp", s, d, Size, mem, StrCmp(mem, s, d)), mem)
    BY <1>3, <2>1, <2>2, ExactCompare
  <2>. QED  BY <1>6, <2>3, CalledInv
<1>7. CASE StringAt(mem, s) /\ StringAt(mem, d) /\ Called("strncmp", s, d, n, mem, StrNCmp(mem, s, d, n))
  <2>1. PICK ls, ld, z \in Nat :
               /\ IsLength(mem, s, ls) /\ IsLength(mem, d, ld)
               /\ LengthIn(mem, s) = ls /\ LengthIn(mem, d) = ld
               /\ z = Smaller(n, 1 + Smaller(ls, ld)) /\ Object(s, z) /\ Object(d, z)
    BY <1>2, <1>5, <1>7
  <2>2. Compares(StrNCmp(mem, s, d, n), mem, s, d, z)
    BY <1>2, <2>1, StrNCmpFinds
  <2>3. ExactFor(CallOf("strncmp", s, d, n, mem, StrNCmp(mem, s, d, n)), mem)
    BY <1>3, <2>1, <2>2, ExactCompare
  <2>. QED  BY <1>7, <2>3, CalledInv
<1>. QED  BY <1>1, <1>4, <1>6, <1>7

\* The loops of the C library and of zeromem16 and memcpy16 do, on a memory of any
\* size and for every length, what the C standard says of their functions.
THEOREM LoopsMeanWhatTheyShould == MemSpec => []MemoryExact
<1>1. MemInit => MemInv
  <2>. SUFFICES ASSUME MemInit PROVE MemInv
    OBVIOUS
  <2>1. memCall.fn = "empty"
    BY DEF MemInit
  <2>. QED  BY <2>1 DEF MemInv, MemoryExact, CopiesExact, SearchesExact, Made
<1>2. MemInv /\ [MemNext]_memVars => MemInv'
  <2>. SUFFICES ASSUME MemInv, [MemNext]_memVars PROVE MemInv'
    OBVIOUS
  <2>1. CASE Fill
    <3>1. mem' \in [Cell -> Byte] /\ memCall'.fn = "filled"
      BY <2>1 DEF Fill
    <3>2. mem' \in Memory
      BY <3>1, MemoryAssumption DEF Memory
    <3>. QED  BY <3>1, <3>2 DEF MemInv, MemoryExact, CopiesExact, SearchesExact, Made
  <2>2. CASE UNCHANGED memVars
    <3>1. mem' = mem /\ memCall' = memCall
      BY <2>2 DEF memVars
    <3>2. ExactFor(memCall, mem)
      BY Zenon DEF MemInv, MemoryExact, CopiesExact, SearchesExact, ExactFor, CopiesFor, FindsFor, MeasuresFor,
                   ComparesFor, ComparesWith, Made, LengthIn, Length
    <3>3. ExactFor(memCall', mem')
      BY <3>1, <3>2
    <3>4. MemoryExact'
      BY <3>3, Zenon DEF MemoryExact, CopiesExact, SearchesExact, ExactFor, CopiesFor, FindsFor, MeasuresFor,
                         ComparesFor, ComparesWith, Made, LengthIn, Length
    <3>5. memCall'.fn = "filled" => mem' \in Memory
      BY <3>1 DEF MemInv
    <3>. QED  BY <3>4, <3>5 DEF MemInv
  <2>. QED  BY <2>1, <2>2, CopyInv, SetInv, SearchInv, CompareInv DEF MemNext
<1>3. MemInv => MemoryExact
  BY DEF MemInv
<1>. QED  BY <1>1, <1>2, <1>3, PTL DEF MemSpec

-----------------------------------------------------------------------------
(* The power domain tree: what the description of a platform says.         *)

\* The first n sums of the entries of a description.
Sums(t, d, n) == t = [k \in 0 .. n |-> IF k = 0 THEN 0 ELSE t[k - 1] + d[k]]

\* NodesMade adds the entries up, and every entry makes a node.
LEMMA NodesMadeFacts ==
  ASSUME NEW d \in Seq(Nat \ {0})
  PROVE  /\ NodesMade(d) \in [0 .. Len(d) -> Nat] /\ NodesMade(d)[0] = 0
         /\ \A k \in 1 .. Len(d) : NodesMade(d)[k] = NodesMade(d)[k - 1] + d[k]
         /\ \A a, b \in 0 .. Len(d) : a < b => NodesMade(d)[a] < NodesMade(d)[b]
<1>. DEFINE L == Len(d)
            S == {n \in 0 .. L : \E t : Sums(t, d, n)}
            made == NodesMade(d)
<1>1. L \in Nat
  OBVIOUS
<1>2. 0 \in S
  <2>. DEFINE t == [k \in 0 .. 0 |-> 0]
  <2>1. Sums(t, d, 0)
    BY DEF Sums
  <2>. HIDE DEF t
  <2>. QED  BY <1>1, <2>1
<1>3. ASSUME NEW n \in 1 .. L, n - 1 \in S PROVE n \in S
  <2>1. PICK t : Sums(t, d, n - 1)
    BY <1>3
  <2>. DEFINE u == [k \in 0 .. n |-> IF k = n THEN t[n - 1] + d[n] ELSE t[k]]
  <2>2. ASSUME NEW k \in 0 .. n PROVE u[k] = IF k = 0 THEN 0 ELSE u[k - 1] + d[k]
    <3>1. CASE k = 0
      BY <2>1, <3>1 DEF Sums
    <3>2. CASE k # 0 /\ k # n
      <4>1. k \in 0 .. n - 1 /\ u[k] = t[k] /\ u[k - 1] = t[k - 1]
        BY <3>2
      <4>. QED  BY <2>1, <3>2, <4>1 DEF Sums
    <3>3. CASE k # 0 /\ k = n
      BY <3>3
    <3>. QED  BY <3>1, <3>2, <3>3
  <2>3. u = [k \in 0 .. n |-> u[k]]
    OBVIOUS
  <2>4. Sums(u, d, n)
    <3>. HIDE DEF u
    <3>. QED  BY <2>2, <2>3 DEF Sums
  <2>. HIDE DEF u
  <2>. QED  BY <2>4
<1>4. L \in S
  <2>1. \A k \in 0 .. L : k \in S
    <3>. HIDE DEF S, L
    <3>. QED  BY <1>1, <1>2, <1>3, Upward
  <2>. QED  BY <1>1, <2>1
<1>5. PICK t : Sums(t, d, L)
  BY <1>4
<1>6. made = CHOOSE u : Sums(u, d, L)
  BY DEF NodesMade, Sums
<1>7. Sums(made, d, L)
  <2>. HIDE DEF made, L
  <2>. QED  BY <1>5, <1>6
<1>8. made[0] = 0 /\ \A k \in 1 .. L : made[k] = made[k - 1] + d[k]
  <2>. HIDE DEF made
  <2>. QED  BY <1>1, <1>7 DEF Sums
<1>9. \A k \in 1 .. L : d[k] \in Nat \ {0}
  OBVIOUS
<1>10. ASSUME NEW b \in 0 .. L
       PROVE  made[b] \in Nat /\ \A a \in 0 .. b : a < b => made[a] < made[b]
  <2>. DEFINE T == {n \in 0 .. L : \A a \in 0 .. n : made[a] \in Nat /\ (a < n => made[a] < made[n])}
  <2>. HIDE DEF made
  <2>1. 0 \in T
    BY <1>1, <1>8
  <2>2. ASSUME NEW n \in 1 .. L, n - 1 \in T PROVE n \in T
    <3>1. made[n] = made[n - 1] + d[n] /\ made[n - 1] \in Nat /\ d[n] \in Nat \ {0}
      BY <1>8, <1>9, <2>2
    <3>2. ASSUME NEW a \in 0 .. n, a < n PROVE made[a] < made[n]
      <4>1. CASE a = n - 1
        BY <3>1, <4>1
      <4>2. CASE a # n - 1
        <5>1. a \in 0 .. n - 1 /\ a < n - 1
          BY <3>2, <4>2
        <5>2. made[a] < made[n - 1]
          BY <2>2, <5>1
        <5>3. a \in 0 .. L
          OBVIOUS
        <5>4. made[a] \in Nat
          BY <2>2, <5>1
        <5>. HIDE DEF L
        <5>. QED  BY <3>1, <5>2, <5>4
      <4>. QED  BY <4>1, <4>2
    <3>3. ASSUME NEW a \in 0 .. n PROVE made[a] \in Nat
      <4>1. a = n \/ a \in 0 .. n - 1
        OBVIOUS
      <4>. QED  BY <2>2, <3>1, <4>1
    <3>. QED  BY <3>2, <3>3
  <2>3. \A n \in 0 .. L : n \in T
    <3>. HIDE DEF T, L
    <3>. QED  BY <1>1, <2>1, <2>2, Upward
  <2>. QED  BY <2>3
<1>11. made = [k \in 0 .. L |-> made[k]]
  <2>. HIDE DEF made
  <2>. QED  BY <1>7 DEF Sums
<1>12. made \in [0 .. L -> Nat]
  <2>. HIDE DEF made, L
  <2>. QED  BY <1>10, <1>11
<1>13. \A a, c \in 0 .. L : a < c => made[a] < made[c]
  <2>. HIDE DEF made
  <2>. QED  BY <1>1, <1>10
<1>. QED  BY <1>8, <1>12, <1>13

\* The first n levels of a platform.
Levelled(t, made, n) == t = [k \in 0 .. n |-> IF k = 0 THEN 0 ELSE made[1 + t[k - 1]]]

\* What PlatformAssumption and LevelStarts say of a platform: M levels above the CPUs,
\* made nodes by each number of entries, level k from the top starting at b[k].
Shape(M, L, made, b) ==
  /\ M \in Nat \ {0} /\ L \in Nat
  /\ made \in [0 .. L -> Nat] /\ made[0] = 0
  /\ \A i, j \in 0 .. L : i < j => made[i] < made[j]
  /\ b \in [0 .. M + 1 -> Nat] /\ b[0] = 0
  /\ \A k \in 1 .. M + 1 : b[k] = made[1 + b[k - 1]]
  /\ \A k \in 0 .. M : b[k] < L
  /\ b[M + 1] = made[L] /\ 1 + b[M] = L
  /\ \A i, j \in 0 .. M + 1 : i < j => b[i] < b[j]

\* Every platform has such a shape, with its CPUs behind the nodes of the other levels.
LEMMA PlatformShape ==
  ASSUME NEW p \in Platforms
  PROVE  /\ Shape(p.max_afflvl, Len(p.desc), NodesMade(p.desc), LevelStarts(p))
         /\ p.cores \in Nat \ {0} /\ p.affs \in Nat
         /\ LevelStarts(p)[p.max_afflvl] = p.affs - p.cores
         /\ LevelStarts(p)[p.max_afflvl + 1] = p.affs
<1>. DEFINE M == p.max_afflvl
            L == Len(p.desc)
            made == NodesMade(p.desc)
            b == LevelStarts(p)
            S == {n \in 0 .. M + 1 : \E t : Levelled(t, made, n)}
<1>1. /\ M \in Nat \ {0} /\ p.desc \in Seq(Nat \ {0}) /\ L \in Nat
      /\ p.cores \in Nat /\ p.affs \in Nat
      /\ p.affs - p.cores + 1 = L
      /\ \A k \in 0 .. M : b[k] < L
      /\ b[M] = p.affs - p.cores
      /\ b[M + 1] = p.affs
  BY PlatformAssumption
<1>2. /\ made \in [0 .. L -> Nat] /\ made[0] = 0
      /\ \A i, j \in 0 .. L : i < j => made[i] < made[j]
  BY <1>1, NodesMadeFacts
<1>. HIDE DEF made, L
<1>3. 0 \in S
  <2>. DEFINE t == [k \in 0 .. 0 |-> 0]
  <2>1. Levelled(t, made, 0)
    BY DEF Levelled
  <2>. HIDE DEF t
  <2>. QED  BY <1>1, <2>1
<1>4. ASSUME NEW n \in 1 .. M + 1, n - 1 \in S PROVE n \in S
  <2>1. PICK t : Levelled(t, made, n - 1)
    BY <1>4
  <2>. DEFINE u == [k \in 0 .. n |-> IF k = n THEN made[1 + t[n - 1]] ELSE t[k]]
  <2>2. ASSUME NEW k \in 0 .. n PROVE u[k] = IF k = 0 THEN 0 ELSE made[1 + u[k - 1]]
    <3>1. CASE k = 0
      BY <2>1, <3>1 DEF Levelled
    <3>2. CASE k # 0 /\ k # n
      <4>1. k \in 0 .. n - 1 /\ u[k] = t[k] /\ u[k - 1] = t[k - 1]
        BY <3>2
      <4>. QED  BY <2>1, <3>2, <4>1 DEF Levelled
    <3>3. CASE k # 0 /\ k = n
      BY <3>3
    <3>. QED  BY <3>1, <3>2, <3>3
  <2>3. u = [k \in 0 .. n |-> u[k]]
    OBVIOUS
  <2>4. Levelled(u, made, n)
    <3>. HIDE DEF u
    <3>. QED  BY <2>2, <2>3 DEF Levelled
  <2>. HIDE DEF u
  <2>. QED  BY <1>1, <2>4
<1>5. M + 1 \in S
  <2>. HIDE DEF S, M
  <2>1. M + 1 \in Nat
    BY <1>1
  <2>. QED  BY <2>1, <1>3, <1>4, Upward
<1>6. PICK t : Levelled(t, made, M + 1)
  BY <1>5
<1>7. b = CHOOSE u : Levelled(u, made, M + 1)
  BY DEF LevelStarts, Levelled, made
<1>8. Levelled(b, made, M + 1)
  <2>. HIDE DEF b, M
  <2>. QED  BY <1>6, <1>7
<1>. HIDE DEF b, M
<1>9. b[0] = 0 /\ \A k \in 1 .. M + 1 : b[k] = made[1 + b[k - 1]]
  BY <1>1, <1>8 DEF Levelled
<1>10. \A k \in 0 .. M + 1 : b[k] \in Nat
  <2>. DEFINE T == {k \in 0 .. M + 1 : b[k] \in Nat}
  <2>1. 0 \in T
    BY <1>1, <1>9
  <2>2. ASSUME NEW k \in 1 .. M + 1, k - 1 \in T PROVE k \in T
    <3>1. b[k - 1] \in Nat /\ b[k - 1] < L /\ b[k] = made[1 + b[k - 1]]
      BY <1>1, <1>9, <2>2
    <3>2. 1 + b[k - 1] \in 0 .. L
      BY <1>1, <3>1
    <3>. QED  BY <1>2, <3>1, <3>2
  <2>3. \A k \in 0 .. M + 1 : k \in T
    <3>1. M + 1 \in Nat
      BY <1>1
    <3>. HIDE DEF T
    <3>. QED  BY <3>1, <2>1, <2>2, Upward
  <2>. QED  BY <2>3
<1>11. ASSUME NEW j \in 0 .. M + 1, NEW i \in 0 .. M + 1, i < j PROVE b[i] < b[j]
  <2>. DEFINE T == {k \in 0 .. M + 1 : (k > 0 => b[k - 1] < b[k]) /\ \A h \in 0 .. M + 1 : h < k => b[h] < b[k]}
  <2>1. 0 \in T
    BY <1>1
  <2>2. ASSUME NEW k \in 1 .. M + 1, k - 1 \in T PROVE k \in T
    <3>1. b[k - 1] < b[k]
      <4>1. CASE k = 1
        <5>1. 0 \in 0 .. L /\ 1 \in 0 .. L
          BY <1>1, <1>9
        <5>2. b[1] = made[1 + 0]
          BY <1>1, <1>9, <4>1
        <5>. QED  BY <1>2, <1>9, <4>1, <5>1, <5>2
      <4>2. CASE k # 1
        <5>1. k - 1 \in 1 .. M + 1 /\ k - 1 > 0 /\ (k - 1) - 1 \in 0 .. M /\ k - 1 \in 0 .. M
          BY <1>1, <4>2
        <5>2. b[(k - 1) - 1] < b[k - 1]
          BY <2>2, <5>1
        <5>3. b[(k - 1) - 1] \in Nat /\ b[k - 1] \in Nat /\ b[(k - 1) - 1] < L /\ b[k - 1] < L
          <6>1. k - 1 \in 0 .. M + 1 /\ (k - 1) - 1 \in 0 .. M + 1
            BY <1>1, <5>1
          <6>2. b[(k - 1) - 1] < L /\ b[k - 1] < L
            BY <1>1, <5>1
          <6>3. b[(k - 1) - 1] \in Nat
            BY <1>10, <6>1
          <6>4. b[k - 1] \in Nat
            BY <1>10, <6>1
          <6>. QED  BY <6>2, <6>3, <6>4
        <5>4. 1 + b[(k - 1) - 1] \in 0 .. L /\ 1 + b[k - 1] \in 0 .. L
          <6>1. L \in Nat
            BY <1>1
          <6>2. \A x \in Nat : x < L => 1 + x \in 0 .. L
            BY <6>1
          <6>. QED  BY <5>3, <6>2
        <5>5. made[1 + b[(k - 1) - 1]] < made[1 + b[k - 1]]
          BY <1>2, <5>2, <5>3, <5>4
        <5>. QED  BY <1>9, <5>1, <5>5
      <4>. QED  BY <4>1, <4>2
    <3>2. ASSUME NEW h \in 0 .. M + 1, h < k PROVE b[h] < b[k]
      <4>1. CASE h = k - 1
        BY <3>1, <4>1
      <4>2. CASE h # k - 1
        <5>1. h < k - 1
          BY <3>2, <4>2, <1>1
        <5>2. b[h] < b[k - 1]
          BY <2>2, <5>1
        <5>3. b[h] \in Nat /\ b[k - 1] \in Nat /\ b[k] \in Nat
          BY <1>1, <1>10
        <5>. QED  BY <3>1, <5>2, <5>3
      <4>. QED  BY <4>1, <4>2
    <3>. QED  BY <3>1, <3>2
  <2>3. \A k \in 0 .. M + 1 : k \in T
    <3>1. M + 1 \in Nat
      BY <1>1
    <3>. HIDE DEF T
    <3>. QED  BY <3>1, <2>1, <2>2, Upward
  <2>. QED  BY <1>11, <2>3
<1>12. b \in [0 .. M + 1 -> Nat]
  BY <1>8, <1>10 DEF Levelled
<1>13. 1 + b[M] = L /\ b[M + 1] = made[L]
  <2>1. M + 1 \in 1 .. M + 1 /\ (M + 1) - 1 = M
    BY <1>1
  <2>2. b[M + 1] = made[1 + b[M]]
    BY <1>9, <2>1
  <2>. QED  BY <1>1, <2>2
<1>14. p.cores # 0
  <2>1. b[M] < b[M + 1]
    BY <1>1, <1>11
  <2>. QED  BY <1>1, <2>1
<1>15. Shape(M, L, made, b)
  BY <1>1, <1>2, <1>9, <1>11, <1>12, <1>13 DEF Shape
<1>. QED  BY <1>1, <1>14, <1>15 DEF M, L, made, b

\* Node n is on level l, and node q is its parent, or -1 is: what the description says.
OnLevel(n, l, M, b) == b[M - l] <= n /\ n < b[M - l + 1]
HasParent(n, q, L, made) == \E e \in 0 .. L - 1 : made[e] <= n /\ n < made[e + 1] /\ q = e - 1

\* Among increasing numbers from 0, there is a last one not behind n.
LEMMA LastBelow ==
  ASSUME NEW k \in Nat, NEW f \in [0 .. k -> Nat], f[0] = 0,
         \A i, j \in 0 .. k : i < j => f[i] < f[j],
         NEW n \in Nat, n < f[k]
  PROVE  \E i \in 0 .. k - 1 : f[i] <= n /\ n < f[i + 1]
<1>. DEFINE S == {i \in 0 .. k : f[i] <= n}
<1>1. S \in SUBSET (0 .. k) /\ S # {}
  <2>1. 0 \in S
    OBVIOUS
  <2>. QED  BY <2>1
<1>2. PICK i \in S : \A j \in S : j <= i
  <2>. HIDE DEF S
  <2>. QED  BY <1>1, Greatest
<1>3. i # k
  OBVIOUS
<1>4. i \in 0 .. k - 1 /\ f[i] <= n /\ i + 1 \in 0 .. k
  BY <1>3
<1>5. i + 1 \notin S
  BY <1>2, <1>4
<1>6. ~(f[i + 1] <= n)
  BY <1>4, <1>5
<1>7. f[i + 1] \in Nat
  BY <1>4
<1>8. n < f[i + 1]
  BY <1>6, <1>7
<1>. QED  BY <1>4, <1>8

\* Every node is on one level and has one parent entry.
LEMMA LevelOfNode ==
  ASSUME NEW M, NEW L, NEW made, NEW b, Shape(M, L, made, b), NEW n \in Nat, n < b[M + 1]
  PROVE  \E l \in 0 .. M : OnLevel(n, l, M, b)
<1>1. M + 1 \in Nat /\ M \in Nat
  BY DEF Shape
<1>2. PICK i \in 0 .. (M + 1) - 1 : b[i] <= n /\ n < b[i + 1]
  BY <1>1, LastBelow DEF Shape
<1>3. M - i \in 0 .. M /\ M - (M - i) = i
  BY <1>1
<1>4. OnLevel(n, M - i, M, b)
  BY <1>2, <1>3 DEF OnLevel
<1>. QED  BY <1>3, <1>4

\* Every node has a parent entry, which may be that of the root.
LEMMA ParentOfNode ==
  ASSUME NEW M, NEW L, NEW made, NEW b, Shape(M, L, made, b), NEW n \in Nat, n < b[M + 1]
  PROVE  \E q \in -1 .. L - 2 : HasParent(n, q, L, made)
<1>1. L \in Nat /\ n < made[L]
  BY DEF Shape
<1>2. PICK e \in 0 .. L - 1 : made[e] <= n /\ n < made[e + 1]
  BY <1>1, LastBelow DEF Shape
<1>3. e - 1 \in -1 .. L - 2 /\ HasParent(n, e - 1, L, made)
  BY <1>1, <1>2 DEF HasParent
<1>. QED  BY <1>3

\* The sums and the starts of the levels, as the proofs below use them.
LEMMA MadeInOrder ==
  ASSUME NEW M, NEW L, NEW made, NEW b, Shape(M, L, made, b)
  PROVE  /\ L \in Nat /\ made[0] = 0
         /\ \A x \in 0 .. L : made[x] \in Nat
         /\ \A x, y \in 0 .. L : x <= y => made[x] <= made[y]
         /\ \A x \in 0 .. L - 1 : made[x] < made[x + 1]
<1>1. L \in Nat /\ made \in [0 .. L -> Nat] /\ \A x, y \in 0 .. L : x < y => made[x] < made[y]
  BY DEF Shape
<1>2. \A x \in 0 .. L : made[x] \in Nat
  BY <1>1
<1>3. ASSUME NEW x \in 0 .. L, NEW y \in 0 .. L, x <= y PROVE made[x] <= made[y]
  BY <1>1, <1>2, <1>3
<1>4. ASSUME NEW x \in 0 .. L - 1 PROVE made[x] < made[x + 1]
  <2>1. x \in 0 .. L /\ x + 1 \in 0 .. L /\ x < x + 1
    BY <1>1
  <2>. QED  BY <1>1, <2>1
<1>. QED  BY <1>1, <1>2, <1>3, <1>4 DEF Shape

\* The levels start one behind the other, each where an entry of the description says.
LEMMA StartsInOrder ==
  ASSUME NEW M, NEW L, NEW made, NEW b, Shape(M, L, made, b)
  PROVE  /\ M \in Nat \ {0} /\ b[0] = 0
         /\ \A k \in 0 .. M + 1 : b[k] \in Nat
         /\ \A k \in 0 .. M : /\ b[k] \in 0 .. L - 1 /\ 1 + b[k] \in 0 .. L
                            /\ b[k + 1] = made[1 + b[k]] /\ b[k] < b[k + 1]
         /\ \A x, y \in 0 .. M + 1 : x <= y => b[x] <= b[y]
<1>1. /\ M \in Nat \ {0} /\ L \in Nat /\ b \in [0 .. M + 1 -> Nat] /\ b[0] = 0
      /\ \A x, y \in 0 .. M + 1 : x < y => b[x] < b[y]
      /\ \A k \in 0 .. M : b[k] < L
  BY DEF Shape
<1>2. \A x \in 0 .. M + 1 : b[x] \in Nat
  BY <1>1
<1>3. ASSUME NEW x \in 0 .. M + 1, NEW y \in 0 .. M + 1, x <= y PROVE b[x] <= b[y]
  BY <1>1, <1>2, <1>3
<1>4. ASSUME NEW k \in 0 .. M
      PROVE  b[k] \in 0 .. L - 1 /\ 1 + b[k] \in 0 .. L /\ b[k + 1] = made[1 + b[k]] /\ b[k] < b[k + 1]
  <2>1. k \in 0 .. M + 1 /\ k + 1 \in 1 .. M + 1 /\ k + 1 \in 0 .. M + 1 /\ (k + 1) - 1 = k
    BY <1>1
  <2>2. \A i \in 1 .. M + 1 : b[i] = made[1 + b[i - 1]]
    BY DEF Shape
  <2>3. b[k + 1] = made[1 + b[k]]
    <3>1. b[k + 1] = made[1 + b[(k + 1) - 1]]
      BY <2>1, <2>2
    <3>. QED  BY <2>1, <3>1
  <2>4. b[k] \in Nat /\ b[k] < L
    BY <1>1, <1>2, <2>1
  <2>5. b[k] \in 0 .. L - 1 /\ 1 + b[k] \in 0 .. L
    <3>1. \A x \in Nat : x < L => x \in 0 .. L - 1 /\ 1 + x \in 0 .. L
      BY <1>1
    <3>. QED  BY <2>4, <3>1
  <2>. QED  BY <1>1, <2>1, <2>3, <2>5
<1>. QED  BY <1>1, <1>2, <1>3, <1>4

\* Levels exclude each other.
LEMMA OneLevel ==
  ASSUME NEW M, NEW L, NEW made, NEW b, Shape(M, L, made, b), NEW n \in Int,
         NEW l \in 0 .. M, NEW k \in 0 .. M, OnLevel(n, l, M, b), OnLevel(n, k, M, b)
  PROVE  l = k
<1>. SUFFICES ASSUME NEW i \in 0 .. M, NEW j \in 0 .. M, i < j, OnLevel(n, i, M, b), OnLevel(n, j, M, b)
              PROVE  FALSE
  OBVIOUS
<1>1. M \in Nat /\ b \in [0 .. M + 1 -> Nat] /\ \A x, y \in 0 .. M + 1 : x < y => b[x] < b[y]
  BY DEF Shape
<1>2. M - i \in 0 .. M + 1 /\ M - j \in 0 .. M /\ M - j + 1 \in 0 .. M + 1 /\ M - j + 1 <= M - i
  BY <1>1
<1>3. b[M - i] \in Nat /\ b[M - j + 1] \in Nat
  BY <1>1, <1>2
<1>4. b[M - j + 1] <= b[M - i]
  BY <1>1, <1>2, <1>3
<1>. QED  BY <1>3, <1>4 DEF OnLevel

\* Parents are in the order of their children.
LEMMA ParentsInOrder ==
  ASSUME NEW M, NEW L, NEW made, NEW b, Shape(M, L, made, b),
         NEW n \in Nat, NEW m \in Nat, n <= m,
         NEW q \in Int, NEW r \in Int, HasParent(n, q, L, made), HasParent(m, r, L, made)
  PROVE  q <= r
<1>1. L \in Nat
  BY MadeInOrder
<1>2. PICK e \in 0 .. L - 1 : made[e] <= n /\ n < made[e + 1] /\ q = e - 1
  BY DEF HasParent
<1>3. PICK f \in 0 .. L - 1 : made[f] <= m /\ m < made[f + 1] /\ r = f - 1
  BY DEF HasParent
<1>4. ASSUME f < e PROVE FALSE
  <2>1. f + 1 \in 0 .. L /\ e \in 0 .. L /\ f + 1 <= e
    BY <1>1, <1>4
  <2>2. made[f + 1] \in Nat /\ made[e] \in Nat
    BY <2>1, MadeInOrder
  <2>3. made[f + 1] <= made[e]
    BY <2>1, MadeInOrder
  <2>. QED  BY <1>2, <1>3, <2>2, <2>3
<1>. QED  BY <1>2, <1>3, <1>4

\* A node has one parent.
LEMMA OneParent ==
  ASSUME NEW M, NEW L, NEW made, NEW b, Shape(M, L, made, b), NEW n \in Nat,
         NEW q \in Int, NEW r \in Int, HasParent(n, q, L, made), HasParent(n, r, L, made)
  PROVE  q = r
<1>1. q <= r /\ r <= q
  BY ParentsInOrder
<1>. QED  BY <1>1

\* A parent is one level up.
LEMMA ParentOneUp ==
  ASSUME NEW M, NEW L, NEW made, NEW b, Shape(M, L, made, b), NEW n \in Nat, NEW q \in Int,
         HasParent(n, q, L, made), NEW l \in 0 .. M, OnLevel(n, l, M, b)
  PROVE  IF l = M THEN q = -1 ELSE q \in Nat /\ OnLevel(q, l + 1, M, b)
<1>1. M \in Nat /\ L \in Nat /\ b[0] = 0 /\ \A k \in 0 .. M + 1 : b[k] \in Nat
  BY MadeInOrder, StartsInOrder
<1>2. PICK e \in 0 .. L - 1 : made[e] <= n /\ n < made[e + 1] /\ q = e - 1
  BY DEF HasParent
<1>. DEFINE k == M - l
<1>3. k \in 0 .. M /\ b[k] <= n /\ n < b[k + 1]
  BY <1>1 DEF OnLevel
<1>. HIDE DEF k
<1>4. e < 1 + b[k]
  <2>. SUFFICES ASSUME e >= 1 + b[k] PROVE FALSE
    BY <1>1, <1>3
  <2>1. b[k + 1] = made[1 + b[k]] /\ 1 + b[k] \in 0 .. L
    BY <1>3, StartsInOrder
  <2>2. e \in 0 .. L
    BY <1>1
  <2>3. made[1 + b[k]] <= made[e]
    BY <2>1, <2>2, MadeInOrder
  <2>4. made[e] \in Nat /\ made[1 + b[k]] \in Nat
    BY <2>1, <2>2, MadeInOrder
  <2>. QED  BY <1>2, <1>3, <2>1, <2>3, <2>4
<1>5. CASE l = M
  <2>1. k = 0
    BY <1>1, <1>5 DEF k
  <2>2. e = 0
    BY <1>1, <1>4, <2>1
  <2>. QED  BY <1>2, <1>5, <2>2
<1>6. CASE l # M
  <2>1. k \in 1 .. M /\ k = M - l
    BY <1>1, <1>6 DEF k
  <2>2. k - 1 \in 0 .. M /\ (k - 1) + 1 = k
    BY <1>1, <2>1
  <2>3. b[k] = made[1 + b[k - 1]] /\ 1 + b[k - 1] \in 0 .. L /\ b[k - 1] \in 0 .. L - 1
    BY <2>2, StartsInOrder
  <2>4. e + 1 \in 0 .. L
    BY <1>1
  <2>5. e >= 1 + b[k - 1]
    <3>. SUFFICES ASSUME e + 1 <= 1 + b[k - 1] PROVE FALSE
      BY <2>3
    <3>1. made[e + 1] <= made[1 + b[k - 1]]
      BY <2>3, <2>4, MadeInOrder
    <3>2. made[e + 1] \in Nat /\ made[1 + b[k - 1]] \in Nat
      BY <2>3, <2>4, MadeInOrder
    <3>. QED  BY <1>2, <1>3, <2>3, <3>1, <3>2
  <2>6. q \in Nat /\ b[k - 1] <= q /\ q < b[k]
    <3>1. b[k] \in Nat
      BY <1>1, <2>1
    <3>. QED  BY <1>2, <1>4, <2>3, <2>5, <3>1
  <2>7. M - (l + 1) = k - 1 /\ M - (l + 1) + 1 = k
    BY <1>1, <2>1
  <2>8. OnLevel(q, l + 1, M, b)
    BY <2>6, <2>7 DEF OnLevel
  <2>. QED  BY <1>6, <2>6, <2>8
<1>. QED  BY <1>5, <1>6

\* Every node above the CPUs has a child, since its entry is not 0.
LEMMA HasChild ==
  ASSUME NEW M, NEW L, NEW made, NEW b, Shape(M, L, made, b), NEW q \in Nat,
         NEW l \in 1 .. M, OnLevel(q, l, M, b)
  PROVE  \E n \in Nat : OnLevel(n, l - 1, M, b) /\ HasParent(n, q, L, made)
<1>1. M \in Nat /\ L \in Nat /\ \A k \in 0 .. M + 1 : b[k] \in Nat
  BY MadeInOrder, StartsInOrder
<1>. DEFINE k == M - l
<1>2. k \in 0 .. M - 1 /\ b[k] <= q /\ q < b[k + 1] /\ M - (l - 1) = k + 1
  BY <1>1 DEF OnLevel
<1>. HIDE DEF k
<1>3. k \in 0 .. M /\ k + 1 \in 0 .. M /\ (k + 1) + 1 = k + 2
  BY <1>1, <1>2
<1>4. b[k + 1] = made[1 + b[k]] /\ b[k + 2] = made[1 + b[k + 1]]
  BY <1>3, StartsInOrder
<1>5. 1 + b[k] \in 0 .. L /\ b[k] \in 0 .. L - 1 /\ 1 + b[k + 1] \in 0 .. L /\ b[k + 1] \in 0 .. L - 1
  BY <1>3, StartsInOrder
<1>6. /\ q + 1 \in 0 .. L - 1 /\ q + 1 \in 0 .. L /\ q + 2 \in 0 .. L /\ (q + 1) + 1 = q + 2
      /\ 1 + b[k] <= q + 1 /\ q + 2 <= 1 + b[k + 1]
  BY <1>1, <1>2, <1>5
<1>7. made[q + 1] \in Nat /\ made[q + 2] \in Nat
  BY <1>6, MadeInOrder
<1>8. made[1 + b[k]] <= made[q + 1]
  BY <1>5, <1>6, MadeInOrder
<1>9. made[q + 1] < made[q + 2]
  BY <1>6, MadeInOrder
<1>10. b[k + 1] <= made[q + 1] /\ made[q + 1] < b[k + 2]
  <2>1. made[q + 2] <= made[1 + b[k + 1]]
    BY <1>5, <1>6, MadeInOrder
  <2>2. made[1 + b[k + 1]] \in Nat
    BY <1>5, MadeInOrder
  <2>. QED  BY <1>4, <1>7, <1>8, <1>9, <2>1, <2>2
<1>11. OnLevel(made[q + 1], l - 1, M, b)
  <2>1. k + 1 + 1 = k + 2
    BY <1>2
  <2>. QED  BY <1>2, <1>10, <2>1 DEF OnLevel
<1>12. HasParent(made[q + 1], q, L, made)
  <2>1. q + 1 \in 0 .. L - 1 /\ (q + 1) + 1 = q + 2 /\ (q + 1) - 1 = q
    BY <1>1, <1>6
  <2>. QED  BY <1>7, <1>9, <2>1 DEF HasParent
<1>. QED  BY <1>7, <1>11, <1>12

\* A is the line from CPU c up to the top level.
Line(A, c, M, L, made) ==
  /\ A \in [0 .. M -> Nat] /\ A[0] = c
  /\ \A l \in 1 .. M : HasParent(A[l - 1], A[l], L, made)

\* A line meets every level once.
LEMMA LineClimbs ==
  ASSUME NEW M, NEW L, NEW made, NEW b, Shape(M, L, made, b), NEW c \in Nat, OnLevel(c, 0, M, b),
         NEW A, Line(A, c, M, L, made)
  PROVE  \A l \in 0 .. M : OnLevel(A[l], l, M, b)
<1>. DEFINE S == {l \in 0 .. M : OnLevel(A[l], l, M, b)}
<1>1. M \in Nat
  BY StartsInOrder
<1>2. 0 \in S
  BY <1>1 DEF Line
<1>3. ASSUME NEW l \in 1 .. M, l - 1 \in S PROVE l \in S
  <2>1. A[l - 1] \in Nat /\ A[l] \in Nat /\ HasParent(A[l - 1], A[l], L, made)
    BY <1>1 DEF Line
  <2>2. OnLevel(A[l - 1], l - 1, M, b) /\ l - 1 \in 0 .. M /\ l - 1 # M /\ (l - 1) + 1 = l
    BY <1>1, <1>3
  <2>3. A[l] \in Int
    BY <2>1
  <2>4. OnLevel(A[l], (l - 1) + 1, M, b)
    BY <2>1, <2>2, <2>3, ParentOneUp
  <2>. QED  BY <1>1, <2>2, <2>4
<1>. HIDE DEF S
<1>4. \A l \in 0 .. M : l \in S
  BY <1>1, <1>2, <1>3, Upward
<1>. QED  BY <1>4 DEF S

\* Lines do not cross.
LEMMA LinesInOrder ==
  ASSUME NEW M, NEW L, NEW made, NEW b, Shape(M, L, made, b), NEW c \in Nat, NEW d \in Nat, c <= d,
         NEW A, NEW B, Line(A, c, M, L, made), Line(B, d, M, L, made)
  PROVE  \A l \in 0 .. M : A[l] <= B[l]
<1>. DEFINE S == {l \in 0 .. M : A[l] <= B[l]}
<1>1. M \in Nat
  BY StartsInOrder
<1>2. 0 \in S
  BY <1>1 DEF Line
<1>3. ASSUME NEW l \in 1 .. M, l - 1 \in S PROVE l \in S
  <2>1. A[l - 1] \in Nat /\ A[l] \in Int /\ HasParent(A[l - 1], A[l], L, made)
    BY <1>1 DEF Line
  <2>2. B[l - 1] \in Nat /\ B[l] \in Int /\ HasParent(B[l - 1], B[l], L, made)
    BY <1>1 DEF Line
  <2>3. A[l - 1] <= B[l - 1]
    BY <1>3
  <2>4. A[l] <= B[l]
    BY <2>1, <2>2, <2>3, ParentsInOrder
  <2>. QED  BY <1>1, <2>4
<1>. HIDE DEF S
<1>4. \A l \in 0 .. M : l \in S
  BY <1>1, <1>2, <1>3, Upward
<1>. QED  BY <1>4 DEF S

\* A CPU has one line.
LEMMA OneLine ==
  ASSUME NEW M, NEW L, NEW made, NEW b, Shape(M, L, made, b), NEW c \in Nat,
         NEW A, NEW B, Line(A, c, M, L, made), Line(B, c, M, L, made)
  PROVE  A = B
<1>1. A \in [0 .. M -> Nat] /\ B \in [0 .. M -> Nat]
  BY DEF Line
<1>2. \A l \in 0 .. M : A[l] <= B[l]
  BY LinesInOrder
<1>3. \A l \in 0 .. M : B[l] <= A[l]
  BY LinesInOrder
<1>4. ASSUME NEW l \in 0 .. M PROVE A[l] = B[l]
  <2>1. A[l] \in Nat /\ B[l] \in Nat
    BY <1>1
  <2>. QED  BY <1>2, <1>3, <2>1
<1>5. A = [l \in 0 .. M |-> A[l]] /\ B = [l \in 0 .. M |-> B[l]]
  BY <1>1
<1>. QED  BY <1>4, <1>5

\* The CPUs, behind all other nodes.
Cpus(M, b) == b[M] .. b[M + 1] - 1

\* The CPUs are the nodes of level 0.
LEMMA CpuLevel ==
  ASSUME NEW M, NEW L, NEW made, NEW b, Shape(M, L, made, b), NEW c
  PROVE  c \in Cpus(M, b) <=> c \in Nat /\ OnLevel(c, 0, M, b)
<1>1. M \in Nat /\ M - 0 = M /\ M \in 0 .. M + 1 /\ M + 1 \in 0 .. M + 1
  BY StartsInOrder
<1>2. b[M] \in Nat /\ b[M + 1] \in Nat
  BY <1>1, StartsInOrder
<1>. QED  BY <1>1, <1>2 DEF OnLevel, Cpus

\* Every node is on the line of some CPU.
LEMMA LinesReachAll ==
  ASSUME NEW M, NEW L, NEW made, NEW b, Shape(M, L, made, b),
         NEW up, \A c \in Cpus(M, b) : Line(up[c], c, M, L, made)
  PROVE  \A l \in 0 .. M : \A n \in Nat : OnLevel(n, l, M, b) => \E c \in Cpus(M, b) : up[c][l] = n
<1>. DEFINE Reached(l) == \A n \in Nat : OnLevel(n, l, M, b) => \E c \in Cpus(M, b) : up[c][l] = n
            S == {l \in 0 .. M : Reached(l)}
<1>1. M \in Nat
  BY StartsInOrder
<1>2. 0 \in S
  <2>1. ASSUME NEW n \in Nat, OnLevel(n, 0, M, b) PROVE \E c \in Cpus(M, b) : up[c][0] = n
    <3>1. n \in Cpus(M, b)
      BY <2>1, CpuLevel
    <3>2. up[n][0] = n
      BY <3>1 DEF Line
    <3>. QED  BY <3>1, <3>2
  <2>. QED  BY <1>1, <2>1
<1>3. ASSUME NEW l \in 1 .. M, l - 1 \in S PROVE l \in S
  <2>1. ASSUME NEW n \in Nat, OnLevel(n, l, M, b) PROVE \E c \in Cpus(M, b) : up[c][l] = n
    <3>1. PICK m \in Nat : OnLevel(m, l - 1, M, b) /\ HasParent(m, n, L, made)
      BY <2>1, HasChild
    <3>2. PICK c \in Cpus(M, b) : up[c][l - 1] = m
      BY <1>3, <3>1
    <3>3. up[c][l] \in Int /\ HasParent(m, up[c][l], L, made)
      <4>1. Line(up[c], c, M, L, made)
        OBVIOUS
      <4>. QED  BY <1>1, <3>2, <4>1 DEF Line
    <3>4. up[c][l] = n
      BY <3>1, <3>3, OneParent
    <3>. QED  BY <3>4
  <2>. QED  BY <1>1, <2>1
<1>. HIDE DEF S
<1>4. \A l \in 0 .. M : l \in S
  BY <1>1, <1>2, <1>3, Upward
<1>. QED  BY <1>4 DEF S

-----------------------------------------------------------------------------
(* The power domain tree: the nodes of the platform at hand.               *)

MaxLevel == plat.max_afflvl
EntryCount == Len(plat.desc)
MadeBy == NodesMade(plat.desc)
StartOf == LevelStarts(plat)
PlatCpus == Cpus(MaxLevel, StartOf)

At(n, l) == OnLevel(n, l, MaxLevel, StartOf)
Under(n, q) == HasParent(n, q, EntryCount, MadeBy)
Shaped == Shape(MaxLevel, EntryCount, MadeBy, StartOf)

\* The first n nodes have the parents and levels of the description.
RootedTo(n) ==
  \A k \in 0 .. n - 1 :
    /\ Node(k).parent_node \in Int /\ Under(k, Node(k).parent_node)
    /\ \A l \in 0 .. MaxLevel : At(k, l) => Node(k).level = l

IsLine(A, c) == Line(A, c, MaxLevel, EntryCount, MadeBy)

\* The shape of the platform at hand.
LEMMA PlatShaped ==
  ASSUME plat \in Platforms
  PROVE  /\ Shaped /\ plat.cores \in Nat \ {0} /\ plat.affs \in Nat
         /\ StartOf[MaxLevel] = plat.affs - plat.cores /\ StartOf[MaxLevel + 1] = plat.affs
         /\ MaxLevel \in Nat \ {0}
<1>1. Shaped
  BY PlatformShape DEF Shaped, MaxLevel, EntryCount, MadeBy, StartOf
<1>2. MaxLevel \in Nat \ {0}
  BY <1>1, StartsInOrder DEF Shaped
<1>. QED  BY <1>1, <1>2, PlatformShape DEF MaxLevel, StartOf

\* The first n levels that Ancestors goes up.
Climbs(t, node, n) == t = [l \in 0 .. n |-> IF l = 0 THEN node ELSE Node(t[l - 1]).parent_node]

\* Ancestors goes from parent to parent.
LEMMA AncestorsClimb ==
  ASSUME MaxLevel \in Nat, NEW node
  PROVE  Climbs(Ancestors(node), node, MaxLevel)
<1>. DEFINE S == {n \in 0 .. MaxLevel : \E t : Climbs(t, node, n)}
<1>1. 0 \in S
  <2>. DEFINE t == [l \in 0 .. 0 |-> node]
  <2>1. Climbs(t, node, 0)
    BY DEF Climbs
  <2>. HIDE DEF t
  <2>. QED  BY <2>1
<1>2. ASSUME NEW n \in 1 .. MaxLevel, n - 1 \in S PROVE n \in S
  <2>1. PICK t : Climbs(t, node, n - 1)
    BY <1>2
  <2>. DEFINE u == [k \in 0 .. n |-> IF k = n THEN Node(t[n - 1]).parent_node ELSE t[k]]
  <2>2. ASSUME NEW k \in 0 .. n PROVE u[k] = IF k = 0 THEN node ELSE Node(u[k - 1]).parent_node
    <3>1. CASE k = 0
      BY <2>1, <3>1 DEF Climbs
    <3>2. CASE k # 0 /\ k # n
      <4>1. k \in 0 .. n - 1 /\ u[k] = t[k] /\ u[k - 1] = t[k - 1]
        BY <3>2
      <4>. QED  BY <2>1, <3>2, <4>1 DEF Climbs
    <3>3. CASE k # 0 /\ k = n
      BY <3>3
    <3>. QED  BY <3>1, <3>2, <3>3
  <2>3. u = [k \in 0 .. n |-> u[k]]
    OBVIOUS
  <2>4. Climbs(u, node, n)
    <3>. HIDE DEF u
    <3>. QED  BY <2>2, <2>3 DEF Climbs
  <2>. HIDE DEF u
  <2>. QED  BY <2>4
<1>3. \A n \in 0 .. MaxLevel : n \in S
  <2>. HIDE DEF S
  <2>. QED  BY <1>1, <1>2, Upward
<1>4. PICK t : Climbs(t, node, MaxLevel)
  BY <1>3
<1>5. Ancestors(node) = CHOOSE u : Climbs(u, node, MaxLevel)
  BY DEF Ancestors, Climbs, MaxLevel
<1>. QED  BY <1>4, <1>5

\* When the tree is rooted, Ancestors gives the line of a CPU.
LEMMA AncestorsAreLine ==
  ASSUME plat \in Platforms, RootedTo(plat.affs), NEW c \in PlatCpus
  PROVE  IsLine(Ancestors(c), c)
<1>. DEFINE A == Ancestors(c)
            S == {l \in 0 .. MaxLevel : /\ A[l] \in Nat /\ At(A[l], l)
                                        /\ l > 0 => Under(A[l - 1], A[l])}
<1>1. /\ Shaped /\ MaxLevel \in Nat \ {0} /\ plat.affs \in Nat
      /\ StartOf[MaxLevel + 1] = plat.affs
  BY PlatShaped
<1>2. /\ A = [l \in 0 .. MaxLevel |-> A[l]] /\ A[0] = c
      /\ \A l \in 1 .. MaxLevel : A[l] = Node(A[l - 1]).parent_node
  <2>1. Climbs(A, c, MaxLevel)
    BY <1>1, AncestorsClimb
  <2>. HIDE DEF A
  <2>. QED  BY <1>1, <2>1 DEF Climbs
<1>. HIDE DEF A
<1>3. c \in Nat /\ At(c, 0)
  BY <1>1, CpuLevel DEF PlatCpus, Shaped, At
<1>4. 0 \in S
  BY <1>1, <1>2, <1>3
<1>5. ASSUME NEW l \in 1 .. MaxLevel, l - 1 \in S PROVE l \in S
  <2>1. A[l - 1] \in Nat /\ At(A[l - 1], l - 1) /\ l - 1 \in 0 .. MaxLevel /\ l - 1 # MaxLevel
    BY <1>1, <1>5
  <2>2. A[l - 1] < plat.affs
    <3>1. /\ MaxLevel - (l - 1) + 1 \in 0 .. MaxLevel + 1 /\ MaxLevel + 1 \in 0 .. MaxLevel + 1
          /\ MaxLevel - (l - 1) + 1 <= MaxLevel + 1
      BY <1>1
    <3>2. StartOf[MaxLevel - (l - 1) + 1] <= StartOf[MaxLevel + 1]
      BY <1>1, <3>1, StartsInOrder DEF Shaped
    <3>3. StartOf[MaxLevel - (l - 1) + 1] \in Nat
      BY <1>1, <3>1, StartsInOrder DEF Shaped
    <3>. QED  BY <1>1, <2>1, <3>2, <3>3 DEF At, OnLevel
  <2>3. A[l - 1] \in 0 .. plat.affs - 1
    BY <1>1, <2>1, <2>2
  <2>4. A[l] \in Int /\ Under(A[l - 1], A[l])
    BY <1>2, <2>3 DEF RootedTo
  <2>5. A[l] \in Nat /\ At(A[l], (l - 1) + 1)
    BY <1>1, <2>1, <2>4, ParentOneUp DEF Shaped, At, Under
  <2>6. (l - 1) + 1 = l
    BY <1>1
  <2>. QED  BY <1>1, <2>4, <2>5, <2>6
<1>6. \A l \in 0 .. MaxLevel : l \in S
  <2>. HIDE DEF S
  <2>. QED  BY <1>1, <1>4, <1>5, Upward
<1>7. A \in [0 .. MaxLevel -> Nat]
  BY <1>2, <1>6
<1>8. \A l \in 1 .. MaxLevel : Under(A[l - 1], A[l])
  BY <1>1, <1>6
<1>9. IsLine(A, c)
  BY <1>2, <1>7, <1>8 DEF IsLine, Line, Under
<1>. QED  BY <1>9 DEF A

PowerNode ==
  [cpu_start_node : Nat, ncpus : Nat, mpidr : Int, parent_node : Int, level : Nat,
   is_present : BOOLEAN]

\* The line of CPU c, which the description gives it.
Up(c) == CHOOSE A : IsLine(A, c)

\* The CPU of node n is there.
Present(n) == n - StartOf[MaxLevel] \notin plat.absent

\* A CPU as populate_power_domain_tree leaves it.
CpuReady(n) ==
  /\ Node(n).cpu_start_node = n /\ Node(n).ncpus = 1
  /\ Node(n).mpidr = IF Present(n) THEN Mpid(n - StartOf[MaxLevel]) ELSE INVALID_MPID
  /\ Node(n).is_present = Present(n)

\* Those of the first c CPUs that are in domain n of level l.
Mine(n, l, c) == {x \in StartOf[MaxLevel] .. StartOf[MaxLevel] + c - 1 : Up(x)[l] = n}

\* A domain r before the loop of update_pwrlvl_limits comes to it.
Unlimited(r) == r.ncpus = 0 /\ r.cpu_start_node = 0 /\ r.is_present = FALSE

\* A domain r whose first CPU is f, in the state that the first c CPUs have brought it to.
\* The first domain of a level above 1 is taken for the one before, and begins nowhere.
LimitedFrom(r, n, l, c, f) ==
  /\ r.ncpus > 0 /\ Mine(n, l, c) = f .. f + r.ncpus - 1
  /\ IF n = 0 /\ l >= 2
     THEN r.cpu_start_node = 0 /\ r.is_present = FALSE
     ELSE r.cpu_start_node = f /\ r.is_present = Present(f)

LimitsTo(r, n, l, c) ==
  \/ Mine(n, l, c) = {} /\ Unlimited(r)
  \/ \E f \in PlatCpus : LimitedFrom(r, n, l, c, f)

TreeType ==
  /\ plat \in Platforms
  /\ tftf_pd_nodes \in [Nodes -> PowerNode]
  /\ DOMAIN tftf_pwr_domain_start_idx = 0 .. MaxLevel
  /\ num_level \in -1 .. MaxLevel
  /\ parent_idx \in Nat /\ num_nodes_at_lvl \in Nat
  /\ cpu_id \in 0 .. plat.cores /\ (num_level >= 0 => cpu_id = 0)
  /\ topology_setup_done = (cpu_id = plat.cores)

\* The levels made so far are those of the description, and the cursors between them.
LevelsInv ==
  /\ node_index = StartOf[MaxLevel - num_level]
  /\ parent_idx \in 0 .. EntryCount /\ MadeBy[parent_idx] = node_index
  /\ parent_idx + num_nodes_at_lvl = 1 + node_index
  /\ \A l \in 0 .. MaxLevel : l > num_level => tftf_pwr_domain_start_idx[l] = StartOf[MaxLevel - l]
  /\ RootedTo(node_index)
  /\ num_level = -1 => \A n \in PlatCpus : CpuReady(n)

\* The CPUs gone through are entered in their domains.
LimitsInv ==
  /\ DOMAIN nodes_idx = 0 .. MaxLevel - 1
  /\ \A j \in 0 .. MaxLevel - 1 :
       nodes_idx[j] = IF cpu_id > 0 THEN Up(StartOf[MaxLevel] + cpu_id - 1)[j + 1]
                      ELSE IF j = 0 THEN -1 ELSE 0
  /\ cpu_id = 0 => \A n \in Nodes \ PlatCpus : Unlimited(Node(n))
  /\ cpu_id > 0 => \A n \in Nodes : \A l \in 1 .. MaxLevel : At(n, l) => LimitsTo(Node(n), n, l, cpu_id)

TreeInv == TreeType /\ LevelsInv /\ LimitsInv

\* What populate_power_domain_tree sets of every node, and of a CPU.
AsChild(r, a, l) == [r EXCEPT !.parent_node = a, !.level = l]
AsCpu(r, m, x, none, n) ==
  [r EXCEPT !.mpidr = m, !.is_present = x \notin none, !.cpu_start_node = n, !.ncpus = 1]

\* The fields of a node that populate_power_domain_tree makes above the CPUs.
LEMMA NodeFields ==
  ASSUME NEW r \in PowerNode, NEW a \in Int, NEW l \in Nat
  PROVE  /\ AsChild(r, a, l) \in PowerNode
         /\ AsChild(r, a, l).parent_node = a /\ AsChild(r, a, l).level = l
         /\ AsChild(r, a, l).cpu_start_node = r.cpu_start_node
         /\ AsChild(r, a, l).ncpus = r.ncpus
         /\ AsChild(r, a, l).is_present = r.is_present
  BY DEF PowerNode, AsChild

\* The fields of a CPU that populate_power_domain_tree makes.
LEMMA CpuNodeFields ==
  ASSUME NEW r \in PowerNode, NEW m \in Int, NEW x, NEW none, NEW n \in Nat
  PROVE  /\ AsCpu(r, m, x, none, n) \in PowerNode
         /\ AsCpu(r, m, x, none, n).parent_node = r.parent_node
         /\ AsCpu(r, m, x, none, n).level = r.level
         /\ AsCpu(r, m, x, none, n).cpu_start_node = n
         /\ AsCpu(r, m, x, none, n).ncpus = 1
         /\ AsCpu(r, m, x, none, n).mpidr = m
         /\ AsCpu(r, m, x, none, n).is_present = (x \notin none)
  BY DEF PowerNode, AsCpu

\* The invariant holds before the setup.
LEMMA TreeStart == PowerInit => TreeInv
<1>. SUFFICES ASSUME PowerInit PROVE TreeInv
  OBVIOUS
<1>. USE DEF PowerInit
<1>1. /\ plat \in Platforms /\ MaxLevel \in Nat \ {0} /\ plat.cores \in Nat \ {0} /\ plat.affs \in Nat
      /\ Shaped
  BY PlatShaped
<1>2. Cleared \in PowerNode
  BY DEF Cleared, PowerNode
<1>3. ASSUME NEW n \in Nodes PROVE Node(n) = Cleared
  BY <1>3 DEF Node
<1>4. TreeType
  <2>1. tftf_pd_nodes \in [Nodes -> PowerNode]
    BY <1>2
  <2>2. num_level \in -1 .. MaxLevel /\ DOMAIN tftf_pwr_domain_start_idx = 0 .. MaxLevel
    BY <1>1 DEF MaxLevel
  <2>3. topology_setup_done = (cpu_id = plat.cores)
    BY <1>1
  <2>4. cpu_id \in 0 .. plat.cores
    BY <1>1
  <2>. QED  BY <1>1, <2>1, <2>2, <2>3, <2>4 DEF TreeType
<1>5. LevelsInv
  <2>1. MaxLevel - num_level = 0
    BY <1>1 DEF MaxLevel
  <2>2. StartOf[0] = 0
    BY <1>1, StartsInOrder DEF Shaped
  <2>3. EntryCount \in Nat /\ MadeBy[0] = 0
    BY <1>1, MadeInOrder DEF Shaped
  <2>4. RootedTo(node_index)
    BY DEF RootedTo
  <2>5. num_level # -1 /\ \A l \in 0 .. MaxLevel : ~(l > num_level)
    BY <1>1 DEF MaxLevel
  <2>. QED  BY <2>1, <2>2, <2>3, <2>4, <2>5 DEF LevelsInv
<1>6. LimitsInv
  <2>1. \A n \in Nodes : Unlimited(Node(n))
    BY <1>3 DEF Unlimited, Cleared
  <2>2. DOMAIN nodes_idx = 0 .. MaxLevel - 1
    BY DEF MaxLevel
  <2>3. \A j \in 0 .. MaxLevel - 1 : nodes_idx[j] = IF j = 0 THEN -1 ELSE 0
    BY DEF MaxLevel
  <2>. QED  BY <2>1, <2>2, <2>3 DEF LimitsInv
<1>. QED  BY <1>4, <1>5, <1>6 DEF TreeInv

\* The loops over the description find the entry that a node comes from.
LEMMA ParentOfFinds ==
  ASSUME TreeType, LevelsInv, num_level >= 0,
         NEW n \in node_index .. StartOf[MaxLevel - num_level + 1] - 1
  PROVE  ParentOf(n) \in Int /\ Under(n, ParentOf(n))
<1>. DEFINE k == MaxLevel - num_level
<1>1. Shaped /\ MaxLevel \in Nat /\ plat \in Platforms
  BY PlatShaped DEF TreeType
<1>2. k \in 0 .. MaxLevel /\ k \in 0 .. MaxLevel + 1 /\ k + 1 \in 0 .. MaxLevel + 1 /\ MaxLevel + 1 \in 0 .. MaxLevel + 1
  BY <1>1 DEF TreeType
<1>3. node_index = StartOf[k] /\ n \in node_index .. StartOf[k + 1] - 1
  BY DEF LevelsInv
<1>. HIDE DEF k
<1>4. /\ StartOf[k] \in Nat /\ StartOf[k + 1] \in Nat /\ StartOf[MaxLevel + 1] \in Nat
      /\ StartOf[k + 1] = MadeBy[1 + StartOf[k]] /\ 1 + StartOf[k] \in 0 .. EntryCount
  BY <1>1, <1>2, StartsInOrder DEF Shaped
<1>5. StartOf[k + 1] <= StartOf[MaxLevel + 1]
  BY <1>1, <1>2, StartsInOrder DEF Shaped
<1>6. n \in Nat /\ n < StartOf[MaxLevel + 1]
  BY <1>3, <1>4, <1>5
<1>7. PICK q \in -1 .. EntryCount - 2 : Under(n, q)
  BY <1>1, <1>6, ParentOfNode DEF Shaped, Under
<1>8. PICK e \in 0 .. EntryCount - 1 : MadeBy[e] <= n /\ n < MadeBy[e + 1] /\ q = e - 1
  BY <1>7 DEF Under, HasParent
<1>9. /\ EntryCount \in Nat /\ parent_idx \in 0 .. EntryCount /\ MadeBy[parent_idx] = node_index
      /\ num_nodes_at_lvl \in Nat /\ parent_idx + num_nodes_at_lvl = 1 + StartOf[k]
  BY <1>1, <1>3, MadeInOrder DEF Shaped, LevelsInv, TreeType
<1>. DEFINE In(p) == LET first == node_index + SumOf(plat.desc, parent_idx, p)
                     IN first <= n /\ n < first + plat.desc[p + 1]
            these == parent_idx .. parent_idx + num_nodes_at_lvl - 1
<1>10. ASSUME NEW p \in these
       PROVE  p \in 0 .. EntryCount - 1 /\ (In(p) <=> MadeBy[p] <= n /\ n < MadeBy[p + 1])
  <2>1. p \in 0 .. EntryCount - 1 /\ p \in 0 .. EntryCount /\ p + 1 \in 1 .. EntryCount /\ (p + 1) - 1 = p
    BY <1>4, <1>9
  <2>2. MadeBy[p + 1] = MadeBy[p] + plat.desc[p + 1]
    <3>1. plat.desc \in Seq(Nat \ {0})
      BY <1>1, PlatformAssumption
    <3>2. \A i \in 1 .. EntryCount : MadeBy[i] = MadeBy[i - 1] + plat.desc[i]
      BY <3>1, NodesMadeFacts DEF MadeBy, EntryCount
    <3>. QED  BY <2>1, <3>2
  <2>3. MadeBy[p] \in Nat /\ node_index \in Nat
    BY <1>1, <1>3, <1>4, <2>1, MadeInOrder DEF Shaped
  <2>4. node_index + SumOf(plat.desc, parent_idx, p) = MadeBy[p]
    <3>1. SumOf(plat.desc, parent_idx, p) = MadeBy[p] - node_index
      BY <1>9 DEF SumOf, MadeBy
    <3>. QED  BY <2>3, <3>1
  <2>. QED  BY <2>1, <2>2, <2>4
<1>11. e \in these
  <2>1. e \in 0 .. EntryCount /\ e + 1 \in 0 .. EntryCount
    BY <1>9
  <2>2. e >= parent_idx
    <3>. SUFFICES ASSUME e + 1 <= parent_idx PROVE FALSE
      BY <1>9
    <3>1. MadeBy[e + 1] <= MadeBy[parent_idx]
      BY <1>1, <1>9, <2>1, MadeInOrder DEF Shaped
    <3>2. MadeBy[e + 1] \in Nat
      BY <1>1, <2>1, MadeInOrder DEF Shaped
    <3>. QED  BY <1>3, <1>4, <1>8, <1>9, <3>1, <3>2
  <2>3. e < 1 + StartOf[k]
    <3>. SUFFICES ASSUME 1 + StartOf[k] <= e PROVE FALSE
      BY <1>4
    <3>1. MadeBy[1 + StartOf[k]] <= MadeBy[e]
      BY <1>1, <1>4, <2>1, MadeInOrder DEF Shaped
    <3>2. MadeBy[e] \in Nat
      BY <1>1, <2>1, MadeInOrder DEF Shaped
    <3>. QED  BY <1>3, <1>4, <1>8, <3>1, <3>2
  <2>. QED  BY <1>9, <2>2, <2>3
<1>12. In(e)
  BY <1>8, <1>10, <1>11
<1>13. ParentOf(n) = (CHOOSE p \in these : In(p)) - 1
  BY DEF ParentOf
<1>14. PICK c : c = CHOOSE p \in these : In(p)
  OBVIOUS
<1>15. c \in these /\ In(c)
  <2>. HIDE DEF In, these
  <2>. QED  BY <1>11, <1>12, <1>14
<1>16. c \in 0 .. EntryCount - 1 /\ MadeBy[c] <= n /\ n < MadeBy[c + 1]
  BY <1>10, <1>15
<1>17. ParentOf(n) = c - 1
  BY <1>13, <1>14
<1>. QED  BY <1>9, <1>16, <1>17 DEF Under, HasParent

\* What the description says does not change.
LEMMA DescriptionStays ==
  ASSUME plat' = plat
  PROVE  /\ Nodes' = Nodes /\ MaxLevel' = MaxLevel /\ StartOf' = StartOf /\ MadeBy' = MadeBy
         /\ EntryCount' = EntryCount /\ PlatCpus' = PlatCpus /\ Shaped' = Shaped
         /\ \A n, l : At(n, l)' = At(n, l)
         /\ \A n, q : Under(n, q)' = Under(n, q)
         /\ \A c : Up(c)' = Up(c)
         /\ \A n : Present(n)' = Present(n)
<1>1. MaxLevel' = MaxLevel /\ StartOf' = StartOf /\ MadeBy' = MadeBy /\ EntryCount' = EntryCount /\ Nodes' = Nodes
  BY DEF MaxLevel, StartOf, MadeBy, EntryCount, Nodes
<1>2. PlatCpus' = PlatCpus /\ Shaped' = Shaped
  BY <1>1 DEF PlatCpus, Shaped
<1>3. \A n, l : At(n, l)' = At(n, l)
  BY <1>1 DEF At
<1>4. \A n, q : Under(n, q)' = Under(n, q)
  BY <1>1 DEF Under
<1>5. \A c : Up(c)' = Up(c)
  BY <1>1 DEF Up, IsLine
<1>6. \A n : Present(n)' = Present(n)
  BY <1>1 DEF Present
<1>. QED  BY <1>1, <1>2, <1>3, <1>4, <1>5, <1>6

\* A level that is made has the parents and the level number it should.
LEMMA PopulateLevelInv == TreeInv /\ PopulateLevel => TreeInv'
<1>. SUFFICES ASSUME TreeInv, PopulateLevel PROVE TreeInv'
  OBVIOUS
<1>1. TreeType /\ LevelsInv /\ LimitsInv
  BY DEF TreeInv
<1>. DEFINE k == MaxLevel - num_level
            made == SumOf(plat.desc, parent_idx, parent_idx + num_nodes_at_lvl)
            cpu(j) == j - node_index
            inner(j) == [Node(j) EXCEPT !.parent_node = ParentOf(j), !.level = num_level]
            leaf(j) == [inner(j) EXCEPT
                          !.mpidr = IF cpu(j) \in plat.absent THEN INVALID_MPID ELSE Mpid(cpu(j)),
                          !.is_present = cpu(j) \notin plat.absent,
                          !.cpu_start_node = j, !.ncpus = 1]
            new == node_index .. node_index + made - 1
<1>2. /\ num_level \in 0 .. MaxLevel /\ num_level' = num_level - 1
      /\ plat' = plat /\ topology_setup_done' = topology_setup_done
      /\ cpu_id' = cpu_id /\ nodes_idx' = nodes_idx
  <2>1. num_level \in -1 .. MaxLevel /\ num_level >= 0
    BY <1>1 DEF TreeType, PopulateLevel
  <2>2. num_level' = num_level - 1
    BY DEF PopulateLevel
  <2>3. plat' = plat /\ topology_setup_done' = topology_setup_done /\ cpu_id' = cpu_id /\ nodes_idx' = nodes_idx
    BY DEF PopulateLevel
  <2>. HIDE DEF k
  <2>. QED  BY <2>1, <2>2, <2>3
<1>22. tftf_pwr_domain_start_idx' = [tftf_pwr_domain_start_idx EXCEPT ![num_level] = node_index]
  BY DEF PopulateLevel
<1>23. tftf_pd_nodes' = [n \in Nodes |-> IF n \notin new THEN Node(n)
                                         ELSE IF num_level = 0 THEN leaf(n) ELSE inner(n)]
  BY ZenonT(30) DEF PopulateLevel
<1>24. node_index' = node_index + made /\ parent_idx' = parent_idx + num_nodes_at_lvl /\ num_nodes_at_lvl' = made
  BY DEF PopulateLevel
<1>3. /\ Shaped /\ plat.cores \in Nat \ {0} /\ plat.affs \in Nat /\ MaxLevel \in Nat \ {0}
      /\ StartOf[MaxLevel + 1] = plat.affs
  BY <1>1, PlatShaped DEF TreeType
<1>4. /\ k \in 0 .. MaxLevel /\ k \in 0 .. MaxLevel + 1 /\ k + 1 \in 0 .. MaxLevel + 1
      /\ MaxLevel + 1 \in 0 .. MaxLevel + 1 /\ MaxLevel - num_level' = k + 1
  BY <1>2, <1>3
<1>. HIDE DEF k, inner, leaf
<1>5. /\ StartOf[k] \in Nat /\ StartOf[k + 1] \in Nat
      /\ StartOf[k + 1] = MadeBy[1 + StartOf[k]] /\ 1 + StartOf[k] \in 0 .. EntryCount
      /\ StartOf[k] < StartOf[k + 1]
  BY <1>3, <1>4, StartsInOrder DEF Shaped
<1>6. StartOf[k + 1] <= plat.affs
  BY <1>3, <1>4, StartsInOrder DEF Shaped
<1>7. /\ node_index = StartOf[k] /\ parent_idx \in Nat /\ num_nodes_at_lvl \in Nat
      /\ MadeBy[parent_idx] = node_index /\ parent_idx + num_nodes_at_lvl = 1 + node_index
  BY <1>1 DEF LevelsInv, TreeType, k
<1>8. made = StartOf[k + 1] - StartOf[k] /\ made \in Nat
  <2>1. made = MadeBy[parent_idx + num_nodes_at_lvl] - MadeBy[parent_idx]
    BY DEF SumOf, MadeBy
  <2>. HIDE DEF made
  <2>. QED  BY <1>5, <1>7, <2>1
<1>. HIDE DEF made
<1>9. node_index' = StartOf[k + 1] /\ new = StartOf[k] .. StartOf[k + 1] - 1
  <2>1. node_index + made = StartOf[k + 1]
    BY <1>5, <1>7, <1>8
  <2>2. node_index + made - 1 = StartOf[k + 1] - 1
    BY <1>5, <1>7, <1>8, <2>1
  <2>. QED  BY <1>7, <1>24, <2>1, <2>2
<1>. HIDE DEF new
<1>10. new \subseteq Nodes
  BY <1>3, <1>5, <1>6, <1>9 DEF Nodes
<1>11. ASSUME NEW n \in new PROVE At(n, num_level) /\ ParentOf(n) \in Int /\ Under(n, ParentOf(n))
  <2>1. At(n, num_level)
    BY <1>9, <1>5, <1>11 DEF At, OnLevel, k
  <2>2. n \in node_index .. StartOf[MaxLevel - num_level + 1] - 1
    BY <1>7, <1>9, <1>11 DEF k
  <2>. QED  BY <1>1, <1>2, <2>1, <2>2, ParentOfFinds
<1>12. ASSUME NEW n \in Nodes PROVE Node(n) \in PowerNode
  BY <1>1, <1>12 DEF TreeType, Node
<1>13. ASSUME NEW n \in Nodes
       PROVE  Node(n)' = IF n \notin new THEN Node(n) ELSE IF num_level = 0 THEN leaf(n) ELSE inner(n)
  BY <1>23, <1>13 DEF Node
<1>14. ASSUME NEW n \in new
       PROVE  /\ inner(n) \in PowerNode /\ inner(n).parent_node = ParentOf(n) /\ inner(n).level = num_level
              /\ inner(n).cpu_start_node = Node(n).cpu_start_node /\ inner(n).ncpus = Node(n).ncpus
              /\ inner(n).is_present = Node(n).is_present
  <2>1. num_level \in Nat /\ Node(n) \in PowerNode /\ ParentOf(n) \in Int
    BY <1>2, <1>3, <1>10, <1>11, <1>12
  <2>2. inner(n) = AsChild(Node(n), ParentOf(n), num_level)
    BY DEF inner, AsChild
  <2>. QED  BY <2>1, <2>2, NodeFields
<1>15. ASSUME NEW n \in new
       PROVE  LET there == cpu(n) \notin plat.absent
              IN /\ leaf(n) \in PowerNode /\ leaf(n).parent_node = ParentOf(n) /\ leaf(n).level = num_level
                 /\ leaf(n).cpu_start_node = n /\ leaf(n).ncpus = 1
                 /\ leaf(n).mpidr = (IF cpu(n) \in plat.absent THEN INVALID_MPID ELSE Mpid(cpu(n)))
                 /\ leaf(n).is_present = there
  <2>1. n \in Nat /\ node_index \in Int
    BY <1>5, <1>7, <1>9
  <2>2. (IF cpu(n) \in plat.absent THEN INVALID_MPID ELSE Mpid(cpu(n))) \in Int
    BY <2>1 DEF INVALID_MPID, Mpid
  <2>4. inner(n) \in PowerNode /\ inner(n).parent_node = ParentOf(n) /\ inner(n).level = num_level
    BY <1>14
  <2>. DEFINE m == IF cpu(n) \in plat.absent THEN INVALID_MPID ELSE Mpid(cpu(n))
  <2>5. n \in Nat /\ inner(n) \in PowerNode /\ m \in Int
    BY <2>1, <2>2, <2>4
  <2>6. leaf(n) = AsCpu(inner(n), m, cpu(n), plat.absent, n)
    BY DEF leaf, AsCpu
  <2>. HIDE DEF cpu, m
  <2>7. /\ leaf(n) \in PowerNode /\ leaf(n).parent_node = inner(n).parent_node
        /\ leaf(n).level = inner(n).level
        /\ leaf(n).cpu_start_node = n /\ leaf(n).ncpus = 1 /\ leaf(n).mpidr = m
        /\ leaf(n).is_present = (cpu(n) \notin plat.absent)
    BY <2>5, <2>6, CpuNodeFields
  <2>. QED  BY <2>4, <2>7 DEF m
<1>16. ASSUME NEW n \in new
       PROVE  /\ Node(n)' \in PowerNode /\ Node(n)'.parent_node = ParentOf(n) /\ Node(n)'.level = num_level
              /\ num_level # 0 => /\ Node(n)'.cpu_start_node = Node(n).cpu_start_node
                                  /\ Node(n)'.ncpus = Node(n).ncpus
                                  /\ Node(n)'.is_present = Node(n).is_present
  <2>1. Node(n)' = IF num_level = 0 THEN leaf(n) ELSE inner(n)
    BY <1>10, <1>13
  <2>2. CASE num_level = 0
    <3>1. Node(n)' = leaf(n)
      BY <2>1, <2>2
    <3>. QED  BY <1>15, <2>2, <3>1
  <2>3. CASE num_level # 0
    <3>1. Node(n)' = inner(n)
      BY <2>1, <2>3
    <3>. QED  BY <1>14, <3>1
  <2>. QED  BY <2>2, <2>3
<1>17. TreeType'
  <2>1. tftf_pd_nodes' \in [Nodes -> PowerNode]
    <3>1. ASSUME NEW n \in Nodes PROVE Node(n)' \in PowerNode
      BY <1>12, <1>13, <1>16
    <3>2. \A n \in Nodes : Node(n)' = tftf_pd_nodes'[n]
      BY DEF Node
    <3>3. tftf_pd_nodes' = [n \in Nodes |-> tftf_pd_nodes'[n]]
      BY <1>23
    <3>. QED  BY <3>1, <3>2, <3>3
  <2>2. num_level' \in -1 .. MaxLevel /\ num_level >= 0
    BY <1>2, <1>3
  <2>3. parent_idx' \in Nat /\ num_nodes_at_lvl' \in Nat
    BY <1>24, <1>7, <1>8
  <2>4. Nodes' = Nodes /\ MaxLevel' = MaxLevel
    BY <1>2, DescriptionStays
  <2>5. DOMAIN tftf_pwr_domain_start_idx' = 0 .. MaxLevel
    BY <1>1, <1>22 DEF TreeType
  <2>6. /\ plat' \in Platforms /\ cpu_id' \in 0 .. plat'.cores /\ cpu_id' = 0
        /\ topology_setup_done' = (cpu_id' = plat'.cores)
    BY <1>1, <1>2, <2>2 DEF TreeType
  <2>. QED  BY <2>1, <2>2, <2>3, <2>4, <2>5, <2>6 DEF TreeType
<1>18. RootedTo(node_index)'
  <2>1. ASSUME NEW n \in 0 .. node_index' - 1
        PROVE  /\ Node(n)'.parent_node \in Int /\ Under(n, Node(n)'.parent_node)
               /\ \A l \in 0 .. MaxLevel : At(n, l) => Node(n)'.level = l
    <3>1. CASE n \in new
      <4>1. ASSUME NEW l \in 0 .. MaxLevel, At(n, l) PROVE Node(n)'.level = l
        <5>1. n \in Int /\ At(n, num_level)
          BY <1>11, <3>1
        <5>2. l = num_level
          BY <1>2, <1>3, <4>1, <5>1, OneLevel DEF Shaped, At
        <5>. QED  BY <1>16, <3>1, <5>2
      <4>. QED  BY <1>11, <1>16, <3>1, <4>1
    <3>2. CASE n \notin new
      <4>1. n \in 0 .. node_index - 1 /\ n \in Nodes
        BY <1>3, <1>5, <1>6, <1>7, <1>9, <3>2 DEF Nodes
      <4>2. Node(n)' = Node(n)
        BY <1>13, <3>2, <4>1
      <4>3. RootedTo(node_index)
        BY <1>1 DEF LevelsInv
      <4>. QED  BY <4>1, <4>2, <4>3 DEF RootedTo
    <3>. QED  BY <3>1, <3>2
  <2>2. MaxLevel' = MaxLevel /\ (\A n, l : At(n, l)' = At(n, l)) /\ (\A n, q : Under(n, q)' = Under(n, q))
    BY <1>2, DescriptionStays
  <2>. QED  BY <2>1, <2>2 DEF RootedTo
<1>19. ASSUME num_level' = -1, NEW n \in PlatCpus PROVE CpuReady(n)'
  <2>1. num_level = 0 /\ k = MaxLevel
    BY <1>2, <1>3, <1>19 DEF k
  <2>2. n \in new
    BY <1>9, <2>1 DEF PlatCpus, Cpus
  <2>3. Node(n)' = leaf(n)
    BY <1>10, <1>13, <2>1, <2>2
  <2>4. node_index = StartOf[MaxLevel] /\ StartOf' = StartOf /\ MaxLevel' = MaxLevel
    BY <1>2, <1>7, <2>1, DescriptionStays
  <2>5. Present(n)' = (cpu(n) \notin plat.absent)
    BY <1>2, <2>4 DEF Present
  <2>6. /\ leaf(n).cpu_start_node = n /\ leaf(n).ncpus = 1
        /\ leaf(n).mpidr = (IF cpu(n) \in plat.absent THEN INVALID_MPID ELSE Mpid(cpu(n)))
        /\ leaf(n).is_present = (cpu(n) \notin plat.absent)
    BY <1>15, <2>2
  <2>. QED  BY <2>3, <2>4, <2>5, <2>6 DEF CpuReady
<1>20. LevelsInv'
  <2>1. /\ MaxLevel' = MaxLevel /\ StartOf' = StartOf /\ MadeBy' = MadeBy /\ EntryCount' = EntryCount
        /\ PlatCpus' = PlatCpus
    BY <1>2, DescriptionStays
  <2>2. node_index' = StartOf[MaxLevel - num_level']
    BY <1>4, <1>9
  <2>3. /\ parent_idx' = 1 + StartOf[k] /\ MadeBy[parent_idx'] = node_index'
        /\ parent_idx' \in 0 .. EntryCount /\ parent_idx' + num_nodes_at_lvl' = 1 + node_index'
    <3>1. parent_idx' = 1 + StartOf[k]
      BY <1>24, <1>7
    <3>2. parent_idx' + num_nodes_at_lvl' = 1 + node_index'
      <4>1. 1 + StartOf[k] + (StartOf[k + 1] - StartOf[k]) = 1 + StartOf[k + 1]
        BY <1>5
      <4>. QED  BY <1>24, <1>8, <1>9, <3>1, <4>1
    <3>. QED  BY <1>5, <1>9, <3>1, <3>2
  <2>4. ASSUME NEW l \in 0 .. MaxLevel, l > num_level'
        PROVE  tftf_pwr_domain_start_idx'[l] = StartOf[MaxLevel - l]
    <3>1. CASE l = num_level
      BY <1>1, <1>22, <1>7, <3>1 DEF TreeType, k
    <3>2. CASE l # num_level
      <4>1. l > num_level
        BY <1>2, <1>3, <2>4, <3>2
      <4>2. tftf_pwr_domain_start_idx[l] = StartOf[MaxLevel - l]
        BY <1>1, <4>1 DEF LevelsInv
      <4>. QED  BY <1>1, <1>22, <3>2, <4>2 DEF TreeType
    <3>. QED  BY <3>1, <3>2
  <2>. QED  BY <1>18, <1>19, <2>1, <2>2, <2>3, <2>4 DEF LevelsInv
<1>21. LimitsInv'
  <2>1. cpu_id = 0 /\ cpu_id' = 0
    BY <1>1, <1>2, <1>3 DEF TreeType
  <2>2. ASSUME NEW n \in Nodes \ PlatCpus PROVE Unlimited(Node(n))'
    <3>1. Unlimited(Node(n))
      BY <1>1, <2>1 DEF LimitsInv
    <3>2. CASE n \notin new
      BY <1>13, <3>1, <3>2 DEF Unlimited
    <3>3. CASE n \in new
      <4>1. num_level # 0
        <5>. SUFFICES ASSUME num_level = 0 PROVE FALSE
          OBVIOUS
        <5>1. k = MaxLevel
          BY <1>3 DEF k
        <5>. QED  BY <1>9, <3>3, <5>1 DEF PlatCpus, Cpus
      <4>2. /\ Node(n)'.cpu_start_node = Node(n).cpu_start_node
            /\ Node(n)'.ncpus = Node(n).ncpus /\ Node(n)'.is_present = Node(n).is_present
        BY <1>16, <3>3, <4>1
      <4>. QED  BY <3>1, <4>2 DEF Unlimited
    <3>. QED  BY <3>2, <3>3
  <2>3. MaxLevel' = MaxLevel /\ Nodes' = Nodes /\ PlatCpus' = PlatCpus
    BY <1>2, DescriptionStays
  <2>4. \A j \in 0 .. MaxLevel - 1 : nodes_idx'[j] = IF j = 0 THEN -1 ELSE 0
    BY <1>1, <1>2, <2>1 DEF LimitsInv
  <2>5. DOMAIN nodes_idx' = 0 .. MaxLevel - 1
    BY <1>1, <1>2 DEF LimitsInv
  <2>. QED  BY <2>1, <2>2, <2>3, <2>4, <2>5 DEF LimitsInv
<1>. QED  BY <1>17, <1>20, <1>21 DEF TreeInv

\* In a rooted tree Ancestors gives the line of the description.
LEMMA UpIsLine ==
  ASSUME plat \in Platforms, RootedTo(plat.affs), NEW c \in PlatCpus
  PROVE  IsLine(Up(c), c) /\ Ancestors(c) = Up(c)
<1>1. IsLine(Ancestors(c), c)
  BY AncestorsAreLine
<1>2. IsLine(Up(c), c)
  BY <1>1 DEF Up
<1>3. Shaped
  BY PlatShaped
<1>4. c \in Nat
  BY <1>3, CpuLevel DEF Shaped, PlatCpus
<1>. QED  BY <1>1, <1>2, <1>3, <1>4, OneLine DEF IsLine, Shaped

\* What the lines tell of the domains that a CPU is in.
LEMMA UpFacts ==
  ASSUME plat \in Platforms, RootedTo(plat.affs), NEW c \in PlatCpus, NEW l \in 0 .. MaxLevel
  PROVE  /\ c \in Nat /\ Up(c)[l] \in Nat /\ At(Up(c)[l], l) /\ Up(c)[0] = c
         /\ \A d \in PlatCpus : c <= d => Up(c)[l] <= Up(d)[l]
<1>1. Shaped
  BY PlatShaped
<1>2. \A x \in PlatCpus : x \in Nat /\ OnLevel(x, 0, MaxLevel, StartOf)
  BY <1>1, CpuLevel DEF Shaped, PlatCpus
<1>3. \A x \in PlatCpus : IsLine(Up(x), x)
  BY UpIsLine
<1>4. Up(c)[l] \in Nat /\ Up(c)[0] = c
  BY <1>3 DEF IsLine, Line
<1>5. At(Up(c)[l], l)
  BY <1>1, <1>2, <1>3, LineClimbs DEF IsLine, Shaped, At
<1>6. ASSUME NEW d \in PlatCpus, c <= d PROVE Up(c)[l] <= Up(d)[l]
  <2>1. c \in Nat /\ d \in Nat /\ IsLine(Up(c), c) /\ IsLine(Up(d), d)
    BY <1>2, <1>3
  <2>2. \A k \in 0 .. MaxLevel : Up(c)[k] <= Up(d)[k]
    BY <1>1, <1>6, <2>1, LinesInOrder DEF IsLine, Shaped
  <2>. QED  BY <2>2
<1>. QED  BY <1>2, <1>4, <1>5, <1>6

\* A domain of a level above the CPUs is a node that is none.
LEMMA DomainLevel ==
  ASSUME Shaped, NEW n \in Int, NEW l \in 1 .. MaxLevel, At(n, l)
  PROVE  n \notin PlatCpus /\ n \in Nat /\ (\A k \in 0 .. MaxLevel : At(n, k) => k = l)
<1>1. MaxLevel \in Nat /\ l \in 0 .. MaxLevel /\ 0 \in 0 .. MaxLevel
  BY StartsInOrder DEF Shaped
<1>2. \A k \in 0 .. MaxLevel : At(n, k) => k = l
  BY <1>1, OneLevel DEF Shaped, At
<1>3. n \notin PlatCpus
  <2>. SUFFICES ASSUME n \in PlatCpus PROVE FALSE
    OBVIOUS
  <2>1. At(n, 0)
    BY CpuLevel DEF Shaped, PlatCpus, At
  <2>. QED  BY <1>1, <1>2, <2>1
<1>4. n \in Nat
  <2>1. MaxLevel - l \in 0 .. MaxLevel + 1
    BY <1>1
  <2>2. StartOf[MaxLevel - l] \in Nat
    BY <2>1, StartsInOrder DEF Shaped
  <2>. QED  BY <2>2 DEF At, OnLevel
<1>. QED  BY <1>2, <1>3, <1>4

\* A node that the loop of update_pwrlvl_limits comes to for a CPU.
Joined(n, cpu_node, j) ==
  [Node(n) EXCEPT !.ncpus = @ + 1,
                  !.cpu_start_node = IF nodes_idx[j] # n THEN cpu_node ELSE @,
                  !.is_present = @ \/ (nodes_idx[j] # n /\ Node(cpu_node).is_present)]

\* A CPU that joins a domain changes its count, not its place in the tree.
LEMMA JoinedFields ==
  ASSUME NEW n, NEW cpu_node \in Nat, NEW j, Node(n) \in PowerNode, Node(cpu_node) \in PowerNode
  PROVE  /\ Joined(n, cpu_node, j) \in PowerNode
         /\ Joined(n, cpu_node, j).parent_node = Node(n).parent_node
         /\ Joined(n, cpu_node, j).level = Node(n).level
         /\ Joined(n, cpu_node, j).ncpus = Node(n).ncpus + 1
<1>1. Node(n).is_present \/ (nodes_idx[j] # n /\ Node(cpu_node).is_present) \in BOOLEAN
  BY DEF PowerNode
<1>2. (IF nodes_idx[j] # n THEN cpu_node ELSE Node(n).cpu_start_node) \in Nat
  BY DEF PowerNode
<1>3. Node(n).ncpus + 1 \in Nat
  BY DEF PowerNode
<1>4. Joined(n, cpu_node, j) \in PowerNode
  <2>. DEFINE there == Node(n).is_present \/ (nodes_idx[j] # n /\ Node(cpu_node).is_present)
              start == IF nodes_idx[j] # n THEN cpu_node ELSE Node(n).cpu_start_node
  <2>1. Joined(n, cpu_node, j) = [Node(n) EXCEPT !.ncpus = Node(n).ncpus + 1, !.cpu_start_node = start,
                                                 !.is_present = there]
    BY DEF Joined
  <2>2. there \in BOOLEAN /\ start \in Nat
    BY <1>1, <1>2
  <2>. HIDE DEF there, start
  <2>3. [Node(n) EXCEPT !.ncpus = Node(n).ncpus + 1, !.cpu_start_node = start, !.is_present = there] \in PowerNode
    BY <1>3, <2>2 DEF PowerNode
  <2>. QED  BY <2>1, <2>3
<1>5. /\ Joined(n, cpu_node, j).parent_node = Node(n).parent_node
      /\ Joined(n, cpu_node, j).level = Node(n).level
      /\ Joined(n, cpu_node, j).ncpus = Node(n).ncpus + 1
  BY DEF PowerNode, Joined
<1>. QED  BY <1>4, <1>5

\* A domain that was not the parent of the previous CPU begins with this one.
LEMMA JoinedBegins ==
  ASSUME NEW n, NEW cpu_node \in Nat, NEW j, Node(n) \in PowerNode, Node(cpu_node) \in PowerNode,
         nodes_idx[j] # n, ~ Node(n).is_present
  PROVE  /\ Joined(n, cpu_node, j).cpu_start_node = cpu_node
         /\ Joined(n, cpu_node, j).is_present = Node(cpu_node).is_present
<1>1. Joined(n, cpu_node, j).is_present = (Node(n).is_present \/ (nodes_idx[j] # n /\ Node(cpu_node).is_present))
  BY DEF PowerNode, Joined
<1>2. Node(cpu_node).is_present \in BOOLEAN
  BY DEF PowerNode
<1>3. Joined(n, cpu_node, j).cpu_start_node = cpu_node
  BY DEF PowerNode, Joined
<1>. QED  BY <1>1, <1>2, <1>3

\* A domain that was the parent of the previous CPU keeps its first one.
LEMMA JoinedStays ==
  ASSUME NEW n, NEW cpu_node \in Nat, NEW j, Node(n) \in PowerNode, nodes_idx[j] = n
  PROVE  /\ Joined(n, cpu_node, j).cpu_start_node = Node(n).cpu_start_node
         /\ Joined(n, cpu_node, j).is_present = Node(n).is_present
<1>1. Joined(n, cpu_node, j).is_present = (Node(n).is_present \/ (nodes_idx[j] # n /\ Node(cpu_node).is_present))
  BY DEF PowerNode, Joined
<1>2. Node(n).is_present \in BOOLEAN
  BY DEF PowerNode
<1>3. Joined(n, cpu_node, j).cpu_start_node = Node(n).cpu_start_node
  BY DEF PowerNode, Joined
<1>. QED  BY <1>1, <1>2, <1>3

\* When the levels are made the tree is rooted.
LEMMA TreeMade ==
  ASSUME TreeType, LevelsInv, num_level = -1
  PROVE  /\ Shaped /\ MaxLevel \in Nat \ {0} /\ plat.affs \in Nat /\ plat.cores \in Nat \ {0}
         /\ node_index = plat.affs /\ RootedTo(plat.affs) /\ Nodes = 0 .. plat.affs - 1
         /\ StartOf[MaxLevel] \in Nat /\ StartOf[MaxLevel] + plat.cores = plat.affs
         /\ PlatCpus = StartOf[MaxLevel] .. plat.affs - 1
         /\ tftf_pwr_domain_start_idx[0] = StartOf[MaxLevel]
         /\ \A n \in PlatCpus : CpuReady(n) /\ n \in Nodes
<1>1. /\ Shaped /\ MaxLevel \in Nat \ {0} /\ plat.affs \in Nat /\ plat.cores \in Nat \ {0}
      /\ StartOf[MaxLevel] = plat.affs - plat.cores /\ StartOf[MaxLevel + 1] = plat.affs
  BY PlatShaped DEF TreeType
<1>2. MaxLevel - (-1) = MaxLevel + 1 /\ 0 \in 0 .. MaxLevel /\ 0 > -1 /\ MaxLevel - 0 = MaxLevel /\ MaxLevel \in 0 .. MaxLevel + 1
  BY <1>1
<1>3. node_index = plat.affs /\ RootedTo(plat.affs) /\ tftf_pwr_domain_start_idx[0] = StartOf[MaxLevel]
  BY <1>1, <1>2 DEF LevelsInv
<1>4. StartOf[MaxLevel] \in Nat
  BY <1>1, <1>2, StartsInOrder DEF Shaped
<1>5. PlatCpus = StartOf[MaxLevel] .. plat.affs - 1 /\ Nodes = 0 .. plat.affs - 1
  BY <1>1 DEF PlatCpus, Cpus, Nodes
<1>6. \A n \in PlatCpus : CpuReady(n) /\ n \in Nodes
  BY <1>4, <1>5 DEF LevelsInv
<1>. QED  BY <1>1, <1>3, <1>4, <1>5, <1>6

\* What one turn of the loop over the CPUs does to the nodes: x is the CPU.
LEMMA UpdateNodes ==
  ASSUME TreeInv, UpdateLimits
  PROVE  LET x == StartOf[MaxLevel] + cpu_id
         IN /\ num_level = -1 /\ cpu_id \in 0 .. plat.cores - 1 /\ x \in PlatCpus
            /\ \A j \in 0 .. MaxLevel - 1 : nodes_idx'[j] = Up(x)[j + 1]
            /\ DOMAIN nodes_idx' = 0 .. MaxLevel - 1
            /\ \A n \in PlatCpus : Node(n)' = Node(n)
            /\ \A n \in Nodes : \A l \in 1 .. MaxLevel : At(n, l) =>
                 Node(n)' = IF Up(x)[l] = n THEN Joined(n, x, l - 1) ELSE Node(n)
            /\ DOMAIN tftf_pd_nodes' = Nodes
<1>. DEFINE x == StartOf[MaxLevel] + cpu_id
            temp_index == [j \in DOMAIN nodes_idx |-> Ancestor(x, j + 1)]
<1>1. TreeType /\ LevelsInv /\ LimitsInv
  BY DEF TreeInv
<1>2. num_level = -1 /\ cpu_id \in 0 .. plat.cores - 1
  <2>1. cpu_id \in 0 .. plat.cores /\ cpu_id < plat.cores /\ num_level = -1 /\ plat \in Platforms
    BY <1>1 DEF TreeType, UpdateLimits
  <2>2. plat.cores \in Nat
    BY <2>1, PlatformAssumption
  <2>. QED  BY <2>1, <2>2
<1>3. /\ Shaped /\ MaxLevel \in Nat \ {0} /\ plat.affs \in Nat /\ plat.cores \in Nat \ {0}
      /\ RootedTo(plat.affs) /\ Nodes = 0 .. plat.affs - 1
      /\ StartOf[MaxLevel] \in Nat /\ StartOf[MaxLevel] + plat.cores = plat.affs
      /\ PlatCpus = StartOf[MaxLevel] .. plat.affs - 1
      /\ tftf_pwr_domain_start_idx[0] = StartOf[MaxLevel] /\ plat \in Platforms
  BY <1>1, <1>2, TreeMade DEF TreeType
<1>4. x \in PlatCpus
  BY <1>2, <1>3
<1>5. cpu_id + tftf_pwr_domain_start_idx[0] = x
  BY <1>2, <1>3
<1>6. tftf_pd_nodes' = LimitsAfter(x, temp_index) /\ nodes_idx' = temp_index
  BY <1>5 DEF UpdateLimits
<1>. HIDE DEF x
<1>7. DOMAIN nodes_idx = 0 .. MaxLevel - 1
  BY <1>1 DEF LimitsInv
<1>8. ASSUME NEW j \in 0 .. MaxLevel - 1 PROVE temp_index[j] = Up(x)[j + 1]
  <2>1. Ancestors(x) = Up(x)
    BY <1>3, <1>4, UpIsLine
  <2>. QED  BY <1>7, <2>1 DEF Ancestor
<1>9. DOMAIN temp_index = 0 .. MaxLevel - 1
  BY <1>7
<1>. HIDE DEF temp_index
<1>10. ASSUME NEW n \in Nodes
       PROVE  Node(n)' = IF \A j \in 0 .. MaxLevel - 1 : temp_index[j] # n THEN Node(n)
                         ELSE Joined(n, x, CHOOSE j \in 0 .. MaxLevel - 1 : temp_index[j] = n)
  BY <1>6, <1>9, <1>10 DEF Node, LimitsAfter, Joined
<1>11. ASSUME NEW j \in 0 .. MaxLevel - 1
       PROVE  temp_index[j] \in Nat /\ At(temp_index[j], j + 1) /\ j + 1 \in 1 .. MaxLevel
  <2>1. j + 1 \in 1 .. MaxLevel /\ j + 1 \in 0 .. MaxLevel
    BY <1>3
  <2>. QED  BY <1>3, <1>4, <1>8, <2>1, UpFacts
<1>12. ASSUME NEW n \in PlatCpus PROVE Node(n)' = Node(n)
  <2>1. ASSUME NEW j \in 0 .. MaxLevel - 1 PROVE temp_index[j] # n
    <3>1. temp_index[j] \in Int
      BY <1>11
    <3>. QED  BY <1>3, <1>11, <3>1, DomainLevel
  <2>2. n \in Nodes
    BY <1>3
  <2>. QED  BY <1>10, <2>1, <2>2
<1>13. ASSUME NEW n \in Nodes, NEW l \in 1 .. MaxLevel, At(n, l)
       PROVE  Node(n)' = IF Up(x)[l] = n THEN Joined(n, x, l - 1) ELSE Node(n)
  <2>1. n \in Int /\ l - 1 \in 0 .. MaxLevel - 1 /\ (l - 1) + 1 = l
    BY <1>3
  <2>2. temp_index[l - 1] = Up(x)[l]
    BY <1>8, <2>1
  <2>3. ASSUME NEW j \in 0 .. MaxLevel - 1, temp_index[j] = n PROVE j = l - 1
    <3>1. At(n, j + 1) /\ j + 1 \in 0 .. MaxLevel
      BY <1>3, <1>11, <2>3
    <3>2. j + 1 = l
      BY <1>3, <1>13, <2>1, <3>1, DomainLevel
    <3>. QED  BY <3>2, <2>1
  <2>4. CASE Up(x)[l] = n
    <3>1. (CHOOSE j \in 0 .. MaxLevel - 1 : temp_index[j] = n) = l - 1
      BY <2>1, <2>2, <2>3, <2>4
    <3>2. ~ \A j \in 0 .. MaxLevel - 1 : temp_index[j] # n
      BY <2>1, <2>2, <2>4
    <3>. QED  BY <1>10, <2>4, <3>1, <3>2
  <2>5. CASE Up(x)[l] # n
    <3>1. \A j \in 0 .. MaxLevel - 1 : temp_index[j] # n
      BY <2>2, <2>3, <2>5
    <3>. QED  BY <1>10, <2>5, <3>1
  <2>. QED  BY <2>4, <2>5
<1>14. DOMAIN tftf_pd_nodes' = Nodes
  BY <1>6 DEF LimitsAfter
<1>15. \A j \in 0 .. MaxLevel - 1 : nodes_idx'[j] = Up(x)[j + 1]
  BY <1>6, <1>8
<1>. QED  BY <1>2, <1>4, <1>6, <1>9, <1>12, <1>13, <1>14, <1>15 DEF x

\* The CPUs gone through in a domain, with one CPU more.
LEMMA MineNext ==
  ASSUME NEW n, NEW l, NEW c \in Nat, StartOf[MaxLevel] \in Nat
  PROVE  Mine(n, l, c + 1) = Mine(n, l, c) \cup {x \in {StartOf[MaxLevel] + c} : Up(x)[l] = n}
<1>. DEFINE s == StartOf[MaxLevel]
<1>1. s .. s + (c + 1) - 1 = (s .. s + c - 1) \cup {s + c}
  <2>1. s \in Nat /\ s + (c + 1) - 1 = s + c
    OBVIOUS
  <2>. HIDE DEF s
  <2>. QED  BY <2>1
<1>. QED  BY <1>1 DEF Mine

\* The CPUs of a domain are a matter of the description.
LEMMA MineStays ==
  ASSUME plat' = plat, NEW n, NEW l, NEW c
  PROVE  Mine(n, l, c)' = Mine(n, l, c)
<1>1. StartOf' = StartOf /\ MaxLevel' = MaxLevel /\ \A x : Up(x)' = Up(x)
  BY DescriptionStays
<1>. QED  BY <1>1 DEF Mine

\* One more CPU of an interval.
LEMMA NextOfInterval ==
  ASSUME NEW f \in Nat, NEW n \in Nat, n > 0, NEW x \in Nat, x - 1 \in f .. f + n - 1,
         \A y \in f .. f + n - 1 : y <= x - 1
  PROVE  (f .. f + n - 1) \cup {x} = f .. f + (n + 1) - 1
<1>1. f + n - 1 \in f .. f + n - 1
  OBVIOUS
<1>2. f + n - 1 <= x - 1
  BY <1>1
<1>3. x - 1 <= f + n - 1
  OBVIOUS
<1>4. x = f + n
  BY <1>2, <1>3
<1>. QED  BY <1>4

\* A domain that the CPU at hand is in, or is not, has its limits afterwards.
LEMMA LimitsGrow ==
  ASSUME TreeInv, UpdateLimits, NEW n \in Nodes, NEW l \in 1 .. MaxLevel, At(n, l)
  PROVE  LimitsTo(Node(n)', n, l, cpu_id + 1)
<1>. DEFINE c == cpu_id
            s == StartOf[MaxLevel]
            x == s + c
            r == Node(n)
<1>1. TreeType /\ LevelsInv /\ LimitsInv
  BY DEF TreeInv
<1>2. /\ num_level = -1 /\ c \in 0 .. plat.cores - 1 /\ x \in PlatCpus
      /\ Node(n)' = IF Up(x)[l] = n THEN Joined(n, x, l - 1) ELSE r
  BY UpdateNodes
<1>3. /\ Shaped /\ MaxLevel \in Nat \ {0} /\ plat.affs \in Nat /\ plat.cores \in Nat \ {0}
      /\ RootedTo(plat.affs) /\ Nodes = 0 .. plat.affs - 1
      /\ s \in Nat /\ s + plat.cores = plat.affs
      /\ PlatCpus = s .. plat.affs - 1 /\ plat \in Platforms
      /\ CpuReady(x) /\ x \in Nodes
  BY <1>1, <1>2, TreeMade DEF TreeType
<1>. HIDE DEF s
<1>4. c \in Nat /\ x \in Nat /\ (c > 0 => x - 1 \in PlatCpus)
  BY <1>2, <1>3
<1>5. Mine(n, l, c + 1) = Mine(n, l, c) \cup {y \in {x} : Up(y)[l] = n}
  BY <1>3, <1>4, MineNext DEF s
<1>. HIDE DEF c, x
<1>6. n \in Nat /\ n \notin PlatCpus
  BY <1>3, DomainLevel
<1>7. Mine(n, l, 0) = {}
  BY <1>3 DEF Mine, s
<1>8. LimitsTo(r, n, l, c)
  <2>1. CASE c = 0
    <3>1. Unlimited(r)
      BY <1>1, <1>6, <2>1 DEF LimitsInv, c
    <3>. QED  BY <1>7, <2>1, <3>1 DEF LimitsTo
  <2>2. CASE c # 0
    BY <1>1, <1>4, <2>2 DEF LimitsInv, c
  <2>. QED  BY <2>1, <2>2
<1>9. CASE Up(x)[l] # n
  <2>1. Mine(n, l, c + 1) = Mine(n, l, c)
    BY <1>5, <1>9
  <2>2. Node(n)' = r
    BY <1>2, <1>9
  <2>3. LimitsTo(r, n, l, c + 1)
    BY <1>8, <2>1 DEF LimitsTo, LimitedFrom
  <2>. QED  BY <2>2, <2>3 DEF c
<1>10. CASE Up(x)[l] = n
  <2>. DEFINE j == l - 1
              q == Joined(n, x, j)
  <2>1. Node(n)' = q /\ Mine(n, l, c + 1) = Mine(n, l, c) \cup {x}
    BY <1>2, <1>5, <1>10
  <2>2. j \in 0 .. MaxLevel - 1 /\ j + 1 = l /\ l \in 0 .. MaxLevel
    BY <1>3
  <2>3. r \in PowerNode /\ Node(x) \in PowerNode
    BY <1>1, <1>3 DEF TreeType, Node
  <2>4. q.ncpus = r.ncpus + 1 /\ r.ncpus \in Nat
    BY <1>4, <2>3, JoinedFields DEF PowerNode
  <2>5. Node(x).is_present = Present(x)
    BY <1>3 DEF CpuReady
  <2>. HIDE DEF j, q, r
  <2>6. nodes_idx[j] = IF c > 0 THEN Up(x - 1)[l] ELSE IF l = 1 THEN -1 ELSE 0
    <3>1. StartOf[MaxLevel] + cpu_id - 1 = x - 1
      <4>1. s \in Nat /\ c \in Nat
        BY <1>3, <1>4
      <4>2. s + c - 1 = x - 1
        BY <4>1 DEF x
      <4>. QED  BY <4>2 DEF s, c
    <3>2. nodes_idx[j] = IF cpu_id > 0 THEN Up(StartOf[MaxLevel] + cpu_id - 1)[j + 1]
                         ELSE IF j = 0 THEN -1 ELSE 0
      BY <1>1, <2>2 DEF LimitsInv
    <3>3. nodes_idx[j] = IF c > 0 THEN Up(x - 1)[j + 1] ELSE IF j = 0 THEN -1 ELSE 0
      BY <3>1, <3>2 DEF c
    <3>4. j = 0 <=> l = 1
      BY <1>3, <2>2
    <3>. QED  BY <2>2, <3>3, <3>4
  <2>7. ASSUME Mine(n, l, c) = {}, Unlimited(r), nodes_idx[j] # n, ~(n = 0 /\ l >= 2)
        PROVE  LimitsTo(q, n, l, c + 1)
    <3>0. Node(n).is_present = FALSE /\ Node(n) \in PowerNode
      BY <2>3, <2>7 DEF Unlimited, r
    <3>1. q.cpu_start_node = x /\ q.is_present = Node(x).is_present
      <4>1. x \in Nat /\ Node(x) \in PowerNode /\ nodes_idx[j] # n
        BY <1>4, <2>3, <2>7
      <4>2. ~ Node(n).is_present /\ Node(n) \in PowerNode
        BY <3>0
      <4>3. q.cpu_start_node = x
        BY <4>1, <4>2, JoinedBegins DEF q
      <4>4. q.is_present = Node(x).is_present
        BY <4>1, <4>2, JoinedBegins DEF q
      <4>. QED  BY <4>3, <4>4
    <3>2. q.ncpus = 1
      BY <2>4, <2>7 DEF Unlimited
    <3>3. x .. x + q.ncpus - 1 = {x}
      BY <1>4, <3>2
    <3>5. Mine(n, l, c + 1) = x .. x + q.ncpus - 1
      BY <2>1, <2>7, <3>3
    <3>4. LimitedFrom(q, n, l, c + 1, x)
      BY <2>5, <2>7, <3>1, <3>2, <3>5, SMTT(60) DEF LimitedFrom
    <3>. QED  BY <1>2, <3>4 DEF LimitsTo, x, c
  <2>8. CASE c = 0
    <3>1. Unlimited(r)
      BY <1>1, <1>6, <2>8 DEF LimitsInv, c, r
    <3>2. Mine(n, l, c) = {}
      BY <1>7, <2>8
    <3>3. CASE n = 0 /\ l >= 2
      <4>1. nodes_idx[j] = n
        BY <2>6, <2>8, <3>3
      <4>2. q.cpu_start_node = r.cpu_start_node /\ q.is_present = r.is_present
        BY <1>4, <2>3, <4>1, JoinedStays DEF q, r
      <4>3. q.cpu_start_node = 0 /\ q.is_present = FALSE /\ q.ncpus = 1
        BY <2>4, <3>1, <4>2 DEF Unlimited
      <4>4. x .. x + q.ncpus - 1 = {x}
        BY <1>4, <4>3
      <4>7. Mine(n, l, c + 1) = x .. x + q.ncpus - 1
        BY <2>1, <3>2, <4>4
      <4>5. LimitedFrom(q, n, l, c + 1, x)
        BY <3>3, <4>3, <4>7, SMTT(60) DEF LimitedFrom
      <4>6. LimitsTo(q, n, l, c + 1)
        BY <1>2, <4>5 DEF LimitsTo, x, c
      <4>. QED  BY <2>1, <4>6 DEF c
    <3>4. CASE ~(n = 0 /\ l >= 2)
      <4>1. nodes_idx[j] # n
        BY <1>6, <2>6, <2>8, <3>4
      <4>2. LimitsTo(q, n, l, c + 1)
        BY <2>7, <3>1, <3>2, <3>4, <4>1
      <4>. QED  BY <2>1, <4>2 DEF c
    <3>. QED  BY <3>3, <3>4
  <2>9. CASE c > 0
    <3>. DEFINE p == x - 1
    <3>1. p \in PlatCpus /\ p \in Nat /\ p <= x /\ nodes_idx[j] = Up(p)[l] /\ x = p + 1
      BY <1>3, <1>4, <2>6, <2>9
    <3>2. Mine(n, l, c) = {y \in s .. p : Up(y)[l] = n} /\ p \in s .. p /\ s .. p \subseteq PlatCpus
      <4>1. s + c - 1 = p
        BY <1>3, <1>4 DEF x
      <4>2. p \in s .. plat.affs - 1 /\ p \in s .. p
        BY <1>3, <3>1
      <4>3. s .. p \subseteq PlatCpus
        BY <1>3, <4>2
      <4>. QED  BY <4>1, <4>2, <4>3 DEF Mine, s
    <3>. HIDE DEF p
    <3>3. Up(p)[l] \in Nat /\ Up(p)[l] <= n
      <4>1. Up(p)[l] \in Nat /\ \A d \in PlatCpus : p <= d => Up(p)[l] <= Up(d)[l]
        BY <1>3, <2>2, <3>1, UpFacts
      <4>. QED  BY <1>2, <1>10, <3>1, <4>1 DEF x, c
    <3>4. CASE Up(p)[l] = n
      <4>1. p \in Mine(n, l, c)
        BY <3>2, <3>4
      <4>2. PICK f \in PlatCpus : LimitedFrom(r, n, l, c, f)
        BY <1>8, <4>1 DEF LimitsTo, r
      <4>3. /\ r.ncpus > 0 /\ Mine(n, l, c) = f .. f + r.ncpus - 1
            /\ IF n = 0 /\ l >= 2 THEN r.cpu_start_node = 0 /\ r.is_present = FALSE
               ELSE r.cpu_start_node = f /\ r.is_present = Present(f)
        BY <4>2 DEF LimitedFrom
      <4>4. f \in Nat
        BY <1>3
      <4>5. \A y \in f .. f + r.ncpus - 1 : y <= x - 1
        BY <3>1, <3>2, <4>3
      <4>6. x - 1 \in f .. f + r.ncpus - 1
        BY <3>1, <4>1, <4>3
      <4>7. Mine(n, l, c + 1) = f .. f + q.ncpus - 1
        <5>1. (f .. f + r.ncpus - 1) \cup {x} = f .. f + (r.ncpus + 1) - 1
          BY <1>4, <2>4, <4>3, <4>4, <4>5, <4>6, NextOfInterval
        <5>. QED  BY <2>1, <2>4, <4>3, <5>1
      <4>8. q.cpu_start_node = r.cpu_start_node /\ q.is_present = r.is_present
        BY <1>4, <2>3, <3>1, <3>4, JoinedStays DEF q, r
      <4>9. q.ncpus > 0
        BY <2>4
      <4>10. LimitedFrom(q, n, l, c + 1, f)
        BY <4>3, <4>7, <4>8, <4>9 DEF LimitedFrom
      <4>11. LimitsTo(q, n, l, c + 1)
        BY <4>10 DEF LimitsTo
      <4>. QED  BY <2>1, <4>11 DEF c
    <3>5. CASE Up(p)[l] # n
      <4>1. Mine(n, l, c) = {}
        <5>. SUFFICES ASSUME NEW y \in s .. p, Up(y)[l] = n PROVE FALSE
          BY <3>2
        <5>1. y \in PlatCpus /\ y <= p
          BY <1>3, <3>1, <3>2
        <5>2. Up(y)[l] <= Up(p)[l]
          BY <1>3, <2>2, <3>1, <5>1, UpFacts
        <5>. QED  BY <1>6, <3>3, <3>5, <5>2
      <4>2. Unlimited(r)
        <5>1. ASSUME NEW f \in PlatCpus, LimitedFrom(r, n, l, c, f) PROVE FALSE
          <6>1. r.ncpus > 0 /\ Mine(n, l, c) = f .. f + r.ncpus - 1
            BY <5>1 DEF LimitedFrom
          <6>2. f \in Nat
            BY <1>3
          <6>3. f \in f .. f + r.ncpus - 1
            BY <2>4, <6>1, <6>2
          <6>. QED  BY <4>1, <6>1, <6>3
        <5>. QED  BY <1>8, <5>1 DEF LimitsTo, r
      <4>3. nodes_idx[j] # n /\ n # 0
        BY <1>6, <3>1, <3>3, <3>5
      <4>4. LimitsTo(q, n, l, c + 1)
        BY <2>7, <4>1, <4>2, <4>3
      <4>. QED  BY <2>1, <4>4 DEF c
    <3>. QED  BY <3>4, <3>5
  <2>. QED  BY <1>4, <2>8, <2>9
<1>. QED  BY <1>9, <1>10

\* One turn of the loop over the CPUs keeps the invariant.
LEMMA UpdateLimitsInv == TreeInv /\ UpdateLimits => TreeInv'
<1>. SUFFICES ASSUME TreeInv, UpdateLimits PROVE TreeInv'
  OBVIOUS
<1>. DEFINE x == StartOf[MaxLevel] + cpu_id
<1>1. TreeType /\ LevelsInv /\ LimitsInv
  BY DEF TreeInv
<1>2. /\ num_level = -1 /\ cpu_id \in 0 .. plat.cores - 1 /\ x \in PlatCpus
      /\ \A j \in 0 .. MaxLevel - 1 : nodes_idx'[j] = Up(x)[j + 1]
      /\ DOMAIN nodes_idx' = 0 .. MaxLevel - 1
      /\ \A n \in PlatCpus : Node(n)' = Node(n)
      /\ \A n \in Nodes : \A l \in 1 .. MaxLevel : At(n, l) =>
           Node(n)' = IF Up(x)[l] = n THEN Joined(n, x, l - 1) ELSE Node(n)
      /\ DOMAIN tftf_pd_nodes' = Nodes
  BY UpdateNodes
<1>3. /\ Shaped /\ MaxLevel \in Nat \ {0} /\ plat.affs \in Nat /\ plat.cores \in Nat \ {0}
      /\ RootedTo(plat.affs) /\ Nodes = 0 .. plat.affs - 1 /\ node_index = plat.affs
      /\ StartOf[MaxLevel] \in Nat /\ StartOf[MaxLevel] + plat.cores = plat.affs
      /\ PlatCpus = StartOf[MaxLevel] .. plat.affs - 1 /\ plat \in Platforms
      /\ \A n \in PlatCpus : CpuReady(n) /\ n \in Nodes
  BY <1>1, <1>2, TreeMade DEF TreeType
<1>4. /\ plat' = plat /\ tftf_pwr_domain_start_idx' = tftf_pwr_domain_start_idx
      /\ num_level' = num_level /\ parent_idx' = parent_idx
      /\ num_nodes_at_lvl' = num_nodes_at_lvl /\ node_index' = node_index
      /\ cpu_id' = cpu_id + 1 /\ topology_setup_done' = (cpu_id + 1 = plat.cores)
  BY DEF UpdateLimits
<1>5. /\ Nodes' = Nodes /\ MaxLevel' = MaxLevel /\ StartOf' = StartOf /\ MadeBy' = MadeBy
      /\ EntryCount' = EntryCount /\ PlatCpus' = PlatCpus
      /\ \A n, l : At(n, l)' = At(n, l)
      /\ \A n, q : Under(n, q)' = Under(n, q)
      /\ \A c : Up(c)' = Up(c)
      /\ \A n : Present(n)' = Present(n)
  BY <1>4, DescriptionStays
<1>6. \A n \in Nodes : Node(n) \in PowerNode
  BY <1>1 DEF TreeType, Node
<1>7. x \in Nat /\ x \in Nodes
  BY <1>2, <1>3
<1>. HIDE DEF x
<1>8. ASSUME NEW n \in Nodes
      PROVE  /\ Node(n)' \in PowerNode /\ Node(n)'.parent_node = Node(n).parent_node
             /\ Node(n)'.level = Node(n).level
  <2>1. n \in Nat /\ n < StartOf[MaxLevel + 1]
    <3>1. StartOf[MaxLevel + 1] = plat.affs
      BY <1>3, PlatShaped
    <3>. QED  BY <1>3, <3>1
  <2>2. PICK l \in 0 .. MaxLevel : At(n, l)
    BY <1>3, <2>1, LevelOfNode DEF Shaped, At
  <2>3. CASE l = 0
    <3>1. n \in PlatCpus
      BY <1>3, <2>1, <2>2, <2>3, CpuLevel DEF Shaped, At, PlatCpus
    <3>. QED  BY <1>2, <1>6, <3>1
  <2>4. CASE l # 0
    <3>1. l \in 1 .. MaxLevel
      BY <2>4
    <3>2. Node(n)' = Joined(n, x, l - 1) \/ Node(n)' = Node(n)
      BY <1>2, <2>2, <3>1
    <3>3. Node(n) \in PowerNode /\ Node(x) \in PowerNode
      BY <1>6, <1>7
    <3>4. /\ Joined(n, x, l - 1) \in PowerNode
          /\ Joined(n, x, l - 1).parent_node = Node(n).parent_node
          /\ Joined(n, x, l - 1).level = Node(n).level
      BY <1>7, <3>3, JoinedFields
    <3>. QED  BY <3>2, <3>3, <3>4
  <2>. QED  BY <2>3, <2>4
<1>9. TreeType'
  <2>1. tftf_pd_nodes' \in [Nodes -> PowerNode]
    <3>1. \A n \in Nodes : tftf_pd_nodes'[n] \in PowerNode
      BY <1>8 DEF Node
    <3>2. tftf_pd_nodes' = [n \in Nodes |-> tftf_pd_nodes'[n]]
      BY <1>2 DEF UpdateLimits, LimitsAfter
    <3>. QED  BY <3>1, <3>2
  <2>2. cpu_id' \in 0 .. plat.cores /\ topology_setup_done' = (cpu_id' = plat'.cores)
    BY <1>2, <1>3, <1>4
  <2>3. num_level' = -1 /\ num_level' \in -1 .. MaxLevel /\ ~(num_level' >= 0)
    BY <1>2, <1>3, <1>4
  <2>. QED  BY <1>1, <1>4, <1>5, <2>1, <2>2, <2>3 DEF TreeType
<1>10. RootedTo(node_index)'
  <2>1. ASSUME NEW n \in 0 .. node_index' - 1
        PROVE  /\ Node(n)'.parent_node \in Int /\ Under(n, Node(n)'.parent_node)
               /\ \A l \in 0 .. MaxLevel : At(n, l) => Node(n)'.level = l
    <3>1. n \in Nodes /\ n \in 0 .. plat.affs - 1
      BY <1>3, <1>4
    <3>. QED  BY <1>3, <1>8, <3>1 DEF RootedTo
  <2>. QED  BY <1>5, <2>1 DEF RootedTo
<1>11. ASSUME NEW n \in PlatCpus PROVE CpuReady(n)'
  <2>1. CpuReady(n) /\ Node(n)' = Node(n)
    BY <1>2, <1>3
  <2>. QED  BY <1>5, <2>1 DEF CpuReady
<1>12. LevelsInv'
  <2>1. /\ node_index' = StartOf[MaxLevel - num_level']
        /\ parent_idx' \in 0 .. EntryCount /\ MadeBy[parent_idx'] = node_index'
        /\ parent_idx' + num_nodes_at_lvl' = 1 + node_index'
        /\ \A l \in 0 .. MaxLevel : l > num_level' => tftf_pwr_domain_start_idx'[l] = StartOf[MaxLevel - l]
    BY <1>1, <1>4 DEF LevelsInv
  <2>. QED  BY <1>5, <1>10, <1>11, <2>1 DEF LevelsInv
<1>13. LimitsInv'
  <2>1. cpu_id' > 0 /\ cpu_id' # 0 /\ StartOf[MaxLevel] + cpu_id' - 1 = x
    BY <1>2, <1>3, <1>4 DEF x
  <2>2. \A j \in 0 .. MaxLevel - 1 : nodes_idx'[j] = Up(StartOf[MaxLevel] + cpu_id' - 1)[j + 1]
    BY <1>2, <2>1
  <2>3. ASSUME NEW n \in Nodes, NEW l \in 1 .. MaxLevel, At(n, l)
        PROVE  LimitsTo(Node(n), n, l, cpu_id)'
    <3>1. LimitsTo(Node(n)', n, l, cpu_id')
      BY <1>4, <2>3, LimitsGrow
    <3>2. \A c : Mine(n, l, c)' = Mine(n, l, c)
      BY <1>4, MineStays
    <3>. QED  BY <1>5, <3>1, <3>2 DEF LimitsTo, LimitedFrom, Unlimited
  <2>. QED  BY <1>2, <1>5, <2>1, <2>2, <2>3 DEF LimitsInv
<1>. QED  BY <1>9, <1>12, <1>13 DEF TreeInv

\* A query changes nothing of the tree.
LEMMA TreeStays ==
  ASSUME TreeInv, UNCHANGED topology
  PROVE  TreeInv'
<1>1. /\ plat' = plat /\ tftf_pd_nodes' = tftf_pd_nodes
      /\ tftf_pwr_domain_start_idx' = tftf_pwr_domain_start_idx
      /\ topology_setup_done' = topology_setup_done
      /\ num_level' = num_level /\ parent_idx' = parent_idx
      /\ num_nodes_at_lvl' = num_nodes_at_lvl /\ node_index' = node_index
      /\ cpu_id' = cpu_id /\ nodes_idx' = nodes_idx
  BY DEF topology, building
<1>2. /\ Nodes' = Nodes /\ MaxLevel' = MaxLevel /\ StartOf' = StartOf /\ MadeBy' = MadeBy
      /\ EntryCount' = EntryCount /\ PlatCpus' = PlatCpus
      /\ \A n, l : At(n, l)' = At(n, l)
      /\ \A n, q : Under(n, q)' = Under(n, q)
      /\ \A c : Up(c)' = Up(c)
      /\ \A n : Present(n)' = Present(n)
  BY <1>1, DescriptionStays
<1>3. \A n : Node(n)' = Node(n)
  BY <1>1 DEF Node
<1>4. TreeType'
  BY <1>1, <1>2 DEF TreeInv, TreeType
<1>5. LevelsInv'
  <2>1. RootedTo(node_index)'
    BY <1>1, <1>2, <1>3 DEF TreeInv, LevelsInv, RootedTo
  <2>2. num_level' = -1 => \A n \in PlatCpus : CpuReady(n)'
    BY <1>1, <1>2, <1>3 DEF TreeInv, LevelsInv, CpuReady
  <2>. QED  BY <1>1, <1>2, <2>1, <2>2 DEF TreeInv, LevelsInv
<1>6. LimitsInv'
  <2>1. \A n, l, c : Mine(n, l, c)' = Mine(n, l, c)
    BY <1>1, MineStays
  <2>2. ASSUME cpu_id' = 0, NEW n \in Nodes \ PlatCpus PROVE Unlimited(Node(n))'
    BY <1>1, <1>3, <2>2 DEF TreeInv, LimitsInv, Unlimited
  <2>3. ASSUME cpu_id' > 0, NEW n \in Nodes, NEW l \in 1 .. MaxLevel, At(n, l)
        PROVE  LimitsTo(Node(n), n, l, cpu_id)'
    <3>1. LimitsTo(Node(n), n, l, cpu_id)
      BY <1>1, <2>3 DEF TreeInv, LimitsInv
    <3>. QED  BY <1>1, <1>2, <1>3, <2>1, <3>1 DEF LimitsTo, LimitedFrom, Unlimited
  <2>4. /\ DOMAIN nodes_idx' = 0 .. MaxLevel - 1
        /\ \A j \in 0 .. MaxLevel - 1 :
             nodes_idx'[j] = IF cpu_id' > 0 THEN Up(StartOf[MaxLevel] + cpu_id' - 1)[j + 1]
                             ELSE IF j = 0 THEN -1 ELSE 0
    BY <1>1 DEF TreeInv, LimitsInv
  <2>. QED  BY <1>2, <2>2, <2>3, <2>4 DEF LimitsInv
<1>. QED  BY <1>4, <1>5, <1>6 DEF TreeInv

\* Every step keeps the invariant.
LEMMA PowerStep == TreeInv /\ [PowerNext]_powerVars => TreeInv'
<1>. SUFFICES ASSUME TreeInv, [PowerNext]_powerVars PROVE TreeInv'
  OBVIOUS
<1>1. CASE PopulateLevel
  BY <1>1, PopulateLevelInv
<1>2. CASE UpdateLimits
  BY <1>2, UpdateLimitsInv
<1>3. CASE Iterate
  <2>1. UNCHANGED topology
    BY <1>3 DEF Iterate, Ask
  <2>. QED  BY <2>1, TreeStays
<1>4. CASE FindCpu
  <2>1. UNCHANGED topology
    BY <1>4 DEF FindCpu, Ask
  <2>. QED  BY <2>1, TreeStays
<1>5. CASE FindParent
  <2>1. UNCHANGED topology
    BY <1>5 DEF FindParent, Ask
  <2>. QED  BY <2>1, TreeStays
<1>6. CASE UNCHANGED powerVars
  <2>1. UNCHANGED topology
    BY <1>6 DEF powerVars
  <2>. QED  BY <2>1, TreeStays
<1>. QED  BY <1>1, <1>2, <1>3, <1>4, <1>5, <1>6 DEF PowerNext

\* When the setup is done the tree is rooted and every CPU is gone through.
LEMMA SetupDone ==
  ASSUME TreeInv, topology_setup_done
  PROVE  /\ Shaped /\ MaxLevel \in Nat \ {0} /\ plat.affs \in Nat /\ plat.cores \in Nat \ {0}
         /\ node_index = plat.affs /\ RootedTo(plat.affs) /\ Nodes = 0 .. plat.affs - 1
         /\ StartOf[MaxLevel] \in Nat /\ StartOf[MaxLevel] + plat.cores = plat.affs
         /\ PlatCpus = StartOf[MaxLevel] .. plat.affs - 1
         /\ tftf_pwr_domain_start_idx[0] = StartOf[MaxLevel]
         /\ \A n \in PlatCpus : CpuReady(n) /\ n \in Nodes
         /\ plat \in Platforms /\ cpu_id = plat.cores /\ num_level = -1
         /\ \A n \in Nodes : Node(n) \in PowerNode
<1>1. TreeType /\ LevelsInv
  BY DEF TreeInv
<1>2. plat \in Platforms /\ cpu_id = plat.cores /\ cpu_id > 0
  <2>1. plat \in Platforms /\ cpu_id = plat.cores
    BY <1>1 DEF TreeType
  <2>2. plat.cores \in Nat \ {0}
    BY <2>1, PlatShaped
  <2>. QED  BY <2>1, <2>2
<1>3. num_level = -1
  <2>1. num_level \in -1 .. MaxLevel /\ ~(num_level >= 0) /\ MaxLevel \in Nat
    BY <1>1, <1>2, PlatShaped DEF TreeType
  <2>. QED  BY <2>1
<1>4. \A n \in Nodes : Node(n) \in PowerNode
  BY <1>1 DEF TreeType, Node
<1>. QED  BY <1>1, <1>2, <1>3, <1>4, TreeMade

\* After the setup the nodes of level 0 are the CPUs of the description.
LEMMA CpuNodesAre ==
  ASSUME TreeInv, topology_setup_done
  PROVE  CpuNodes = PlatCpus /\ \A n \in PlatCpus : Node(n).level = 0
<1>1. /\ Shaped /\ plat.affs \in Nat /\ RootedTo(plat.affs) /\ Nodes = 0 .. plat.affs - 1
      /\ \A n \in PlatCpus : n \in Nodes
      /\ plat \in Platforms /\ MaxLevel \in Nat
  BY SetupDone
<1>2. StartOf[MaxLevel + 1] = plat.affs
  BY <1>1, PlatShaped
<1>3. ASSUME NEW n \in Nodes PROVE Node(n).level = 0 <=> n \in PlatCpus
  <2>1. n \in Nat /\ n < StartOf[MaxLevel + 1]
    BY <1>1, <1>2
  <2>2. PICK l \in 0 .. MaxLevel : At(n, l)
    BY <1>1, <2>1, LevelOfNode DEF Shaped, At
  <2>3. Node(n).level = l
    BY <1>1, <2>2 DEF RootedTo
  <2>4. n \in PlatCpus <=> At(n, 0)
    BY <1>1, <2>1, CpuLevel DEF Shaped, At, PlatCpus
  <2>5. At(n, 0) <=> l = 0
    <3>1. 0 \in 0 .. MaxLevel /\ n \in Int
      BY <1>1, <2>1
    <3>. QED  BY <1>1, <2>2, <3>1, OneLevel DEF Shaped, At
  <2>. QED  BY <2>3, <2>4, <2>5
<1>. QED  BY <1>1, <1>3 DEF CpuNodes

\* Domain n of level l as the setup leaves it; f is its first CPU.
DomainDone(n, l, f) ==
  /\ At(n, l) /\ Node(n).level = l
  /\ CpusOf(n) = f .. f + Node(n).ncpus - 1 /\ Node(n).ncpus \in Nat \ {0}
  /\ IF n = 0 /\ l >= 2
     THEN Node(n).cpu_start_node = 0 /\ Node(n).is_present = FALSE
     ELSE Node(n).cpu_start_node = f /\ Node(n).is_present = Present(f)

\* After the setup every domain has its limits.
LEMMA DomainsDone ==
  ASSUME TreeInv, topology_setup_done, NEW n \in Nodes
  PROVE  \E l \in 0 .. MaxLevel : \E f \in PlatCpus : DomainDone(n, l, f)
<1>1. /\ Shaped /\ plat.affs \in Nat /\ RootedTo(plat.affs) /\ Nodes = 0 .. plat.affs - 1
      /\ \A c \in PlatCpus : CpuReady(c) /\ c \in Nodes
      /\ plat \in Platforms /\ MaxLevel \in Nat /\ cpu_id = plat.cores /\ plat.cores \in Nat \ {0}
      /\ StartOf[MaxLevel] \in Nat /\ StartOf[MaxLevel] + plat.cores = plat.affs
      /\ PlatCpus = StartOf[MaxLevel] .. plat.affs - 1
      /\ Node(n) \in PowerNode
  BY SetupDone
<1>2. n \in Nat /\ n < StartOf[MaxLevel + 1]
  <2>1. StartOf[MaxLevel + 1] = plat.affs
    BY <1>1, PlatShaped
  <2>. QED  BY <1>1, <2>1
<1>3. PICK l \in 0 .. MaxLevel : At(n, l)
  BY <1>1, <1>2, LevelOfNode DEF Shaped, At
<1>4. Node(n).level = l
  BY <1>1, <1>3 DEF RootedTo
<1>5. CpusOf(n) = {c \in PlatCpus : Up(c)[l] = n}
  <2>1. \A c \in PlatCpus : Ancestor(c, l) = Up(c)[l]
    BY <1>1, UpIsLine DEF Ancestor
  <2>. QED  BY <1>4, <2>1, CpuNodesAre DEF CpusOf
<1>6. CASE l = 0
  <2>1. n \in PlatCpus
    BY <1>1, <1>2, <1>3, <1>6, CpuLevel DEF Shaped, At, PlatCpus
  <2>2. CpusOf(n) = {n}
    <3>1. \A c \in PlatCpus : Up(c)[0] = c
      BY <1>1, UpFacts
    <3>. QED  BY <1>5, <1>6, <2>1, <3>1
  <2>3. Node(n).ncpus = 1 /\ Node(n).cpu_start_node = n /\ Node(n).is_present = Present(n)
    BY <1>1, <2>1 DEF CpuReady
  <2>4. CpusOf(n) = n .. n + Node(n).ncpus - 1
    BY <1>2, <2>2, <2>3
  <2>5. ~(n = 0 /\ l >= 2) /\ Node(n).ncpus \in Nat \ {0}
    BY <1>6, <2>3
  <2>. QED  BY <1>3, <1>4, <2>1, <2>3, <2>4, <2>5 DEF DomainDone
<1>7. CASE l # 0
  <2>1. l \in 1 .. MaxLevel
    BY <1>7
  <2>2. LimitsTo(Node(n), n, l, plat.cores)
    BY <1>1, <1>3, <2>1 DEF TreeInv, LimitsInv
  <2>3. CpusOf(n) = Mine(n, l, plat.cores)
    <3>1. PlatCpus = StartOf[MaxLevel] .. StartOf[MaxLevel] + plat.cores - 1
      BY <1>1
    <3>. QED  BY <1>5, <3>1 DEF Mine
  <2>4. CpusOf(n) # {}
    <3>. DEFINE up == [c \in PlatCpus |-> Up(c)]
    <3>1. \A c \in PlatCpus : IsLine(up[c], c)
      BY <1>1, UpIsLine
    <3>2. \A c \in Cpus(MaxLevel, StartOf) : Line(up[c], c, MaxLevel, EntryCount, MadeBy)
      BY <3>1 DEF IsLine, PlatCpus
    <3>3. \E c \in Cpus(MaxLevel, StartOf) : up[c][l] = n
      <4>. HIDE DEF up
      <4>. QED  BY <1>1, <1>2, <1>3, <3>2, LinesReachAll DEF Shaped, At
    <3>. QED  BY <1>5, <3>3 DEF PlatCpus
  <2>5. PICK f \in PlatCpus : LimitedFrom(Node(n), n, l, plat.cores, f)
    BY <2>2, <2>3, <2>4 DEF LimitsTo
  <2>6. Node(n).ncpus \in Nat \ {0}
    <3>1. Node(n).ncpus \in Nat
      BY <1>1 DEF PowerNode
    <3>2. Node(n).ncpus > 0
      BY <2>5 DEF LimitedFrom
    <3>. QED  BY <3>1, <3>2
  <2>7. DomainDone(n, l, f)
    BY <1>3, <1>4, <2>3, <2>5, <2>6 DEF DomainDone, LimitedFrom
  <2>. QED  BY <2>7
<1>. QED  BY <1>6, <1>7

\* After the setup the level of a parent is one up.
LEMMA ParentLevels ==
  ASSUME TreeInv, topology_setup_done, NEW n \in Nodes
  PROVE  IF Node(n).parent_node = -1 THEN Node(n).level = plat.max_afflvl
         ELSE Node(Node(n).parent_node).level = Node(n).level + 1
<1>1. /\ Shaped /\ plat.affs \in Nat /\ RootedTo(plat.affs) /\ Nodes = 0 .. plat.affs - 1
      /\ plat \in Platforms /\ MaxLevel \in Nat
  BY SetupDone
<1>2. n \in Nat /\ n < StartOf[MaxLevel + 1] /\ StartOf[MaxLevel + 1] = plat.affs
  <2>1. StartOf[MaxLevel + 1] = plat.affs
    BY <1>1, PlatShaped
  <2>. QED  BY <1>1, <2>1
<1>3. PICK l \in 0 .. MaxLevel : At(n, l)
  BY <1>1, <1>2, LevelOfNode DEF Shaped, At
<1>. DEFINE q == Node(n).parent_node
<1>4. Node(n).level = l /\ q \in Int /\ Under(n, q)
  BY <1>1, <1>3 DEF RootedTo
<1>. HIDE DEF q
<1>5. IF l = MaxLevel THEN q = -1 ELSE q \in Nat /\ At(q, l + 1)
  BY <1>1, <1>2, <1>3, <1>4, ParentOneUp DEF Shaped, At, Under
<1>6. CASE l = MaxLevel
  BY <1>4, <1>5, <1>6 DEF MaxLevel, q
<1>7. CASE l # MaxLevel
  <2>1. q \in Nat /\ At(q, l + 1) /\ l + 1 \in 0 .. MaxLevel
    BY <1>1, <1>5, <1>7
  <2>2. q < plat.affs
    <3>1. MaxLevel - (l + 1) + 1 \in 0 .. MaxLevel + 1 /\ MaxLevel + 1 \in 0 .. MaxLevel + 1
          /\ MaxLevel - (l + 1) + 1 <= MaxLevel + 1
      BY <1>1, <2>1
    <3>2. /\ StartOf[MaxLevel - (l + 1) + 1] <= StartOf[MaxLevel + 1]
          /\ StartOf[MaxLevel - (l + 1) + 1] \in Nat
      BY <1>1, <3>1, StartsInOrder DEF Shaped
    <3>. QED  BY <1>1, <1>2, <2>1, <3>2 DEF At, OnLevel
  <2>3. Node(q).level = l + 1
    BY <1>1, <2>1, <2>2 DEF RootedTo
  <2>4. q # -1
    BY <2>1
  <2>. QED  BY <1>4, <2>3, <2>4 DEF q
<1>. QED  BY <1>6, <1>7

\* The CPU of an interval is there exactly if its mpidr says so.
LEMMA PresentCpu ==
  ASSUME TreeInv, topology_setup_done, NEW c \in PlatCpus
  PROVE  Node(c).mpidr # INVALID_MPID <=> Present(c)
<1>1. CpuReady(c) /\ c \in Int /\ StartOf[MaxLevel] \in Int
  BY SetupDone
<1>2. Mpid(c - StartOf[MaxLevel]) # INVALID_MPID
  <2>1. c - StartOf[MaxLevel] >= 0
    BY SetupDone
  <2>. QED  BY <1>1, <2>1 DEF Mpid, INVALID_MPID
<1>. QED  BY <1>1, <1>2 DEF CpuReady

\* Node 0 is of the top level.
LEMMA TopNode ==
  ASSUME TreeInv, topology_setup_done, NEW l \in 0 .. MaxLevel, At(0, l)
  PROVE  l = MaxLevel
<1>1. Shaped /\ MaxLevel \in Nat \ {0} /\ plat \in Platforms
  BY SetupDone
<1>2. 0 \in 0 .. MaxLevel + 1 /\ 1 \in 0 .. MaxLevel + 1 /\ 0 \in 0 .. MaxLevel /\ MaxLevel \in 0 .. MaxLevel
  BY <1>1
<1>3. StartOf[0] = 0 /\ StartOf[1] \in Nat /\ StartOf[0] < StartOf[0 + 1]
  BY <1>1, <1>2, PlatShaped, StartsInOrder DEF Shaped
<1>4. MaxLevel - MaxLevel = 0 /\ MaxLevel - MaxLevel + 1 = 1
  BY <1>1
<1>5. At(0, MaxLevel)
  BY <1>3, <1>4 DEF At, OnLevel
<1>. QED  BY <1>1, <1>2, <1>5, OneLevel DEF Shaped, At

\* What a domain is like after the setup; f is its first CPU.
DomainLeft(n, f) ==
  /\ FirstCpuOf(n) = f /\ f \in CpusOf(n) /\ (f \in PresentOf(n) <=> Present(f))
  /\ CpusOf(n) = f .. f + Node(n).ncpus - 1 /\ Node(n).ncpus \in Nat \ {0} /\ f \in Nat
  /\ IF Limited(n) THEN Node(n).cpu_start_node = f /\ Node(n).is_present = Present(f)
     ELSE Node(n).cpu_start_node = 0 /\ Node(n).is_present = FALSE /\ f > 0

\* After the setup the domain without limits is the top node above two levels or more.
LEMMA DomainsLeft ==
  ASSUME TreeInv, topology_setup_done, NEW n \in Nodes
  PROVE  \E f \in PlatCpus : DomainLeft(n, f)
<1>1. /\ Shaped /\ MaxLevel \in Nat \ {0} /\ StartOf[MaxLevel] \in Nat
      /\ PlatCpus = StartOf[MaxLevel] .. plat.affs - 1 /\ plat.affs \in Nat
  BY SetupDone
<1>2. PICK l \in 0 .. MaxLevel : \E f \in PlatCpus : DomainDone(n, l, f)
  BY DomainsDone
<1>3. PICK f \in PlatCpus : DomainDone(n, l, f)
  BY <1>2
<1>4. CpusOf(n) = f .. f + Node(n).ncpus - 1 /\ Node(n).ncpus \in Nat \ {0} /\ f \in Nat
  BY <1>1, <1>3 DEF DomainDone
<1>5. f \in CpusOf(n) /\ FirstCpuOf(n) = f
  <2>. DEFINE k == Node(n).ncpus
  <2>1. CpusOf(n) = f .. f + k - 1 /\ k \in Nat \ {0} /\ f \in Nat
    BY <1>4
  <2>. HIDE DEF k
  <2>2. f \in f .. f + k - 1 /\ \A c \in f .. f + k - 1 : f <= c
    BY <2>1
  <2>3. \A g \in f .. f + k - 1 : (\A c \in f .. f + k - 1 : g <= c) => g = f
    BY <2>1, <2>2
  <2>4. (CHOOSE g \in f .. f + k - 1 : \A c \in f .. f + k - 1 : g <= c) = f
    <3>. DEFINE S == f .. f + k - 1
    <3>1. f \in S /\ (\A c \in S : f <= c) /\ \A g \in S : (\A c \in S : g <= c) => g = f
      BY <2>2, <2>3
    <3>. HIDE DEF S
    <3>2. (CHOOSE g \in S : \A c \in S : g <= c) = f
      BY <3>1
    <3>. QED  BY <3>2 DEF S
  <2>. QED  BY <2>1, <2>2, <2>4 DEF FirstCpuOf
<1>6. f \in PresentOf(n) <=> Present(f)
  BY <1>5, PresentCpu DEF PresentOf
<1>7. Limited(n) <=> ~(n = 0 /\ l >= 2)
  <2>1. CASE n = 0
    <3>1. l = MaxLevel
      BY <1>3, <2>1, TopNode DEF DomainDone
    <3>. QED  BY <1>1, <2>1, <3>1 DEF Limited, MaxLevel
  <2>2. CASE n # 0
    BY <2>2 DEF Limited
  <2>. QED  BY <2>1, <2>2
<1>8. ~ Limited(n) => f > 0
  <2>. SUFFICES ASSUME ~ Limited(n) PROVE f # 0
    BY <1>4
  <2>1. n = 0 /\ l \in 1 .. MaxLevel /\ At(0, l)
    BY <1>1, <1>3, <1>7 DEF DomainDone
  <2>. QED  BY <1>1, <2>1, DomainLevel
<1>9. IF Limited(n) THEN Node(n).cpu_start_node = f /\ Node(n).is_present = Present(f)
      ELSE Node(n).cpu_start_node = 0 /\ Node(n).is_present = FALSE
  BY <1>3, <1>7 DEF DomainDone
<1>. QED  BY <1>4, <1>5, <1>6, <1>8, <1>9 DEF DomainLeft

\* Exactly the domains with limits have them right, and a domain is marked present exactly
\* if it has limits and its first CPU is there.
Scope(n) ==
  /\ LimitsEnclose(n) <=> Limited(n)
  /\ Node(n).is_present <=> Limited(n) /\ FirstCpuOf(n) \in PresentOf(n)

\* That is what the setup leaves.
LEMMA ScopeOf ==
  ASSUME TreeInv, topology_setup_done, NEW n \in Nodes
  PROVE  Scope(n)
<1>1. PICK f \in PlatCpus : DomainLeft(n, f)
  BY DomainsLeft
<1>2. Limited(n) => LimitsEnclose(n)
  BY <1>1 DEF DomainLeft, LimitsEnclose
<1>3. ASSUME ~ Limited(n) PROVE ~ LimitsEnclose(n)
  <2>. DEFINE k == Node(n).ncpus
  <2>1. /\ CpusOf(n) = f .. f + k - 1 /\ k \in Nat \ {0} /\ f \in Nat /\ f > 0
        /\ Node(n).cpu_start_node = 0
    BY <1>1, <1>3 DEF DomainLeft
  <2>. HIDE DEF k
  <2>2. 0 \in 0 .. 0 + k - 1 /\ 0 \notin f .. f + k - 1
    BY <2>1
  <2>. QED  BY <2>1, <2>2 DEF LimitsEnclose, k
<1>4. Node(n).is_present <=> Limited(n) /\ FirstCpuOf(n) \in PresentOf(n)
  BY <1>1 DEF DomainLeft
<1>. QED  BY <1>2, <1>3, <1>4 DEF Scope

\* What of it agrees with the CPUs that are there.
LEMMA MarkedPresent ==
  ASSUME TreeInv, topology_setup_done, NEW n \in Nodes
  PROVE  /\ Limited(n) => LimitsEnclose(n)
         /\ Node(n).is_present => PresentOf(n) # {}
         /\ Described(n) => (Node(n).is_present <=> PresentOf(n) # {})
<1>1. Scope(n)
  BY ScopeOf
<1>2. Limited(n) => LimitsEnclose(n)
  BY <1>1 DEF Scope
<1>3. Node(n).is_present <=> Limited(n) /\ FirstCpuOf(n) \in PresentOf(n)
  BY <1>1 DEF Scope
<1>4. FirstCpuOf(n) \in PresentOf(n) => PresentOf(n) # {}
  OBVIOUS
<1>5. Described(n) <=> Limited(n) /\ (FirstCpuOf(n) \in PresentOf(n) \/ PresentOf(n) = {})
  BY DEF Described
<1>. QED  BY <1>2, <1>3, <1>4, <1>5

\* The invariant says all that TreeConsistent does.
LEMMA TreeInvConsistent == TreeInv => TreeConsistent
<1>. SUFFICES ASSUME TreeInv, topology_setup_done
              PROVE  /\ node_index = plat.affs /\ Cardinality(CpuNodes) = plat.cores
                     /\ \A n \in Nodes :
                          /\ IF Node(n).parent_node = -1 THEN Node(n).level = plat.max_afflvl
                             ELSE Node(Node(n).parent_node).level = Node(n).level + 1
                          /\ Node(n).ncpus = Cardinality(CpusOf(n)) /\ Node(n).ncpus > 0
                          /\ Limited(n) => LimitsEnclose(n)
                          /\ Node(n).is_present => PresentOf(n) # {}
                          /\ Described(n) => (Node(n).is_present <=> PresentOf(n) # {})
  BY DEF TreeConsistent
<1>1. /\ node_index = plat.affs /\ plat.affs \in Nat /\ plat.cores \in Nat \ {0}
      /\ StartOf[MaxLevel] \in Nat /\ StartOf[MaxLevel] + plat.cores = plat.affs
      /\ PlatCpus = StartOf[MaxLevel] .. plat.affs - 1
  BY SetupDone
<1>2. Cardinality(CpuNodes) = plat.cores
  <2>1. CpuNodes = StartOf[MaxLevel] .. plat.affs - 1
    BY <1>1, CpuNodesAre
  <2>2. Cardinality(StartOf[MaxLevel] .. plat.affs - 1) = (plat.affs - 1) - StartOf[MaxLevel] + 1
    <3>1. StartOf[MaxLevel] \in Int /\ plat.affs - 1 \in Int /\ ~(StartOf[MaxLevel] > plat.affs - 1)
      BY <1>1
    <3>. QED  BY <3>1, FS_Interval
  <2>. QED  BY <1>1, <2>1, <2>2
<1>3. ASSUME NEW n \in Nodes
      PROVE  Node(n).ncpus = Cardinality(CpusOf(n)) /\ Node(n).ncpus > 0
  <2>. DEFINE k == Node(n).ncpus
  <2>1. PICK f \in PlatCpus : CpusOf(n) = f .. f + k - 1 /\ k \in Nat \ {0} /\ f \in Nat
    BY DomainsLeft DEF DomainLeft
  <2>. HIDE DEF k
  <2>2. Cardinality(f .. f + k - 1) = (f + k - 1) - f + 1
    <3>1. f \in Int /\ f + k - 1 \in Int /\ ~(f > f + k - 1)
      BY <2>1
    <3>. QED  BY <3>1, FS_Interval
  <2>3. (f + k - 1) - f + 1 = k /\ k > 0
    BY <2>1
  <2>. QED  BY <2>1, <2>2, <2>3 DEF k
<1>4. ASSUME NEW n \in Nodes
      PROVE  /\ Limited(n) => LimitsEnclose(n)
             /\ Node(n).is_present => PresentOf(n) # {}
             /\ Described(n) => (Node(n).is_present <=> PresentOf(n) # {})
  BY MarkedPresent
<1>. QED  BY <1>1, <1>2, <1>3, <1>4, ParentLevels

\* The invariant of the tree holds.
LEMMA TreeHolds == PowerSpec => []TreeInv
BY TreeStart, PowerStep, PTL DEF PowerSpec

\* Once the setup is done, on every platform that a description can shape: the array is
\* the tree of the description, every domain counts its CPUs, and none is present without
\* a present CPU; the limits enclose the CPUs of a domain, and its presence follows them,
\* for the domains of which TreeConsistent says so (populate_power_domain_tree and
\* update_pwrlvl_limits).
THEOREM TreeIsTheDescription == PowerSpec => []TreeConsistent
BY TreeHolds, TreeInvConsistent, PTL

\* For which domains that is, on every platform: the limits are wrong for node 0 of a tree of
\* three levels or more and right for all other domains; a domain is marked present exactly
\* if it has its limits and its first CPU is there (update_pwrlvl_limits).
THEOREM WhatTheSetupLeaves ==
  PowerSpec => [](topology_setup_done =>
                    \A n \in Nodes :
                      /\ LimitsEnclose(n) <=> Limited(n)
                      /\ Node(n).is_present <=> Limited(n) /\ FirstCpuOf(n) \in PresentOf(n))
<1>1. TreeInv => (topology_setup_done =>
                    \A n \in Nodes :
                      /\ LimitsEnclose(n) <=> Limited(n)
                      /\ Node(n).is_present <=> Limited(n) /\ FirstCpuOf(n) \in PresentOf(n))
  BY ScopeOf DEF Scope
<1>. QED  BY <1>1, TreeHolds, PTL

-----------------------------------------------------------------------------
(* The power domain tree: its iterations.                                  *)

\* x is the least of T, or the value that ends a loop.
IsNext(x, T) == IF T = {} THEN x = PWR_DOMAIN_INIT ELSE x \in T /\ \A y \in T : x <= y

\* The macro's step leads from each node of S to the next.
Leads(macro, of, S) ==
  /\ IsNext(NextOf(macro, of, PWR_DOMAIN_INIT), S)
  /\ \A i \in S : IsNext(NextOf(macro, of, i), {n \in S : n > i})

\* seen goes through S once and in order.
Enumeration(seen, S) ==
  /\ \E n \in Nat : seen \in [1 .. n -> S] /\ DOMAIN seen = 1 .. n /\ Len(seen) = n
  /\ {seen[k] : k \in DOMAIN seen} = S
  /\ \A k \in DOMAIN seen : k > 1 => seen[k - 1] < seen[k]
  /\ Cardinality(S) = Len(seen)

\* The first n turns of a loop.
Visits(t, macro, of, n) ==
  t = [k \in 0 .. n |-> NextOf(macro, of, IF k = 0 THEN PWR_DOMAIN_INIT ELSE t[k - 1])]

\* TurnsOf gives the loop variable from turn to turn.
LEMMA TurnsAre ==
  ASSUME plat.affs \in Nat, NEW macro, NEW of
  PROVE  Visits(TurnsOf(macro, of), macro, of, plat.affs)
<1>. DEFINE M == plat.affs
            S == {n \in 0 .. M : \E t : Visits(t, macro, of, n)}
<1>1. 0 \in S
  <2>. DEFINE t == [k \in 0 .. 0 |-> NextOf(macro, of, PWR_DOMAIN_INIT)]
  <2>1. Visits(t, macro, of, 0)
    BY DEF Visits
  <2>. HIDE DEF t
  <2>. QED  BY <2>1
<1>2. ASSUME NEW n \in 1 .. M, n - 1 \in S PROVE n \in S
  <2>1. PICK t : Visits(t, macro, of, n - 1)
    BY <1>2
  <2>. DEFINE u == [k \in 0 .. n |-> IF k = n THEN NextOf(macro, of, t[n - 1]) ELSE t[k]]
  <2>2. ASSUME NEW k \in 0 .. n
        PROVE  u[k] = NextOf(macro, of, IF k = 0 THEN PWR_DOMAIN_INIT ELSE u[k - 1])
    <3>1. CASE k = 0
      BY <2>1, <3>1 DEF Visits
    <3>2. CASE k # 0 /\ k # n
      <4>1. k \in 0 .. n - 1 /\ u[k] = t[k] /\ u[k - 1] = t[k - 1]
        BY <3>2
      <4>. QED  BY <2>1, <3>2, <4>1 DEF Visits
    <3>3. CASE k # 0 /\ k = n
      BY <3>3
    <3>. QED  BY <3>1, <3>2, <3>3
  <2>3. u = [k \in 0 .. n |-> u[k]]
    OBVIOUS
  <2>4. Visits(u, macro, of, n)
    <3>. HIDE DEF u
    <3>. QED  BY <2>2, <2>3 DEF Visits
  <2>. HIDE DEF u
  <2>. QED  BY <2>4
<1>3. \A n \in 0 .. M : n \in S
  <2>. HIDE DEF S
  <2>. QED  BY <1>1, <1>2, Upward
<1>4. PICK t : Visits(t, macro, of, M)
  BY <1>3
<1>5. TurnsOf(macro, of) = CHOOSE u : Visits(u, macro, of, M)
  BY DEF TurnsOf, Visits
<1>. QED  BY <1>4, <1>5

\* After the first k turns, which all met a node of S.
Met(t, k, S) ==
  IF t[k] \in S
  THEN /\ t[k] >= k /\ \A j \in 0 .. k - 1 : t[j] < t[k]
       /\ \A s \in S : s < t[k] => \E j \in 0 .. k - 1 : t[j] = s
  ELSE /\ t[k] = PWR_DOMAIN_INIT
       /\ \A s \in S : \E j \in 0 .. k - 1 : t[j] = s

\* A loop has met everything of S below the node it is at.
LEMMA TurnsMeet ==
  ASSUME plat.affs \in Nat, NEW macro, NEW of, NEW S \in SUBSET Nat, Leads(macro, of, S),
         NEW k \in 0 .. plat.affs, \A j \in 0 .. k - 1 : TurnsOf(macro, of)[j] \in S
  PROVE  Met(TurnsOf(macro, of), k, S)
<1>. DEFINE t == TurnsOf(macro, of)
            G == {i \in 0 .. plat.affs : (\A j \in 0 .. i - 1 : t[j] \in S) => Met(t, i, S)}
<1>1. /\ \A i \in 0 .. plat.affs : i # 0 => t[i] = NextOf(macro, of, t[i - 1])
      /\ t[0] = NextOf(macro, of, PWR_DOMAIN_INIT)
  <2>1. Visits(t, macro, of, plat.affs)
    BY TurnsAre
  <2>. HIDE DEF t
  <2>2. 0 \in 0 .. plat.affs
    OBVIOUS
  <2>. QED  BY <2>1, <2>2 DEF Visits
<1>. HIDE DEF t
<1>2. 0 \in G
  <2>1. IsNext(t[0], S)
    BY <1>1 DEF Leads
  <2>2. 0 .. 0 - 1 = {}
    OBVIOUS
  <2>3. CASE S = {}
    <3>1. t[0] = PWR_DOMAIN_INIT
      BY <2>1, <2>3 DEF IsNext
    <3>. QED  BY <2>3, <3>1 DEF Met
  <2>4. CASE S # {}
    <3>1. t[0] \in S /\ \A y \in S : t[0] <= y
      BY <2>1, <2>4 DEF IsNext
    <3>2. t[0] \in Nat /\ \A s \in S : s \in Nat
      BY <3>1
    <3>3. t[0] >= 0 /\ \A s \in S : ~(s < t[0])
      BY <3>1, <3>2
    <3>. QED  BY <2>2, <3>1, <3>3 DEF Met
  <2>5. Met(t, 0, S)
    BY <2>3, <2>4
  <2>. QED  BY <2>5
<1>3. ASSUME NEW i \in 1 .. plat.affs, i - 1 \in G PROVE i \in G
  <2>. SUFFICES ASSUME \A j \in 0 .. i - 1 : t[j] \in S PROVE Met(t, i, S)
    OBVIOUS
  <2>. DEFINE p == t[i - 1]
  <2>1. p \in S /\ p \in Nat /\ i \in Nat
    <3>1. i - 1 \in 0 .. i - 1 /\ i \in Nat
      OBVIOUS
    <3>2. p \in S
      BY <3>1
    <3>. QED  BY <3>1, <3>2
  <2>2. Met(t, i - 1, S)
    BY <1>3
  <2>3. /\ p >= i - 1 /\ \A j \in 0 .. i - 2 : t[j] < p
        /\ \A s \in S : s < p => \E j \in 0 .. i - 2 : t[j] = s
    <3>1. 0 .. (i - 1) - 1 = 0 .. i - 2
      OBVIOUS
    <3>. QED  BY <2>1, <2>2, <3>1 DEF Met
  <2>4. IsNext(t[i], {n \in S : n > p})
    BY <1>1, <2>1 DEF Leads
  <2>. HIDE DEF p
  <2>5. ASSUME NEW s \in S, s <= p PROVE \E j \in 0 .. i - 1 : t[j] = s
    <3>1. CASE s = p
      <4>1. i - 1 \in 0 .. i - 1
        OBVIOUS
      <4>. QED  BY <3>1, <4>1 DEF p
    <3>2. CASE s # p
      <4>1. s < p
        BY <2>1, <2>5, <3>2
      <4>2. PICK j \in 0 .. i - 2 : t[j] = s
        BY <2>3, <4>1
      <4>. QED  BY <4>2
    <3>. QED  BY <3>1, <3>2
  <2>6. CASE {n \in S : n > p} = {}
    <3>1. t[i] = PWR_DOMAIN_INIT /\ t[i] \notin S
      BY <2>4, <2>6 DEF IsNext, PWR_DOMAIN_INIT
    <3>2. \A s \in S : s <= p
      BY <2>1, <2>6
    <3>. QED  BY <2>5, <3>1, <3>2 DEF Met
  <2>7. CASE {n \in S : n > p} # {}
    <3>1. t[i] \in S /\ t[i] > p /\ \A y \in S : y > p => t[i] <= y
      BY <2>4, <2>7 DEF IsNext
    <3>2. t[i] >= i /\ t[i] \in Nat
      <4>1. t[i] \in Nat /\ p >= i - 1 /\ t[i] > p
        BY <2>3, <3>1
      <4>. QED  BY <2>1, <4>1
    <3>3. ASSUME NEW j \in 0 .. i - 1 PROVE t[j] < t[i]
      <4>1. CASE j = i - 1
        BY <3>1, <4>1 DEF p
      <4>2. CASE j # i - 1
        <5>1. j \in 0 .. i - 2 /\ t[j] \in S
          BY <2>1, <4>2
        <5>2. t[j] < p /\ t[j] \in Nat
          BY <2>3, <5>1
        <5>3. t[i] > p
          BY <3>1
        <5>. QED  BY <2>1, <3>2, <5>2, <5>3
      <4>. QED  BY <4>1, <4>2
    <3>4. ASSUME NEW s \in S, s < t[i] PROVE s <= p
      BY <2>1, <3>1, <3>2, <3>4
    <3>. QED  BY <2>5, <3>1, <3>2, <3>3, <3>4 DEF Met
  <2>. QED  BY <2>6, <2>7
<1>4. \A i \in 0 .. plat.affs : i \in G
  <2>. HIDE DEF G
  <2>. QED  BY <1>2, <1>3, Upward
<1>. QED  BY <1>4 DEF t

\* A loop whose step leads through S goes through S.
LEMMA LoopEnumerates ==
  ASSUME plat.affs \in Nat, NEW macro, NEW of, NEW S \in SUBSET (0 .. plat.affs - 1),
         Leads(macro, of, S)
  PROVE  Enumeration(ForEach(macro, of), S)
<1>. DEFINE t == TurnsOf(macro, of)
            bad == {k \in 0 .. plat.affs : t[k] \notin S}
<1>1. \A k \in 0 .. plat.affs : (\A j \in 0 .. k - 1 : t[j] \in S) => Met(t, k, S)
  BY TurnsMeet
<1>. HIDE DEF t
<1>2. bad # {}
  <2>. SUFFICES ASSUME \A k \in 0 .. plat.affs : t[k] \in S PROVE FALSE
    OBVIOUS
  <2>1. plat.affs \in 0 .. plat.affs
    OBVIOUS
  <2>2. Met(t, plat.affs, S) /\ t[plat.affs] \in S
    BY <1>1, <2>1
  <2>3. t[plat.affs] >= plat.affs /\ t[plat.affs] \in 0 .. plat.affs - 1
    BY <2>2 DEF Met
  <2>. QED  BY <2>3
<1>3. PICK n \in bad : \A y \in bad : n <= y
  <2>1. bad \in SUBSET Nat
    OBVIOUS
  <2>. HIDE DEF bad
  <2>. QED  BY <1>2, <2>1, Least
<1>4. n \in 0 .. plat.affs /\ t[n] \notin S /\ n \in Nat
  OBVIOUS
<1>5. \A j \in 0 .. n - 1 : t[j] \in S
  BY <1>3
<1>. HIDE DEF bad
<1>6. t[n] = PWR_DOMAIN_INIT /\ \A s \in S : \E j \in 0 .. n - 1 : t[j] = s
  BY <1>1, <1>4, <1>5 DEF Met
<1>7. \A k \in 0 .. n - 1 : \A j \in 0 .. k - 1 : t[j] < t[k]
  <2>. SUFFICES ASSUME NEW k \in 0 .. n - 1 PROVE \A j \in 0 .. k - 1 : t[j] < t[k]
    OBVIOUS
  <2>1. k \in 0 .. plat.affs /\ t[k] \in S
    BY <1>4, <1>5
  <2>2. \A j \in 0 .. k - 1 : t[j] \in S
    BY <1>4, <1>5
  <2>. QED  BY <1>1, <2>1, <2>2 DEF Met
<1>8. (CHOOSE m \in 0 .. plat.affs : t[m] \in Ends /\ \A k \in 0 .. m - 1 : t[k] \notin Ends) = n
  <2>1. t[n] \in Ends
    BY <1>6 DEF Ends
  <2>2. \A k \in 0 .. n - 1 : t[k] \notin Ends
    BY <1>5 DEF Ends, PWR_DOMAIN_INIT, ASSERTED
  <2>3. ASSUME NEW m \in 0 .. plat.affs, t[m] \in Ends, \A k \in 0 .. m - 1 : t[k] \notin Ends
        PROVE  m = n
    <3>1. ~(m < n)
      BY <1>4, <2>2, <2>3
    <3>2. ~(n < m)
      BY <1>4, <2>1, <2>3
    <3>. QED  BY <1>4, <3>1, <3>2
  <2>. QED  BY <1>4, <2>1, <2>2, <2>3
<1>. DEFINE seen == [k \in 1 .. n |-> t[k - 1]]
<1>9. seen \in [1 .. n -> S] /\ seen \in Seq(S) /\ Len(seen) = n /\ DOMAIN seen = 1 .. n
  <2>1. \A k \in 1 .. n : t[k - 1] \in S
    BY <1>4, <1>5
  <2>. QED  BY <1>4, <2>1
<1>10. ForEach(macro, of) = seen
  <2>1. t[n] # ASSERTED
    BY <1>6 DEF PWR_DOMAIN_INIT, ASSERTED
  <2>2. ForEach(macro, of) = seen \o <<>>
    BY <1>8, <2>1 DEF ForEach, t
  <2>3. seen \o <<>> = seen
    BY <1>9, ConcatEmptySeq
  <2>. QED  BY <2>2, <2>3
<1>11. \A k \in 1 .. n : \A j \in 1 .. k - 1 : seen[j] < seen[k]
  <2>. SUFFICES ASSUME NEW k \in 1 .. n, NEW j \in 1 .. k - 1 PROVE seen[j] < seen[k]
    OBVIOUS
  <2>1. k - 1 \in 0 .. n - 1 /\ j - 1 \in 0 .. (k - 1) - 1 /\ j \in 1 .. n
    BY <1>4
  <2>2. t[j - 1] < t[k - 1]
    BY <1>7, <2>1
  <2>. QED  BY <2>1, <2>2
<1>12. \A s \in S : \E k \in 1 .. n : seen[k] = s
  <2>. SUFFICES ASSUME NEW s \in S PROVE \E k \in 1 .. n : seen[k] = s
    OBVIOUS
  <2>1. PICK j \in 0 .. n - 1 : t[j] = s
    BY <1>6
  <2>2. j + 1 \in 1 .. n /\ (j + 1) - 1 = j
    BY <1>4
  <2>. QED  BY <2>1, <2>2
<1>. HIDE DEF seen
<1>13. Cardinality(S) = n
  <2>1. seen \in Bijection(1 .. n, S)
    <3>1. ASSUME NEW a \in 1 .. n, NEW b \in 1 .. n, seen[a] = seen[b] PROVE a = b
      <4>0. seen[a] \in Nat /\ seen[b] \in Nat
        <5>1. seen[a] \in S /\ seen[b] \in S
          BY <1>9
        <5>2. S \subseteq Nat
          OBVIOUS
        <5>. QED  BY <5>1, <5>2
      <4>1. ~(a < b)
        <5>1. a < b => a \in 1 .. b - 1
          BY <1>4
        <5>. QED  BY <1>11, <3>1, <4>0, <5>1
      <4>2. ~(b < a)
        <5>1. b < a => b \in 1 .. a - 1
          BY <1>4
        <5>. QED  BY <1>11, <3>1, <4>0, <5>1
      <4>. QED  BY <4>1, <4>2
    <3>. QED  BY <1>9, <1>12, <3>1, Fun_IsBij
  <2>2. ExistsBijection(1 .. n, S)
    BY <2>1, Fun_ExistsBij
  <2>. QED  BY <1>4, <2>2, FS_CountingElements
<1>14. {seen[k] : k \in DOMAIN seen} = S
  BY <1>9, <1>12
<1>15. \A k \in DOMAIN seen : k > 1 => seen[k - 1] < seen[k]
  <2>. SUFFICES ASSUME NEW k \in 1 .. n, k > 1 PROVE seen[k - 1] < seen[k]
    BY <1>9
  <2>1. k - 1 \in 1 .. k - 1
    BY <1>4
  <2>. QED  BY <1>11, <2>1
<1>. QED  BY <1>4, <1>9, <1>10, <1>13, <1>14, <1>15 DEF Enumeration

\* NextPresent finds the first present node behind `node'.
LEMMA NextPresentIs ==
  ASSUME NEW node \in Int, NEW last \in Int, node >= -1
  PROVE  IsNext(NextPresent(node, last), {n \in node + 1 .. last : Node(n).is_present})
<1>. DEFINE found == {n \in node + 1 .. last : Node(n).is_present}
<1>1. found \in SUBSET Nat
  OBVIOUS
<1>2. NextPresent(node, last) = IF found = {} THEN PWR_DOMAIN_INIT
                                ELSE CHOOSE n \in found : \A k \in found : n <= k
  BY DEF NextPresent
<1>. HIDE DEF found
<1>3. IsNext(NextPresent(node, last), found)
  <2>1. CASE found = {}
    BY <1>2, <2>1 DEF IsNext
  <2>2. CASE found # {}
    <3>1. \E n \in found : \A k \in found : n <= k
      BY <1>1, <2>2, Least
    <3>. QED  BY <1>2, <2>2, <3>1 DEF IsNext
  <2>. QED  BY <2>1, <2>2
<1>. QED  BY <1>3 DEF found

\* A step that looks for the next present node of an interval leads through those of it.
LEMMA IntervalLeads ==
  ASSUME NEW macro, NEW of, NEW lo \in Nat, NEW hi \in Nat, lo <= hi,
         NextOf(macro, of, PWR_DOMAIN_INIT) = IF Node(lo).is_present THEN lo ELSE NextPresent(lo, hi),
         \A i \in lo .. hi : NextOf(macro, of, i) = NextPresent(i, hi)
  PROVE  Leads(macro, of, {n \in lo .. hi : Node(n).is_present})
<1>. DEFINE S == {n \in lo .. hi : Node(n).is_present}
<1>1. IsNext(NextOf(macro, of, PWR_DOMAIN_INIT), S)
  <2>1. CASE Node(lo).is_present
    <3>1. lo \in S /\ \A y \in S : lo <= y
      BY <2>1
    <3>2. NextOf(macro, of, PWR_DOMAIN_INIT) = lo
      BY <2>1
    <3>. QED  BY <3>1, <3>2 DEF IsNext
  <2>2. CASE ~ Node(lo).is_present
    <3>1. {n \in lo + 1 .. hi : Node(n).is_present} = S
      <4>1. ASSUME NEW n \in lo .. hi, Node(n).is_present PROVE n \in lo + 1 .. hi
        <5>1. n # lo
          BY <2>2, <4>1
        <5>. QED  BY <5>1
      <4>2. lo + 1 .. hi \subseteq lo .. hi
        OBVIOUS
      <4>. QED  BY <4>1, <4>2
    <3>2. lo \in Int /\ hi \in Int /\ lo >= -1
      OBVIOUS
    <3>3. IsNext(NextPresent(lo, hi), {n \in lo + 1 .. hi : Node(n).is_present})
      BY <3>2, NextPresentIs
    <3>. QED  BY <2>2, <3>1, <3>3
  <2>. QED  BY <2>1, <2>2
<1>2. ASSUME NEW i \in S PROVE IsNext(NextOf(macro, of, i), {n \in S : n > i})
  <2>1. i \in lo .. hi /\ i \in Int /\ hi \in Int /\ i >= -1
    OBVIOUS
  <2>2. {n \in i + 1 .. hi : Node(n).is_present} = {n \in S : n > i}
    <3>1. \A n : n \in i + 1 .. hi <=> n \in lo .. hi /\ n > i
      BY <2>1
    <3>. QED  BY <3>1
  <2>3. IsNext(NextPresent(i, hi), {n \in i + 1 .. hi : Node(n).is_present})
    BY <2>1, NextPresentIs
  <2>. QED  BY <2>1, <2>2, <2>3
<1>. QED  BY <1>1, <1>2 DEF Leads

\* The nodes of a level stand in a row.
LEMMA LevelRow ==
  ASSUME TreeInv, topology_setup_done, NEW lvl \in 0 .. MaxLevel
  PROVE  LET lo == StartOf[MaxLevel - lvl]
             hi == StartOf[MaxLevel - lvl + 1] - 1
         IN /\ tftf_pwr_domain_start_idx[lvl] = lo
            /\ lo \in Nat /\ hi \in Nat /\ lo <= hi /\ hi \in Nodes
            /\ \A n \in Nodes : Node(n).level = lvl <=> n \in lo .. hi
<1>1. /\ Shaped /\ plat.affs \in Nat /\ RootedTo(plat.affs) /\ Nodes = 0 .. plat.affs - 1
      /\ plat \in Platforms /\ MaxLevel \in Nat /\ num_level = -1
  BY SetupDone
<1>. DEFINE k == MaxLevel - lvl
            lo == StartOf[k]
            hi == StartOf[k + 1] - 1
<1>2. k \in 0 .. MaxLevel /\ k + 1 \in 0 .. MaxLevel + 1 /\ MaxLevel + 1 \in 0 .. MaxLevel + 1 /\ k + 1 <= MaxLevel + 1
      /\ k \in 0 .. MaxLevel + 1
  BY <1>1
<1>3. tftf_pwr_domain_start_idx[lvl] = lo
  <2>1. lvl > num_level
    BY <1>1
  <2>. QED  BY <2>1 DEF TreeInv, LevelsInv
<1>. HIDE DEF k
<1>4. /\ StartOf[k] \in Nat /\ StartOf[k + 1] \in Nat /\ StartOf[k] < StartOf[k + 1]
      /\ StartOf[k + 1] <= StartOf[MaxLevel + 1]
  BY <1>1, <1>2, StartsInOrder DEF Shaped
<1>5. StartOf[MaxLevel + 1] = plat.affs
  BY <1>1, PlatShaped
<1>6. lo \in Nat /\ hi \in Nat /\ lo <= hi /\ hi \in Nodes
  BY <1>1, <1>4, <1>5
<1>7. ASSUME NEW n \in Nodes PROVE Node(n).level = lvl <=> n \in lo .. hi
  <2>1. n \in Nat /\ n \in Int /\ n < StartOf[MaxLevel + 1]
    BY <1>1, <1>5
  <2>2. PICK l \in 0 .. MaxLevel : At(n, l)
    BY <1>1, <2>1, LevelOfNode DEF Shaped, At
  <2>3. Node(n).level = l
    BY <1>1, <2>2 DEF RootedTo
  <2>4. At(n, lvl) <=> n \in lo .. hi
    BY <1>4, <2>1 DEF At, OnLevel, k
  <2>5. At(n, lvl) <=> l = lvl
    BY <1>1, <2>1, <2>2, OneLevel DEF Shaped, At
  <2>. QED  BY <2>3, <2>4, <2>5
<1>. QED  BY <1>3, <1>6, <1>7 DEF k

\* The CPUs pass the check of their iterators.
LEMMA ValidCpu ==
  ASSUME TreeInv, topology_setup_done, NEW c \in PlatCpus
  PROVE  CPU_NODE_IS_VALID(c)
<1>1. /\ StartOf[MaxLevel] \in Nat /\ StartOf[MaxLevel] + plat.cores = plat.affs
      /\ PlatCpus = StartOf[MaxLevel] .. plat.affs - 1 /\ plat.cores \in Nat /\ plat.affs \in Nat
      /\ tftf_pwr_domain_start_idx[0] = StartOf[MaxLevel]
  BY SetupDone
<1>2. c - StartOf[MaxLevel] \in 0 .. plat.cores - 1
  BY <1>1
<1>. QED  BY <1>1, <1>2, CpuNodesAre DEF CPU_NODE_IS_VALID

\* The step of for_each_cpu leads through the present CPUs.
LEMMA CpusLead ==
  ASSUME TreeInv, topology_setup_done
  PROVE  Leads("cpus", 0, {c \in PlatCpus : Node(c).is_present})
<1>. DEFINE lo == StartOf[MaxLevel]
            hi == plat.affs - 1
<1>1. /\ lo \in Nat /\ lo + plat.cores = plat.affs /\ plat.cores \in Nat \ {0} /\ plat.affs \in Nat
      /\ PlatCpus = lo .. hi /\ tftf_pwr_domain_start_idx[0] = lo
  BY SetupDone
<1>2. hi \in Nat /\ lo <= hi /\ lo \in PlatCpus
  BY <1>1
<1>3. NextOf("cpus", 0, PWR_DOMAIN_INIT) = IF Node(lo).is_present THEN lo ELSE NextPresent(lo, hi)
  <2>1. CPU_NODE_IS_VALID(lo)
    BY <1>2, ValidCpu
  <2>. QED  BY <1>1, <2>1 DEF NextOf, tftf_topology_next_cpu
<1>4. ASSUME NEW i \in lo .. hi PROVE NextOf("cpus", 0, i) = NextPresent(i, hi)
  <2>1. CPU_NODE_IS_VALID(i) /\ i # PWR_DOMAIN_INIT
    BY <1>1, ValidCpu DEF PWR_DOMAIN_INIT
  <2>. QED  BY <2>1 DEF NextOf, tftf_topology_next_cpu
<1>. HIDE DEF lo, hi
<1>5. Leads("cpus", 0, {n \in lo .. hi : Node(n).is_present})
  BY <1>1, <1>2, <1>3, <1>4, IntervalLeads
<1>. QED  BY <1>1, <1>5

\* The step of for_each_power_domain_idx leads through the present nodes of a level, and they
\* are counted.
LEMMA DomainsLead ==
  ASSUME TreeInv, topology_setup_done, NEW lvl \in 0 .. MaxLevel
  PROVE  /\ Leads("domains", lvl, {n \in Nodes : Node(n).level = lvl /\ Node(n).is_present})
         /\ tftf_get_total_aff_count(lvl) = Cardinality({n \in Nodes : Node(n).level = lvl /\ Node(n).is_present})
<1>. DEFINE lo == StartOf[MaxLevel - lvl]
            hi == StartOf[MaxLevel - lvl + 1] - 1
<1>1. /\ tftf_pwr_domain_start_idx[lvl] = lo
      /\ lo \in Nat /\ hi \in Nat /\ lo <= hi /\ hi \in Nodes
      /\ \A n \in Nodes : Node(n).level = lvl <=> n \in lo .. hi
  BY LevelRow
<1>2. Nodes = 0 .. plat.affs - 1 /\ plat.affs \in Nat /\ MaxLevel \in Nat
  BY SetupDone
<1>. HIDE DEF lo, hi
<1>3. LastOf(lvl) = hi
  <2>1. \A k \in lo .. hi : Node(k).level = lvl
    BY <1>1, <1>2
  <2>2. hi + 1 \in Nodes => Node(hi + 1).level # lvl
    BY <1>1
  <2>3. ASSUME NEW n \in Nodes, n >= lo, \A k \in lo .. n : Node(k).level = lvl,
               n + 1 \in Nodes => Node(n + 1).level # lvl
        PROVE  n = hi
    <3>1. n \in lo .. hi
      BY <1>1, <1>2, <2>3
    <3>2. ~(n < hi)
      <4>. SUFFICES ASSUME n < hi PROVE FALSE
        OBVIOUS
      <4>1. n + 1 \in lo .. hi /\ n + 1 \in Nodes
        BY <1>1, <1>2, <3>1
      <4>. QED  BY <2>1, <2>3, <4>1
    <3>. QED  BY <1>1, <3>1, <3>2
  <2>. QED  BY <1>1, <2>1, <2>2, <2>3 DEF LastOf
<1>4. {n \in Nodes : Node(n).level = lvl /\ Node(n).is_present} = {n \in lo .. hi : Node(n).is_present}
  BY <1>1, <1>2
<1>5. NextOf("domains", lvl, PWR_DOMAIN_INIT) = IF Node(lo).is_present THEN lo ELSE NextPresent(lo, hi)
  <2>1. Node(lo).level = lvl
    BY <1>1, <1>2
  <2>. QED  BY <1>1, <1>3, <2>1 DEF NextOf, tftf_get_next_peer_domain
<1>6. ASSUME NEW i \in lo .. hi PROVE NextOf("domains", lvl, i) = NextPresent(i, hi)
  <2>1. Node(i).level = lvl /\ i # PWR_DOMAIN_INIT
    BY <1>1, <1>2 DEF PWR_DOMAIN_INIT
  <2>. QED  BY <1>3, <2>1 DEF NextOf, tftf_get_next_peer_domain
<1>7. Leads("domains", lvl, {n \in lo .. hi : Node(n).is_present})
  BY <1>1, <1>5, <1>6, IntervalLeads
<1>8. tftf_get_total_aff_count(lvl) = Cardinality({n \in lo .. hi : Node(n).is_present})
  <2>1. ~(lvl > plat.max_afflvl)
    BY <1>2 DEF MaxLevel
  <2>. QED  BY <1>1, <1>3, <2>1 DEF tftf_get_total_aff_count
<1>. QED  BY <1>4, <1>7, <1>8

\* The present CPUs of a domain are those marked so.
LEMMA PresentOfIs ==
  ASSUME TreeInv, topology_setup_done, NEW n \in Nodes
  PROVE  PresentOf(n) = {c \in CpusOf(n) : Node(c).is_present} /\ CpusOf(n) \subseteq PlatCpus
<1>1. CpusOf(n) \subseteq PlatCpus
  BY CpuNodesAre DEF CpusOf
<1>2. \A c \in PlatCpus : Node(c).mpidr # INVALID_MPID <=> Present(c)
  BY PresentCpu
<1>3. \A c \in PlatCpus : Node(c).is_present = Present(c)
  BY SetupDone DEF CpuReady
<1>4. \A c \in PlatCpus : Node(c).mpidr # INVALID_MPID <=> Node(c).is_present
  BY <1>2, <1>3
<1>. QED  BY <1>1, <1>4 DEF PresentOf

\* The step of for_each_cpu_in_power_domain leads through the present CPUs of a domain with
\* limits.
LEMMA CpusOfLead ==
  ASSUME TreeInv, topology_setup_done, NEW n \in Nodes, Limited(n)
  PROVE  Leads("cpusOf", n, PresentOf(n))
<1>2. PICK lo \in PlatCpus : DomainLeft(n, lo)
  BY DomainsLeft
<1>. DEFINE hi == lo + Node(n).ncpus - 1
<1>3. CpusOf(n) = lo .. hi /\ Node(n).ncpus \in Nat \ {0} /\ Node(n).cpu_start_node = lo
  BY <1>2 DEF DomainLeft
<1>4. /\ PlatCpus = StartOf[MaxLevel] .. plat.affs - 1 /\ StartOf[MaxLevel] \in Nat
      /\ plat.affs \in Nat
  BY SetupDone
<1>5. lo \in Nat /\ hi \in Nat /\ lo <= hi
  BY <1>3, <1>4
<1>6. lo .. hi \subseteq PlatCpus
  BY <1>3, PresentOfIs
<1>7. ~(hi >= plat.affs)
  <2>1. hi \in PlatCpus
    BY <1>5, <1>6
  <2>. QED  BY <1>4, <2>1
<1>8. Node(n).cpu_start_node + Node(n).ncpus - 1 = hi
  BY <1>3
<1>. HIDE DEF hi
<1>9. NextOf("cpusOf", n, PWR_DOMAIN_INIT) = IF Node(lo).is_present THEN lo ELSE NextPresent(lo, hi)
  <2>1. CPU_NODE_IS_VALID(lo)
    BY ValidCpu
  <2>. QED  BY <1>3, <1>7, <1>8, <2>1 DEF NextOf, tftf_get_next_cpu_in_pwr_domain
<1>10. ASSUME NEW i \in lo .. hi PROVE NextOf("cpusOf", n, i) = NextPresent(i, hi)
  <2>1. CPU_NODE_IS_VALID(i)
    BY <1>6, ValidCpu
  <2>2. i # PWR_DOMAIN_INIT
    BY <1>5 DEF PWR_DOMAIN_INIT
  <2>. QED  BY <1>7, <1>8, <2>1, <2>2 DEF NextOf, tftf_get_next_cpu_in_pwr_domain
<1>11. Leads("cpusOf", n, {c \in lo .. hi : Node(c).is_present})
  BY <1>5, <1>9, <1>10, IntervalLeads
<1>. QED  BY <1>3, <1>11, PresentOfIs

-----------------------------------------------------------------------------
(* The power domain tree: its queries.                                     *)

\* The nodes that the loop macro op names, for domain or level `of'.
Named(op, of) ==
  CASE op = "domains" -> {n \in Nodes : Node(n).level = of /\ PresentOf(n) # {}}
    [] op = "cpusOf" -> PresentOf(of)
    [] op = "cpus" -> UNION {PresentOf(n) : n \in Nodes}

\* What IteratorsExact and OthersFound ask of an answer q.
IteratedExactly(q) ==
  Answerable(q) =>
    /\ {q.seen[k] : k \in DOMAIN q.seen} = Named(q.op, q.of)
    /\ \A k \in DOMAIN q.seen : k > 1 => q.seen[k - 1] < q.seen[k]
    /\ q.op = "domains" => q.count = Len(q.seen)

OtherCpus(mpidr) == {c \in CpuNodes : Node(c).mpidr \notin {INVALID_MPID, mpidr}}

OtherExactly(q) ==
  IF OtherCpus(q.of) = {} THEN q.found = INVALID_MPID
  ELSE \E c \in OtherCpus(q.of) : Node(c).mpidr = q.found

ParentExactly(q) ==
  IF q.of = plat.cores \/ q.lvl > plat.max_afflvl THEN q.found = PWR_DOMAIN_INIT
  ELSE /\ Node(q.found).level = q.lvl
       /\ tftf_pwr_domain_start_idx[0] + q.of \in CpusOf(q.found)

AnsweredExactly(q) ==
  /\ IteratedExactly(q)
  /\ q.op = "other" => OtherExactly(q)
  /\ q.op = "parent" => ParentExactly(q)

\* QueriesExact, said of the answer at hand.
LEMMA AnswerExact == QueriesExact <=> AnsweredExactly(query)
<1>1. IteratorsExact <=> IteratedExactly(query)
  BY DEF IteratorsExact, IteratedExactly, Named
<1>2. OthersFound <=> (query.op = "other" => OtherExactly(query)) /\ (query.op = "parent" => ParentExactly(query))
  BY DEF OthersFound, OtherExactly, OtherCpus, ParentExactly
<1>. QED  BY <1>1, <1>2 DEF QueriesExact, AnsweredExactly

\* The tree that a query leaves is the one it asked.
LEMMA AnswerStays ==
  ASSUME UNCHANGED topology, MaxLevel \in Nat, NEW q, query' = q, AnsweredExactly(q)
  PROVE  QueriesExact'
<1>1. /\ plat' = plat /\ tftf_pd_nodes' = tftf_pd_nodes
      /\ tftf_pwr_domain_start_idx' = tftf_pwr_domain_start_idx
  BY DEF topology
<1>2. Nodes' = Nodes /\ MaxLevel' = MaxLevel /\ \A n : Node(n)' = Node(n)
  BY <1>1 DEF Nodes, Node, MaxLevel
<1>3. \A n, l : Ancestor(n, l)' = Ancestor(n, l)
  BY <1>1 DEF Ancestor, Ancestors, Node
<1>4. CpuNodes' = CpuNodes /\ \A n : Limited(n)' = Limited(n)
  BY <1>1, <1>2 DEF CpuNodes, Limited
<1>5. \A n : CpusOf(n)' = CpusOf(n)
  BY <1>2, <1>3, <1>4 DEF CpusOf
<1>6. \A n : PresentOf(n)' = PresentOf(n)
  BY <1>2, <1>5 DEF PresentOf
<1>7. \A op, of : Named(op, of)' = Named(op, of)
  BY <1>2, <1>6 DEF Named
<1>8. Answerable(query)' <=> Answerable(q)
  <2>1. \A n : FirstCpuOf(n)' = FirstCpuOf(n)
    BY <1>5 DEF FirstCpuOf
  <2>2. \A n : Described(n)' <=> Described(n)
    BY <1>4, <1>6, <2>1 DEF Described
  <2>. QED  BY <1>2, <1>4, <2>2 DEF Answerable
<1>9. \A mpidr : OtherCpus(mpidr)' = OtherCpus(mpidr)
  BY <1>2, <1>4 DEF OtherCpus
<1>10. IteratedExactly(query)'
  BY <1>7, <1>8 DEF AnsweredExactly, IteratedExactly
<1>11. (query'.op = "other" => OtherExactly(query)') /\ (query'.op = "parent" => ParentExactly(query)')
  BY <1>1, <1>2, <1>5, <1>9 DEF AnsweredExactly, OtherExactly, ParentExactly
<1>12. AnsweredExactly(query)'
  BY <1>10, <1>11 DEF AnsweredExactly
<1>13. (QueriesExact <=> AnsweredExactly(query))'
  BY AnswerExact, PTL
<1>. QED  BY <1>12, <1>13

\* A loop that goes through what it names is an exact answer.
LEMMA IteratorAnswer ==
  ASSUME NEW q, q.op \in {"domains", "cpusOf", "cpus"}, Enumeration(q.seen, Named(q.op, q.of)),
         q.op = "domains" => q.count = Cardinality(Named(q.op, q.of))
  PROVE  AnsweredExactly(q)
<1>1. q.op # "other" /\ q.op # "parent"
  OBVIOUS
<1>2. IteratedExactly(q)
  BY DEF IteratedExactly, Enumeration
<1>. QED  BY <1>1, <1>2 DEF AnsweredExactly

\* for_each_cpu names the present CPUs.
LEMMA NamedCpus ==
  ASSUME TreeInv, topology_setup_done, NEW of
  PROVE  Named("cpus", of) = {c \in PlatCpus : Node(c).is_present}
<1>1. \A n \in Nodes : PresentOf(n) = {c \in CpusOf(n) : Node(c).is_present} /\ CpusOf(n) \subseteq PlatCpus
  BY PresentOfIs
<1>2. ASSUME NEW c \in PlatCpus PROVE c \in Nodes /\ c \in CpusOf(c)
  <2>1. c \in Nodes /\ plat \in Platforms /\ RootedTo(plat.affs) /\ MaxLevel \in Nat
    BY SetupDone
  <2>2. Node(c).level = 0 /\ c \in CpuNodes
    BY CpuNodesAre
  <2>3. 0 \in 0 .. MaxLevel
    BY <2>1
  <2>4. Ancestor(c, 0) = c
    BY <2>1, <2>3, UpIsLine, UpFacts DEF Ancestor
  <2>. QED  BY <2>1, <2>2, <2>4 DEF CpusOf
<1>3. Named("cpus", of) = UNION {PresentOf(n) : n \in Nodes}
  BY DEF Named
<1>. QED  BY <1>1, <1>2, <1>3

\* The loops of a test give exact answers.
LEMMA IterateAnswer ==
  ASSUME TreeInv, TreeInv', Iterate
  PROVE  topology_setup_done' /\ QueriesExact'
<1>1. topology_setup_done /\ UNCHANGED topology
  BY DEF Iterate, Ready, Ask
<1>2. topology_setup_done'
  BY <1>1 DEF topology
<1>3. plat.affs \in Nat /\ Nodes = 0 .. plat.affs - 1 /\ MaxLevel \in Nat
  BY <1>1, SetupDone
<1>4. ASSUME NEW lvl \in 0 .. plat.max_afflvl,
             Ask([op |-> "domains", of |-> lvl, seen |-> ForEach("domains", lvl),
                  count |-> tftf_get_total_aff_count(lvl)])
      PROVE  QueriesExact'
  <2>. DEFINE q == [op |-> "domains", of |-> lvl, seen |-> ForEach("domains", lvl),
                    count |-> tftf_get_total_aff_count(lvl)]
              S == {n \in Nodes : Node(n).level = lvl /\ Node(n).is_present}
  <2>1. q.op = "domains" /\ q.of = lvl /\ q.seen = ForEach("domains", lvl)
        /\ q.count = tftf_get_total_aff_count(lvl)
    OBVIOUS
  <2>2. query' = q
    BY <1>4 DEF Ask
  <2>3. Leads("domains", lvl, S) /\ tftf_get_total_aff_count(lvl) = Cardinality(S)
    BY <1>1, DomainsLead DEF MaxLevel
  <2>4. S \in SUBSET (0 .. plat.affs - 1)
    BY <1>3
  <2>5. Answerable(q) => Named("domains", lvl) = S
    <3>1. Answerable(q) => \A n \in Nodes : Node(n).level = lvl => Described(n)
      BY <2>1 DEF Answerable
    <3>2. \A n \in Nodes : Described(n) => (Node(n).is_present <=> PresentOf(n) # {})
      BY <1>1, MarkedPresent
    <3>. QED  BY <3>1, <3>2 DEF Named
  <2>. HIDE DEF S, q
  <2>6. Enumeration(ForEach("domains", lvl), S)
    BY <1>3, <2>3, <2>4, LoopEnumerates
  <2>7. CASE Answerable(q)
    <3>1. AnsweredExactly(q)
      BY <2>1, <2>3, <2>5, <2>6, <2>7, IteratorAnswer
    <3>. QED  BY <1>1, <1>3, <2>2, <3>1, AnswerStays
  <2>8. CASE ~ Answerable(q)
    <3>1. AnsweredExactly(q)
      BY <2>1, <2>8 DEF AnsweredExactly, IteratedExactly
    <3>. QED  BY <1>1, <1>3, <2>2, <3>1, AnswerStays
  <2>. QED  BY <2>7, <2>8
<1>5. ASSUME NEW domain \in Nodes,
             Ask([op |-> "cpusOf", of |-> domain, seen |-> ForEach("cpusOf", domain)])
      PROVE  QueriesExact'
  <2>. DEFINE q == [op |-> "cpusOf", of |-> domain, seen |-> ForEach("cpusOf", domain)]
  <2>1. q.op = "cpusOf" /\ q.of = domain /\ q.seen = ForEach("cpusOf", domain)
    OBVIOUS
  <2>2. query' = q
    BY <1>5 DEF Ask
  <2>. HIDE DEF q
  <2>3. CASE Limited(domain)
    <3>1. Leads("cpusOf", domain, PresentOf(domain))
      BY <1>1, <2>3, CpusOfLead
    <3>2. PresentOf(domain) \in SUBSET (0 .. plat.affs - 1)
      BY <1>3 DEF PresentOf, CpusOf, CpuNodes
    <3>3. Enumeration(ForEach("cpusOf", domain), PresentOf(domain))
      BY <1>3, <3>1, <3>2, LoopEnumerates
    <3>4. Named("cpusOf", domain) = PresentOf(domain)
      BY DEF Named
    <3>5. AnsweredExactly(q)
      BY <2>1, <3>3, <3>4, IteratorAnswer
    <3>. QED  BY <1>1, <1>3, <2>2, <3>5, AnswerStays
  <2>4. CASE ~ Limited(domain)
    <3>1. AnsweredExactly(q)
      BY <2>1, <2>4 DEF AnsweredExactly, IteratedExactly, Answerable
    <3>. QED  BY <1>1, <1>3, <2>2, <3>1, AnswerStays
  <2>. QED  BY <2>3, <2>4
<1>6. ASSUME Ask([op |-> "cpus", of |-> 0, seen |-> ForEach("cpus", 0)]) PROVE QueriesExact'
  <2>. DEFINE q == [op |-> "cpus", of |-> 0, seen |-> ForEach("cpus", 0)]
              S == {c \in PlatCpus : Node(c).is_present}
  <2>1. q.op = "cpus" /\ q.of = 0 /\ q.seen = ForEach("cpus", 0)
    OBVIOUS
  <2>2. query' = q
    BY <1>6 DEF Ask
  <2>. HIDE DEF q
  <2>3. Leads("cpus", 0, S) /\ S = Named("cpus", 0)
    BY <1>1, CpusLead, NamedCpus
  <2>4. S \in SUBSET (0 .. plat.affs - 1)
    BY <1>1, <1>3, SetupDone
  <2>. HIDE DEF S
  <2>5. Enumeration(ForEach("cpus", 0), S)
    BY <1>3, <2>3, <2>4, LoopEnumerates
  <2>6. AnsweredExactly(q)
    BY <2>1, <2>3, <2>5, IteratorAnswer
  <2>. QED  BY <1>1, <1>3, <2>2, <2>6, AnswerStays
<1>. QED  BY <1>2, <1>4, <1>5, <1>6 DEF Iterate

\* A turn of the loop over the CPUs meets another CPU if there is one.
LEMMA OthersAre ==
  ASSUME TreeInv, topology_setup_done, NEW mpidr
  PROVE  /\ \A k \in Others(mpidr) : k \in Nat /\ \E c \in OtherCpus(mpidr) : OtherAt(k) = Node(c).mpidr
         /\ Others(mpidr) = {} => OtherCpus(mpidr) = {}
<1>. DEFINE S == {c \in PlatCpus : Node(c).is_present}
            seen == ForEach("cpus", 0)
<1>1. plat.affs \in Nat /\ S \in SUBSET (0 .. plat.affs - 1)
  BY SetupDone
<1>2. Leads("cpus", 0, S)
  BY CpusLead
<1>3. \A c \in PlatCpus : Node(c).is_present = Present(c)
  BY SetupDone DEF CpuReady
<1>4. \A c \in PlatCpus : Node(c).is_present <=> Node(c).mpidr # INVALID_MPID
  BY <1>3, PresentCpu
<1>5. CpuNodes = PlatCpus
  BY CpuNodesAre
<1>6. OtherCpus(mpidr) = {c \in S : Node(c).mpidr # mpidr}
  BY <1>4, <1>5 DEF OtherCpus
<1>7. \A c \in S : tftf_get_mpidr_from_node(c) = Node(c).mpidr
  BY DEF tftf_get_mpidr_from_node
<1>. HIDE DEF S
<1>8. Enumeration(seen, S)
  BY <1>1, <1>2, LoopEnumerates
<1>. HIDE DEF seen
<1>9. /\ \E n \in Nat : DOMAIN seen = 1 .. n
      /\ {seen[k] : k \in DOMAIN seen} = S
  BY <1>8 DEF Enumeration
<1>10. Others(mpidr) = {k \in DOMAIN seen : tftf_get_mpidr_from_node(seen[k]) # mpidr}
  BY DEF Others, seen
<1>11. \A k : OtherAt(k) = tftf_get_mpidr_from_node(seen[k])
  BY DEF OtherAt, seen
<1>12. ASSUME NEW k \in Others(mpidr)
       PROVE  k \in Nat /\ \E c \in OtherCpus(mpidr) : OtherAt(k) = Node(c).mpidr
  <2>1. k \in DOMAIN seen /\ seen[k] \in S /\ tftf_get_mpidr_from_node(seen[k]) # mpidr
    BY <1>9, <1>10
  <2>2. k \in Nat
    BY <1>9, <2>1
  <2>. QED  BY <1>6, <1>7, <1>11, <2>1, <2>2
<1>13. ASSUME NEW c \in OtherCpus(mpidr) PROVE Others(mpidr) # {}
  <2>1. c \in S /\ Node(c).mpidr # mpidr
    BY <1>6
  <2>2. PICK k \in DOMAIN seen : seen[k] = c
    BY <1>9, <2>1
  <2>. QED  BY <1>7, <1>10, <2>1, <2>2
<1>. QED  BY <1>12, <1>13

\* Both searches for another CPU give exact answers.
LEMMA FindCpuAnswer ==
  ASSUME TreeInv, TreeInv', FindCpu
  PROVE  topology_setup_done' /\ QueriesExact'
<1>1. topology_setup_done /\ UNCHANGED topology
  BY DEF FindCpu, Ready, Ask
<1>2. topology_setup_done'
  BY <1>1 DEF topology
<1>3. MaxLevel \in Nat /\ plat.cores \in Nat \ {0}
  BY <1>1, SetupDone
<1>4. PICK core \in 0 .. plat.cores - 1 :
        \/ Ask([op |-> "other", of |-> Mpid(core), found |-> tftf_find_any_cpu_other_than(Mpid(core))])
        \/ \E mpidr \in tftf_find_random_cpu_other_than(Mpid(core)) :
             Ask([op |-> "other", of |-> Mpid(core), found |-> mpidr])
  BY DEF FindCpu
<1>. DEFINE m == Mpid(core)
<1>5. ASSUME NEW x, IF OtherCpus(m) = {} THEN x = INVALID_MPID ELSE \E c \in OtherCpus(m) : Node(c).mpidr = x,
             Ask([op |-> "other", of |-> m, found |-> x])
      PROVE  QueriesExact'
  <2>. DEFINE q == [op |-> "other", of |-> m, found |-> x]
  <2>1. q.op = "other" /\ q.of = m /\ q.found = x
    OBVIOUS
  <2>2. query' = q
    BY <1>5 DEF Ask
  <2>. HIDE DEF q, m
  <2>3. OtherExactly(q)
    BY <1>5, <2>1 DEF OtherExactly
  <2>4. AnsweredExactly(q)
    BY <2>1, <2>3 DEF AnsweredExactly, IteratedExactly, Answerable
  <2>. QED  BY <1>1, <1>3, <2>2, <2>4, AnswerStays
<1>. HIDE DEF m
<1>6. /\ \A k \in Others(m) : k \in Nat /\ \E c \in OtherCpus(m) : OtherAt(k) = Node(c).mpidr
      /\ Others(m) = {} => OtherCpus(m) = {}
  BY <1>1, OthersAre
<1>7. ASSUME Ask([op |-> "other", of |-> m, found |-> tftf_find_any_cpu_other_than(m)])
      PROVE  QueriesExact'
  <2>1. CASE Others(m) = {}
    <3>1. tftf_find_any_cpu_other_than(m) = INVALID_MPID /\ OtherCpus(m) = {}
      BY <1>6, <2>1 DEF tftf_find_any_cpu_other_than
    <3>. QED  BY <1>5, <1>7, <3>1
  <2>2. CASE Others(m) # {}
    <3>1. \E k \in Others(m) : \A j \in Others(m) : k <= j
      <4>1. Others(m) \in SUBSET Nat
        BY <1>6
      <4>. QED  BY <2>2, <4>1, Least
    <3>2. PICK k \in Others(m) : tftf_find_any_cpu_other_than(m) = OtherAt(k)
      BY <2>2, <3>1 DEF tftf_find_any_cpu_other_than
    <3>3. OtherCpus(m) # {} /\ \E c \in OtherCpus(m) : Node(c).mpidr = tftf_find_any_cpu_other_than(m)
      BY <1>6, <3>2
    <3>. QED  BY <1>5, <1>7, <3>3
  <2>. QED  BY <2>1, <2>2
<1>8. ASSUME NEW x \in tftf_find_random_cpu_other_than(m), Ask([op |-> "other", of |-> m, found |-> x])
      PROVE  QueriesExact'
  <2>1. CASE plat.cores = 1
    <3>1. x = INVALID_MPID
      BY <1>8, <2>1 DEF tftf_find_random_cpu_other_than
    <3>2. OtherCpus(m) = {}
      <4>. SUFFICES ASSUME NEW c \in OtherCpus(m) PROVE FALSE
        OBVIOUS
      <4>1. c \in PlatCpus /\ Node(c).mpidr # INVALID_MPID /\ Node(c).mpidr # m
        BY <1>1, CpuNodesAre DEF OtherCpus
      <4>2. CpuReady(c) /\ c = StartOf[MaxLevel] /\ StartOf[MaxLevel] \in Nat
        BY <1>1, <2>1, <4>1, SetupDone
      <4>3. Node(c).mpidr = Mpid(c - StartOf[MaxLevel])
        BY <4>1, <4>2 DEF CpuReady
      <4>4. core = 0 /\ c - StartOf[MaxLevel] = 0
        BY <1>4, <2>1, <4>2
      <4>. QED  BY <4>1, <4>3, <4>4 DEF m
    <3>. QED  BY <1>5, <1>8, <3>1, <3>2
  <2>2. CASE plat.cores # 1 /\ Others(m) = {}
    <3>1. x = INVALID_MPID /\ OtherCpus(m) = {}
      BY <1>6, <1>8, <2>2 DEF tftf_find_random_cpu_other_than
    <3>. QED  BY <1>5, <1>8, <3>1
  <2>3. CASE plat.cores # 1 /\ Others(m) # {}
    <3>1. PICK k \in Others(m) : x = OtherAt(k)
      BY <1>8, <2>3 DEF tftf_find_random_cpu_other_than
    <3>2. OtherCpus(m) # {} /\ \E c \in OtherCpus(m) : Node(c).mpidr = x
      BY <1>6, <3>1
    <3>. QED  BY <1>5, <1>8, <3>2
  <2>. QED  BY <2>1, <2>2, <2>3
<1>. QED  BY <1>2, <1>4, <1>7, <1>8 DEF m

\* The search for a parent gives exact answers.
LEMMA FindParentAnswer ==
  ASSUME TreeInv, TreeInv', FindParent
  PROVE  topology_setup_done' /\ QueriesExact'
<1>1. topology_setup_done /\ UNCHANGED topology
  BY DEF FindParent, Ready, Ask
<1>2. topology_setup_done'
  BY <1>1 DEF topology
<1>3. /\ MaxLevel \in Nat /\ plat.cores \in Nat \ {0} /\ plat \in Platforms /\ RootedTo(plat.affs)
      /\ StartOf[MaxLevel] \in Nat /\ StartOf[MaxLevel] + plat.cores = plat.affs /\ plat.affs \in Nat
      /\ PlatCpus = StartOf[MaxLevel] .. plat.affs - 1 /\ Shaped
      /\ tftf_pwr_domain_start_idx[0] = StartOf[MaxLevel]
  BY <1>1, SetupDone
<1>4. PICK core \in 0 .. plat.cores, lvl \in 0 .. plat.max_afflvl + 1 :
        Ask([op |-> "parent", of |-> core, lvl |-> lvl,
             found |-> tftf_get_parent_node_from_mpidr(Mpid(core), lvl)])
  BY DEF FindParent
<1>. DEFINE x == tftf_get_parent_node_from_mpidr(Mpid(core), lvl)
            q == [op |-> "parent", of |-> core, lvl |-> lvl, found |-> x]
<1>5. CorePos(Mpid(core)) = core
  BY <1>3 DEF CorePos, Mpid
<1>6. q.op = "parent" /\ q.of = core /\ q.lvl = lvl /\ q.found = x
  OBVIOUS
<1>7. query' = q
  BY <1>4 DEF Ask
<1>8. x = IF core >= plat.cores \/ lvl > plat.max_afflvl THEN PWR_DOMAIN_INIT
          ELSE Ancestor(tftf_pwr_domain_start_idx[0] + core, lvl)
  BY <1>5 DEF tftf_get_parent_node_from_mpidr
<1>. HIDE DEF q, x
<1>9. core >= plat.cores <=> core = plat.cores
  BY <1>3
<1>10. ASSUME core = plat.cores \/ lvl > plat.max_afflvl PROVE ParentExactly(q)
  BY <1>6, <1>8, <1>9, <1>10 DEF ParentExactly
<1>11. ASSUME ~(core = plat.cores \/ lvl > plat.max_afflvl) PROVE ParentExactly(q)
  <2>. DEFINE c == StartOf[MaxLevel] + core
  <2>1. c \in PlatCpus /\ lvl \in 0 .. MaxLevel
    <3>1. core \in 0 .. plat.cores - 1
      BY <1>3, <1>11
    <3>2. lvl \in 0 .. MaxLevel
      <4>1. lvl \in 0 .. MaxLevel + 1 /\ ~(lvl > MaxLevel)
        BY <1>11 DEF MaxLevel
      <4>. QED  BY <1>3, <4>1
    <3>. QED  BY <1>3, <3>1, <3>2
  <2>2. x = Ancestor(c, lvl)
    BY <1>3, <1>8, <1>9, <1>11
  <2>. HIDE DEF c
  <2>3. x = Up(c)[lvl]
    BY <1>3, <2>1, <2>2, UpIsLine DEF Ancestor
  <2>4. x \in Nat /\ At(x, lvl)
    BY <1>3, <2>1, <2>3, UpFacts
  <2>5. x < plat.affs
    <3>1. MaxLevel - lvl + 1 \in 0 .. MaxLevel + 1 /\ MaxLevel + 1 \in 0 .. MaxLevel + 1
          /\ MaxLevel - lvl + 1 <= MaxLevel + 1
      BY <1>3, <2>1
    <3>2. /\ StartOf[MaxLevel - lvl + 1] <= StartOf[MaxLevel + 1]
          /\ StartOf[MaxLevel - lvl + 1] \in Nat
      BY <1>3, <3>1, StartsInOrder DEF Shaped
    <3>3. StartOf[MaxLevel + 1] = plat.affs
      BY <1>3, PlatShaped
    <3>. QED  BY <1>3, <2>4, <3>2, <3>3 DEF At, OnLevel
  <2>6. Node(x).level = lvl
    BY <1>3, <2>1, <2>4, <2>5 DEF RootedTo
  <2>7. c \in CpusOf(x)
    <3>1. c \in CpuNodes
      BY <1>1, <2>1, CpuNodesAre
    <3>. QED  BY <2>2, <2>6, <3>1 DEF CpusOf
  <2>8. tftf_pwr_domain_start_idx[0] + core = c
    BY <1>3 DEF c
  <2>. QED  BY <1>6, <1>11, <2>6, <2>7, <2>8 DEF ParentExactly
<1>12. ParentExactly(q)
  BY <1>10, <1>11
<1>13. AnsweredExactly(q)
  BY <1>6, <1>12 DEF AnsweredExactly, IteratedExactly, Answerable
<1>. QED  BY <1>1, <1>2, <1>3, <1>7, <1>13, AnswerStays

\* Answers are given only when the setup is done, and are right.
AnswersInv == query.op # "none" => topology_setup_done /\ QueriesExact

\* There is no answer yet.
LEMMA AnswersStart == PowerInit => AnswersInv
BY DEF PowerInit, AnswersInv

\* Every step keeps the answers exact.
LEMMA AnswersStep == TreeInv /\ TreeInv' /\ AnswersInv /\ [PowerNext]_powerVars => AnswersInv'
<1>. SUFFICES ASSUME TreeInv, TreeInv', AnswersInv, [PowerNext]_powerVars PROVE AnswersInv'
  OBVIOUS
<1>1. CASE PopulateLevel
  <2>1. num_level >= 0 /\ query' = query
    BY <1>1 DEF PopulateLevel
  <2>2. query.op = "none"
    <3>1. topology_setup_done => num_level = -1
      BY SetupDone
    <3>. QED  BY <2>1, <3>1 DEF AnswersInv
  <2>. QED  BY <2>1, <2>2 DEF AnswersInv
<1>2. CASE UpdateLimits
  <2>1. cpu_id < plat.cores /\ query' = query
    BY <1>2 DEF UpdateLimits
  <2>2. query.op = "none"
    <3>1. topology_setup_done => cpu_id = plat.cores /\ plat.cores \in Nat
      BY SetupDone
    <3>. QED  BY <2>1, <3>1 DEF AnswersInv
  <2>. QED  BY <2>1, <2>2 DEF AnswersInv
<1>3. CASE Iterate
  BY <1>3, IterateAnswer DEF AnswersInv
<1>4. CASE FindCpu
  BY <1>4, FindCpuAnswer DEF AnswersInv
<1>5. CASE FindParent
  BY <1>5, FindParentAnswer DEF AnswersInv
<1>6. CASE UNCHANGED powerVars
  <2>1. UNCHANGED topology /\ query' = query /\ topology_setup_done' = topology_setup_done
    BY <1>6 DEF powerVars, topology
  <2>2. MaxLevel \in Nat
    BY PlatShaped DEF TreeInv, TreeType
  <2>3. CASE query.op # "none"
    <3>1. topology_setup_done /\ AnsweredExactly(query)
      BY <2>3, AnswerExact DEF AnswersInv
    <3>. QED  BY <2>1, <2>2, <3>1, AnswerStays DEF AnswersInv
  <2>4. CASE query.op = "none"
    BY <2>1, <2>4 DEF AnswersInv
  <2>. QED  BY <2>3, <2>4
<1>. QED  BY <1>1, <1>2, <1>3, <1>4, <1>5, <1>6 DEF PowerNext

\* Asked of a level of domains, of a domain or of the CPUs where the setup describes them as
\* its comments say, the loop macros of plat_topology.h go through what they name, once and in
\* order: the domains with a present CPU, the present CPUs of the domain, all present CPUs;
\* the searches find another present CPU if there is one, and the parent asked for
\* (plat_topology.c), whatever the platform.  WhatTheSetupLeaves says where that is.
THEOREM QueriesAnswerTheTree == PowerSpec => []QueriesExact
<1>1. PowerSpec => []TreeInv
  BY TreeHolds
<1>2. PowerSpec => []AnswersInv
  BY <1>1, AnswersStart, AnswersStep, PTL DEF PowerSpec
<1>3. AnswersInv => QueriesExact
  <2>1. query.op = "none" => QueriesExact
    BY DEF QueriesExact, IteratorsExact, Answerable, OthersFound
  <2>. QED  BY <2>1 DEF AnswersInv
<1>. QED  BY <1>2, <1>3, PTL
=============================================================================
