----------------------------- MODULE DivisionFacts -----------------------------
(***************************************************************************)
(* Quotients and remainders by a positive number, as the drivers use them  *)
(* to find the page, the sector or the block of an address.                *)
(***************************************************************************)
EXTENDS Integers, TLAPS

LEMMA Division ==
  ASSUME NEW n \in Nat \ {0}, NEW a \in Int
  PROVE  /\ a % n \in 0 .. n - 1 /\ a \div n \in Int
         /\ a = n * (a \div n) + (a % n)
<1>1. a % n \in 0 .. n - 1
  OBVIOUS
<1>2. a \div n \in Int
  OBVIOUS
<1>3. a = n * (a \div n) + (a % n)
  OBVIOUS
<1>. QED  BY <1>1, <1>2, <1>3

LEMMA DivisionUnique ==
  ASSUME NEW n \in Nat \ {0}, NEW q \in Int, NEW r \in 0 .. n - 1
  PROVE  (n * q + r) % n = r /\ (n * q + r) \div n = q
<1>1. (n * q + r) % n = r
  OBVIOUS
<1>2. (n * q + r) \div n = q
  OBVIOUS
<1>. QED  BY <1>1, <1>2

LEMMA Multiple ==
  ASSUME NEW n \in Nat \ {0}, NEW q \in Int
  PROVE  (n * q) % n = 0 /\ (n * q) \div n = q
<1>1. (n * q) % n = 0
  OBVIOUS
<1>2. (n * q) \div n = q
  OBVIOUS
<1>. QED  BY <1>1, <1>2

LEMMA DivMonotonic ==
  ASSUME NEW n \in Nat \ {0}, NEW a \in Int, NEW b \in Int, a <= b
  PROVE  a \div n <= b \div n
  OBVIOUS

\* Adding less than n to a multiple of n, and adding n.
LEMMA AddToMultiple ==
  ASSUME NEW n \in Nat \ {0}, NEW p \in Int, p % n = 0
  PROVE  (\A i \in 0 .. n - 1 : (p + i) % n = i) /\ (p + n) % n = 0
<1>1. ASSUME NEW i \in 0 .. n - 1 PROVE (p + i) % n = i
  OBVIOUS
<1>2. p = n * (p \div n) /\ p \div n \in Int
  BY Division
<1>3. p + n = n * ((p \div n) + 1)
  BY <1>2
<1>4. (n * ((p \div n) + 1)) % n = 0
  BY <1>2, Multiple
<1>. QED  BY <1>1, <1>3, <1>4

LEMMA RoundDown ==
  ASSUME NEW n \in Nat \ {0}, NEW a \in Nat
  PROVE  a - (a % n) \in 0 .. a /\ (a - (a % n)) \div n = a \div n
<1>. DEFINE q == a \div n
            r == a % n
<1>1. q \in Int /\ r \in 0 .. n - 1 /\ a = n * q + r
  BY Division
<1>2. q >= 0
  OBVIOUS
<1>. HIDE DEF q, r
<1>3. n * q \in Nat
  BY <1>1, <1>2
<1>4. a - r = n * q
  BY <1>1, <1>3
<1>5. a - r \in 0 .. a
  BY <1>1, <1>3, <1>4
<1>6. (a - r) \div n = q
  BY <1>1, <1>4, Multiple
<1>. QED  BY <1>5, <1>6 DEF q, r

\* Being below a multiple of n shows in the quotient.
LEMMA BelowMultiple ==
  ASSUME NEW n \in Nat \ {0}, NEW a \in Int, NEW q \in Int
  PROVE  a < n * q <=> a \div n < q
<1>. DEFINE d == a \div n
            r == a % n
<1>1. d \in Int /\ r \in 0 .. n - 1 /\ a = n * d + r
  BY Division
<1>. HIDE DEF d, r
<1>2. ASSUME d < q PROVE a < n * q
  <2>1. n * (d + 1) <= n * q
    BY <1>1, <1>2
  <2>2. n * (d + 1) = n * d + n
    BY <1>1
  <2>. QED  BY <1>1, <2>1, <2>2
<1>3. ASSUME ~(d < q) PROVE ~(a < n * q)
  <2>1. n * q <= n * d
    BY <1>1, <1>3
  <2>. QED  BY <1>1, <2>1
<1>. QED  BY <1>2, <1>3 DEF d

\* A step that does not leave the block.
LEMMA SameBlock ==
  ASSUME NEW n \in Nat \ {0}, NEW p \in Int, NEW j \in Nat, (p % n) + j < n
  PROVE  (p + j) \div n = p \div n /\ (p + j) % n = (p % n) + j
<1>. DEFINE d == p \div n
            r == p % n
<1>1. d \in Int /\ r \in 0 .. n - 1 /\ p = n * d + r
  BY Division
<1>2. r + j \in 0 .. n - 1
  BY <1>1
<1>. HIDE DEF d, r
<1>3. p + j = n * d + (r + j)
  BY <1>1
<1>4. (n * d + (r + j)) % n = r + j /\ (n * d + (r + j)) \div n = d
  BY <1>1, <1>2, DivisionUnique
<1>. QED  BY <1>3, <1>4 DEF d, r
=============================================================================
