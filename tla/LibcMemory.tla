------------------------------ MODULE LibcMemory ------------------------------
(***************************************************************************)
(* The memory and string functions of lib/libc, and zeromem16 and memcpy16 *)
(* of lib/aarch64/misc_helpers.S, on a small memory.  A                    *)
(* behaviour fills the memory and makes one call; the loops of the C code  *)
(* are recursive functions that give the whole memory after each turn, so  *)
(* what a loop reads may be what it has just written.                      *)
(***************************************************************************)
EXTENDS Integers, FiniteSets

CONSTANTS
  Size,       \* cells of memory, at the addresses 0 .. Size - 1
  Word,       \* SIZE_MAX + 1
  Chunk,      \* the 16 bytes of a pair of registers
  Byte,       \* contents of a cell; char is unsigned
  CharArg     \* values passed for a character, which is an int

ASSUME MemoryAssumption ==
  /\ Size \in Nat \ {0} /\ Word \in Nat /\ Word > Size /\ Chunk \in Nat \ {0}
  /\ 0 \in Byte /\ Byte \subseteq 0 .. 255 /\ CharArg \subseteq Int

VARIABLES
  mem,        \* the memory
  memCall     \* the call that was made; before it, fn is "empty" or "filled"

memVars == <<mem, memCall>>

Cell == 0 .. Size - 1
NULL == -1

\* The n cells from a on lie in the memory.
Object(a, n) == a + n <= Size

\* A string begins at a.
StringAt(m, a) == \E c \in Cell : c >= a /\ m[c] = 0

Strings(m) == {p \in Cell : StringAt(m, p)}

Disjoint(a, n, b, k) == a + n <= b \/ b + k <= a

-----------------------------------------------------------------------------
(* Copying.                                                                  *)

MemCpy(m, dst, src, len) ==
  LET after[k \in 0 .. len] ==
        IF k = 0 THEN m ELSE [after[k - 1] EXCEPT ![dst + k - 1] = after[k - 1][src + k - 1]]
  IN after[len]

\* The other branch of memmove, which begins with the last byte.
CopyBackwards(m, dst, src, len) ==
  LET after[k \in 0 .. len] ==
        IF k = 0 THEN m ELSE [after[k - 1] EXCEPT ![dst + len - k] = after[k - 1][src + len - k]]
  IN after[len]

\* Mutant: the difference of the addresses is signed.
MemMoveSigned(m, dst, src, len) ==
  IF dst - src >= len THEN MemCpy(m, dst, src, len) ELSE CopyBackwards(m, dst, src, len)

\* The test is made with the unsigned difference of the addresses.
MemMove(m, dst, src, len) ==
  IF (dst - src) % Word >= len THEN MemCpy(m, dst, src, len) ELSE CopyBackwards(m, dst, src, len)

MemSet(m, ptr, val, count) ==
  LET after[k \in 0 .. count] ==
        IF k = 0 THEN m ELSE [after[k - 1] EXCEPT ![ptr + k - 1] = val % 256]
  IN after[count]

\* A pair of registers stored at a.
StorePair(m, a, pair) == [c \in Cell |-> IF c - a \in DOMAIN pair THEN pair[c - a] ELSE m[c]]

\* zeromem16: whole chunks, then the bytes that are left.
ZeroMem16(m, a, len) ==
  LET after[k \in 0 .. len \div Chunk] ==
        IF k = 0 THEN m ELSE StorePair(after[k - 1], a + (k - 1) * Chunk, [j \in 0 .. Chunk - 1 |-> 0])
  IN MemSet(after[len \div Chunk], a + (len \div Chunk) * Chunk, 0, len % Chunk)

MemCpy16(m, dst, src, len) ==
  LET after[k \in 0 .. len \div Chunk] ==
        IF k = 0 THEN m
        ELSE StorePair(after[k - 1], dst + (k - 1) * Chunk,
                       [j \in 0 .. Chunk - 1 |-> after[k - 1][src + (k - 1) * Chunk + j]])
      whole == (len \div Chunk) * Chunk
  IN MemCpy(after[len \div Chunk], dst + whole, src + whole, len % Chunk)

\* strncpy: up to and with the terminator, then padding.
StrNCpy(m, d, s, n) ==
  LET after[k \in 0 .. n] ==
        IF k = 0 THEN [mem |-> m, ended |-> FALSE]
        ELSE LET now == after[k - 1].mem
                 char == IF after[k - 1].ended THEN 0 ELSE now[s + k - 1]
             IN [mem |-> [now EXCEPT ![d + k - 1] = char], ended |-> char = 0]
  IN after[n].mem

\* strlen, from cursor on
Skip(m, cursor) ==
  LET from[p \in Strings(m)] == IF m[p] = 0 THEN p ELSE from[p + 1]
  IN from[cursor]

StrLen(m, s) == Skip(m, s) - s

\* The first loop of strlcpy: at most n characters, and none after the terminator.
CopyWhatFits(m, dst, src, n) ==
  LET after[k \in 0 .. n] ==
        IF k = 0 THEN [mem |-> m, copied |-> 0, ended |-> FALSE]
        ELSE LET now == after[k - 1].mem
             IN IF after[k - 1].ended THEN after[k - 1]
                ELSE [mem |-> [now EXCEPT ![dst + k - 1] = now[src + k - 1]], copied |-> k,
                      ended |-> now[src + k - 1] = 0]
  IN after[n]

StrLCpy(m, dst, src, dsize) ==
  LET c == CopyWhatFits(m, dst, src, IF dsize = 0 THEN 0 ELSE dsize - 1)
      cut == IF dsize = 0 THEN c.mem ELSE [c.mem EXCEPT ![dst + c.copied] = 0]
  IN IF c.ended THEN [mem |-> c.mem, ret |-> c.copied - 1]
     ELSE [mem |-> cut, ret |-> Skip(cut, src + c.copied) - src]

-----------------------------------------------------------------------------
(* Searching and comparing.                                                  *)

MemChr(m, s, c, len) ==
  LET from[k \in 0 .. len] ==
        IF k = len THEN NULL ELSE IF m[s + k] = c % 256 THEN s + k ELSE from[k + 1]
  IN from[0]

StrNLen(m, s, maxlen) ==
  LET from[k \in 0 .. maxlen] == IF k = maxlen \/ m[s + k] = 0 THEN k ELSE from[k + 1]
  IN from[0]

StrChr(m, p, ch) ==
  LET from[q \in Strings(m)] ==
        IF m[q] = ch % 256 THEN q ELSE IF m[q] = 0 THEN NULL ELSE from[q + 1]
  IN from[p]

\* save after the first k characters; the terminator is the last.
StrRChr(m, p, ch) ==
  LET save[k \in 0 .. StrLen(m, p) + 1] ==
        IF k = 0 THEN NULL ELSE IF m[p + k - 1] = ch % 256 THEN p + k - 1 ELSE save[k - 1]
  IN save[StrLen(m, p) + 1]

MemCmp(m, s, d, len) ==
  LET from[k \in 0 .. len] ==
        IF k = len THEN 0 ELSE IF m[s + k] # m[d + k] THEN m[s + k] - m[d + k] ELSE from[k + 1]
  IN from[0]

StrCmp(m, s1, s2) ==
  LET from[k \in {j \in Cell : StringAt(m, s1 + j) /\ StringAt(m, s2 + j)}] ==
        IF m[s1 + k] # m[s2 + k] THEN m[s1 + k] - m[s2 + k]
        ELSE IF m[s1 + k] = 0 THEN 0 ELSE from[k + 1]
  IN from[0]

StrNCmp(m, s1, s2, n) ==
  LET from[k \in 0 .. n] ==
        IF k = n THEN 0
        ELSE IF m[s1 + k] # m[s2 + k] THEN m[s1 + k] - m[s2 + k]
        ELSE IF m[s1 + k] = 0 THEN 0 ELSE from[k + 1]
  IN from[0]

-----------------------------------------------------------------------------
(* The calls.  The caller passes objects and strings that the functions may  *)
(* access: what would be undefined is not called.                            *)

MemInit == mem = [c \in Cell |-> 0] /\ memCall = [fn |-> "empty"]

Fill ==
  /\ memCall = [fn |-> "empty"]
  /\ mem' \in [Cell -> Byte] /\ memCall' = [fn |-> "filled"]

\* A call of fn with arguments a, b, n has given memory m and returned r.
Called(fn, a, b, n, m, r) ==
  /\ memCall = [fn |-> "filled"]
  /\ mem' = m
  /\ memCall' = [fn |-> fn, a |-> a, b |-> b, n |-> n, old |-> mem, ret |-> r]

Copy ==
  \E d, s \in Cell, n \in 0 .. Size :
    /\ Object(d, n)
    /\ \/ /\ Object(s, n)
          /\ \/ Called("memmove", d, s, n, MemMove(mem, d, s, n), d)
             \/ Disjoint(d, n, s, n) /\ Called("memmove", d, s, n, MemCpy(mem, d, s, n), d)
             \/ /\ Disjoint(d, n, s, n) /\ d % Chunk = 0 /\ s % Chunk = 0
                /\ Called("memmove", d, s, n, MemCpy16(mem, d, s, n), d)
       \/ /\ StringAt(mem, s) /\ Disjoint(d, n, s, StrLen(mem, s) + 1)
          /\ \/ Called("strncpy", d, s, n, StrNCpy(mem, d, s, n), d)
             \/ LET c == StrLCpy(mem, d, s, n) IN Called("strlcpy", d, s, n, c.mem, c.ret)

Set ==
  \E d \in Cell, c \in CharArg, n \in 0 .. Size :
    /\ Object(d, n)
    /\ \/ Called("memset", d, c, n, MemSet(mem, d, c, n), d)
       \/ c = 0 /\ d % Chunk = 0 /\ Called("memset", d, 0, n, ZeroMem16(mem, d, n), d)

Search ==
  \E s \in Cell, c \in CharArg, n \in 0 .. Size :
    \/ Object(s, n) /\ Called("memchr", s, c, n, mem, MemChr(mem, s, c, n))
    \/ /\ StringAt(mem, s)
       /\ \/ Called("strchr", s, c, 0, mem, StrChr(mem, s, c))
          \/ Called("strrchr", s, c, 0, mem, StrRChr(mem, s, c))
          \/ Called("strnlen", s, 0, n, mem, StrNLen(mem, s, n))
          \/ Called("strnlen", s, 0, Size, mem, StrLen(mem, s))

Compare ==
  \E s, d \in Cell, n \in 0 .. Size :
    \/ Object(s, n) /\ Object(d, n) /\ Called("memcmp", s, d, n, mem, MemCmp(mem, s, d, n))
    \/ /\ StringAt(mem, s) /\ StringAt(mem, d)
       /\ \/ Called("strncmp", s, d, Size, mem, StrCmp(mem, s, d))
          \/ Called("strncmp", s, d, n, mem, StrNCmp(mem, s, d, n))

MemNext == Fill \/ Copy \/ Set \/ Search \/ Compare

MemSpec == MemInit /\ [][MemNext]_memVars

-----------------------------------------------------------------------------
(* Properties, in the words of the C standard.                               *)

Made(fns) == memCall.fn \in fns

\* The length of the string at s in the memory as it was before the call.
Length(s) ==
  CHOOSE k \in 0 .. Size - 1 : memCall.old[s + k] = 0 /\ \A j \in 0 .. k - 1 : memCall.old[s + j] # 0

Smaller(i, k) == IF i < k THEN i ELSE k

\* The cells from the destination on hold what the source held before the call,
\* even if the two overlap; a string is cut to the size, and ended (strlcpy) or
\* padded (strncpy) with zeros; no other cell changes, and the result is the
\* destination, or the length of the whole source (strlcpy).
CopiesExact ==
  Made({"memmove", "memset", "strncpy", "strlcpy"}) =>
    LET d == memCall.a  s == memCall.b  n == memCall.n
        kept(k) == CASE memCall.fn = "memmove" -> n
                     [] memCall.fn = "strncpy" -> Smaller(Length(s), n)
                     [] memCall.fn = "strlcpy" -> IF n = 0 THEN 0 ELSE Smaller(Length(s), n - 1)
        written == CASE memCall.fn = "strlcpy" -> IF n = 0 THEN 0 ELSE Smaller(Length(s) + 1, n)
                     [] OTHER -> n
    IN /\ \A c \in Cell :
            mem[c] = IF c - d \notin 0 .. written - 1 THEN memCall.old[c]
                     ELSE IF memCall.fn = "memset" THEN s % 256
                     ELSE IF c - d < kept(0) THEN memCall.old[s + c - d]
                     ELSE 0
       /\ memCall.ret = IF memCall.fn = "strlcpy" THEN Length(s) ELSE d

\* A search gives the first or last occurrence, the terminator included, or none;
\* a comparison has the sign of the first difference before the end.
SearchesExact ==
  /\ Made({"memchr", "strchr", "strrchr"}) =>
       LET s == memCall.a
           n == IF memCall.fn = "memchr" THEN memCall.n ELSE Length(s) + 1
           hits == {p \in s .. s + n - 1 : memCall.old[p] = memCall.b % 256}
       IN /\ memCall.ret = NULL <=> hits = {}
          /\ hits # {} =>
               /\ memCall.ret \in hits
               /\ \A p \in hits : IF memCall.fn = "strrchr" THEN p <= memCall.ret ELSE p >= memCall.ret
  /\ Made({"strnlen"}) => memCall.ret = Smaller(Length(memCall.a), memCall.n)
  /\ Made({"memcmp", "strncmp"}) =>
       LET s == memCall.a  d == memCall.b
           n == IF memCall.fn = "memcmp" THEN memCall.n ELSE Smaller(memCall.n, 1 + Smaller(Length(s), Length(d)))
           differ == {k \in 0 .. n - 1 : memCall.old[s + k] # memCall.old[d + k]}
       IN IF differ = {} THEN memCall.ret = 0
          ELSE LET k == CHOOSE k \in differ : \A j \in differ : k <= j
               IN (memCall.ret > 0 <=> memCall.old[s + k] > memCall.old[d + k]) /\ memCall.ret # 0

\* Each memory or string function does what its callers rely on: cells and results.
MemoryExact == CopiesExact /\ SearchesExact
=============================================================================
