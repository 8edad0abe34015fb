------------------------------- MODULE LibcPrint -------------------------------
(***************************************************************************)
(* printf, snprintf, puts and putchar of lib/libc.  A character is a       *)
(* one-letter string, a format a sequence of them; the parser of the       *)
(* format is the loop of the code.  int has IntBits bits, long, long long  *)
(* and size_t have LongBits (AArch64).  A behaviour makes one call.        *)
(***************************************************************************)
EXTENDS Integers, Sequences, FiniteSets

CONSTANTS
  IntBits, LongBits,
  BufferSize,     \* cells behind the pointer given to snprintf
  Fields          \* sequences of fields: what the caller wants to have printed

ASSUME PrintAssumption ==
  /\ IntBits \in Nat \ {0} /\ LongBits \in Nat /\ IntBits < LongBits
  /\ BufferSize \in Nat
  /\ \A fs \in Fields : \A k \in DOMAIN fs :
       DOMAIN fs[k] = {"conv", "flag", "width", "l", "num", "text"}

VARIABLES
  out,            \* what went to the console
  buffer,         \* the cells given to snprintf
  printCall       \* the call that was made, or fn is "none"

printVars == <<out, buffer, printCall>>

NUL == "NUL"      \* the character '\0'
EOF == -1

Digit == <<"0", "1", "2", "3", "4", "5", "6", "7", "8", "9", "a", "b", "c", "d", "e", "f">>
Decimal == {Digit[k] : k \in 1 .. 10}
ValueOf(ch) == CHOOSE k \in 0 .. 9 : Digit[k + 1] = ch

Repeat(ch, n) == [k \in 1 .. n |-> ch]

-----------------------------------------------------------------------------
(* Formats, as the caller writes them.                                       *)

RECURSIVE Numeral(_, _)
Numeral(n, radix) ==
  (IF n < radix THEN <<>> ELSE Numeral(n \div radix, radix)) \o <<Digit[(n % radix) + 1]>>

Spell(field) ==
  IF field.conv = "text" THEN field.text
  ELSE <<"%">> \o field.flag \o (IF field.width = 0 THEN <<>> ELSE Numeral(field.width, 10))
       \o Repeat("l", field.l) \o <<field.conv>>

RECURSIVE Format(_), Arguments(_)
Format(fs) == IF fs = <<>> THEN <<>> ELSE Spell(Head(fs)) \o Format(Tail(fs))
Arguments(fs) ==
  IF fs = <<>> THEN <<>>
  ELSE (CASE Head(fs).conv = "text" -> <<>>
          [] Head(fs).conv = "s" -> <<Head(fs).text>>
          [] OTHER -> <<Head(fs).num>>) \o Arguments(Tail(fs))

-----------------------------------------------------------------------------
(* The parser of the specifier, which the two functions share but for %z.    *)

At(fmt, i) == IF i <= Len(fmt) THEN fmt[i] ELSE NUL

RECURSIVE Padn(_, _, _)
Padn(fmt, i, padn) ==
  IF At(fmt, i) \in Decimal THEN Padn(fmt, i + 1, padn * 10 + ValueOf(At(fmt, i)))
  ELSE [at |-> i, padn |-> padn]

\* Mutant: the width stays positive after '-'.
RECURSIVE SpecifierRight(_, _)
SpecifierRight(fmt, s) ==
  LET c == At(fmt, s.at)
      p == Padn(fmt, s.at, 0)
  IN CASE c = "0" ->
            SpecifierRight(fmt, [s EXCEPT !.at = p.at, !.padc = "0", !.padn = p.padn])
       [] c \in Decimal \ {"0"} ->
            SpecifierRight(fmt, [s EXCEPT !.at = p.at, !.padc = " ", !.padn = p.padn])
       [] c = "-" -> SpecifierRight(fmt, [s EXCEPT !.at = @ + 1, !.left = TRUE])
       [] c = "l" -> SpecifierRight(fmt, [s EXCEPT !.at = @ + 1, !.l = @ + 1])
       [] c = "z" /\ s.z -> SpecifierRight(fmt, [s EXCEPT !.at = @ + 1, !.l = 2])
       [] OTHER -> s

RECURSIVE Specifier(_, _)
Specifier(fmt, s) ==
  LET c == At(fmt, s.at)
      p == Padn(fmt, s.at, 0)
  IN CASE c = "0" ->
            Specifier(fmt, [s EXCEPT !.at = p.at, !.padc = "0", !.padn = p.padn])
       [] c \in Decimal \ {"0"} ->
            Specifier(fmt, [s EXCEPT !.at = p.at, !.padc = " ",
                                     !.padn = IF s.left THEN -p.padn ELSE p.padn])
       [] c = "-" -> Specifier(fmt, [s EXCEPT !.at = @ + 1, !.left = TRUE])
       [] c = "l" -> Specifier(fmt, [s EXCEPT !.at = @ + 1, !.l = @ + 1])
       [] c = "z" /\ s.z -> Specifier(fmt, [s EXCEPT !.at = @ + 1, !.l = 2])
       [] OTHER -> s

SpecifierAt(fmt, i, z) ==
  Specifier(fmt, [at |-> i, l |-> 0, left |-> FALSE, padc |-> NUL, padn |-> 0, z |-> z])

Bits(l) == IF l = 0 THEN IntBits ELSE LongBits

\* get_unum_va_args
Unsigned(arg, l) == arg % (2 ^ Bits(l))

\* A value assigned to an int.
ToInt(v) == ((v + 2 ^ (IntBits - 1)) % (2 ^ IntBits)) - 2 ^ (IntBits - 1)

\* Both loops that pad: padn characters at the left, or -padn at the right.
Padded(chars, padc, padn) ==
  LET missing(n) == IF n > Len(chars) THEN Repeat(padc, n - Len(chars)) ELSE <<>>
  IN missing(padn) \o chars \o missing(-padn)

-----------------------------------------------------------------------------
(* printf                                                                    *)

\* What one conversion of vprintf prints, and what it adds to count.
Conversion(s, c, arg) ==
  LET counted(chars) == [out |-> chars, count |-> Len(chars)]
  IN CASE c \in {"d", "i"} ->
            IF arg < 0
            THEN LET digits == Padded(Numeral(-arg, 10), s.padc, s.padn - 1)
                 IN [out |-> <<"-">> \o digits, count |-> Len(digits)]
            ELSE counted(Padded(Numeral(arg, 10), s.padc, s.padn))
       [] c = "s" -> counted(Padded(arg, s.padc, s.padn))
       [] c = "p" ->
            counted(IF arg > 0 THEN <<"0", "x">> \o Padded(Numeral(arg, 16), s.padc, s.padn - 2)
                    ELSE Padded(Numeral(arg, 16), s.padc, s.padn))
       [] c = "x" -> counted(Padded(Numeral(Unsigned(arg, s.l), 16), s.padc, s.padn))
       [] c = "u" -> counted(Padded(Numeral(Unsigned(arg, s.l), 10), s.padc, s.padn))

RECURSIVE VPrintf(_, _, _, _)
VPrintf(fmt, i, args, done) ==
  LET s == SpecifierAt(fmt, i + 1, TRUE)
      c == At(fmt, s.at)
      r == Conversion(s, c, Head(args))
  IN CASE i > Len(fmt) -> [out |-> done.out, ret |-> done.count]
       [] At(fmt, i) = "%" /\ c \in {"d", "i", "s", "p", "x", "u"} ->
            VPrintf(fmt, s.at + 1, Tail(args),
                    [out |-> done.out \o r.out, count |-> done.count + r.count])
       [] At(fmt, i) = "%" /\ c \notin {"d", "i", "s", "p", "x", "u"} ->
            [out |-> done.out, ret |-> -1]
       [] OTHER ->
            VPrintf(fmt, i + 1, args,
                    [out |-> Append(done.out, fmt[i]), count |-> done.count + 1])

PrintF(fs) == VPrintf(Format(fs), 1, Arguments(fs), [out |-> <<>>, count |-> 0])

-----------------------------------------------------------------------------
(* snprintf.  w is the buffer, the next cell, and the characters counted.    *)

\* Mutant: the character that fills the buffer is written as well.
PutLast(w, n, ch) ==
  [buffer |-> IF w.count <= n THEN [w.buffer EXCEPT ![w.s] = ch] ELSE w.buffer,
   s |-> IF w.count <= n THEN w.s + 1 ELSE w.s, count |-> w.count + 1]

Put(w, n, ch) ==
  [buffer |-> IF w.count < n THEN [w.buffer EXCEPT ![w.s] = ch] ELSE w.buffer,
   s |-> IF w.count < n THEN w.s + 1 ELSE w.s, count |-> w.count + 1]

RECURSIVE PutAll(_, _, _)
PutAll(w, n, chars) ==
  IF chars = <<>> THEN w ELSE PutAll(Put(w, n, Head(chars)), n, Tail(chars))

SnConversion(s, c, arg) ==
  CASE c \in {"d", "i"} ->
         LET num == ToInt(arg)
         IN IF num < 0 THEN <<"-">> \o Padded(Numeral(-num, 10), s.padc, s.padn)
            ELSE Padded(Numeral(num, 10), s.padc, s.padn)
    [] c = "s" -> arg
    [] c = "x" -> Padded(Numeral(Unsigned(arg, s.l), 16), s.padc, s.padn)
    [] c = "u" -> Padded(Numeral(Unsigned(arg, s.l), 10), s.padc, s.padn)

RECURSIVE SnLoop(_, _, _, _, _)
SnLoop(fmt, i, args, n, w) ==
  LET s == SpecifierAt(fmt, i + 1, FALSE)
      c == At(fmt, s.at)
  IN CASE i > Len(fmt) ->
            [buffer |-> IF n > 0 THEN [w.buffer EXCEPT ![w.s] = NUL] ELSE w.buffer, ret |-> w.count]
       [] At(fmt, i) = "%" /\ c \in {"d", "i", "s", "x", "u"} ->
            SnLoop(fmt, s.at + 1, Tail(args), n, PutAll(w, n, SnConversion(s, c, Head(args))))
       [] At(fmt, i) = "%" /\ c \notin {"d", "i", "s", "x", "u"} ->
            [buffer |-> w.buffer, ret |-> -1]
       [] OTHER -> SnLoop(fmt, i + 1, args, n, Put(w, n, fmt[i]))

\* One cell is kept for the terminator; a single cell only takes that.
VSnprintf(b, n, fmt, args) ==
  SnLoop(fmt, 1, args, IF n <= 1 THEN 0 ELSE n - 1,
         [buffer |-> IF n = 1 THEN [b EXCEPT ![0] = NUL] ELSE b, s |-> 0, count |-> 0])

-----------------------------------------------------------------------------
(* The calls.  console_putc may refuse characters (external).                *)

Untouched == [c \in 0 .. BufferSize - 1 |-> "?"]

PrintInit == out = <<>> /\ buffer = Untouched /\ printCall = [fn |-> "none"]

CallPrintF ==
  /\ printCall.fn = "none"
  /\ \E fs \in Fields :
       /\ out' = PrintF(fs).out
       /\ printCall' = [fn |-> "printf", fs |-> fs, ret |-> PrintF(fs).ret]
  /\ UNCHANGED buffer

CallSnprintf ==
  /\ printCall.fn = "none"
  /\ \E fs \in Fields, n \in 0 .. BufferSize :
       LET r == VSnprintf(buffer, n, Format(fs), Arguments(fs))
       IN /\ buffer' = r.buffer
          /\ printCall' = [fn |-> "snprintf", fs |-> fs, n |-> n, ret |-> r.ret]
  /\ UNCHANGED out

\* puts gives up at the first character that is refused, here the one after `taken`.
Puts ==
  /\ printCall.fn = "none"
  /\ \E fs \in {f \in Fields : Len(f) = 1 /\ f[1].conv = "text"} :
       LET line == fs[1].text \o <<"\n">>
       IN \E taken \in 0 .. Len(line) :
            /\ out' = SubSeq(line, 1, taken)
            /\ printCall' = [fn |-> "puts", fs |-> fs,
                             ret |-> IF taken < Len(line) THEN EOF ELSE Len(line)]
  /\ UNCHANGED buffer

PrintNext == CallPrintF \/ CallSnprintf \/ Puts

-----------------------------------------------------------------------------
(* Properties.                                                               *)

\* The parts of a field as the C standard has them.
Sign(f) == CASE f.conv \in {"d", "i"} /\ f.num < 0 -> <<"-">>
             [] f.conv = "p" /\ f.num > 0 -> <<"0", "x">>
             [] OTHER -> <<>>
Body(f) == CASE f.conv = "s" -> f.text
             [] f.conv \in {"d", "i"} -> Numeral(IF f.num < 0 THEN -f.num ELSE f.num, 10)
             [] f.conv = "u" -> Numeral(Unsigned(f.num, f.l), 10)
             [] f.conv = "x" -> Numeral(Unsigned(f.num, f.l), 16)
             [] f.conv = "p" -> Numeral(f.num, 16)
             [] OTHER -> f.text

Standard(f) ==
  LET room == f.width - Len(Sign(f)) - Len(Body(f))
      fill(ch) == Repeat(ch, IF room > 0 THEN room ELSE 0)
  IN CASE f.flag = <<"-">> -> Sign(f) \o Body(f) \o fill(" ")
       [] f.flag = <<"0">> -> Sign(f) \o fill("0") \o Body(f)
       [] OTHER -> fill(" ") \o Sign(f) \o Body(f)

RECURSIVE Concat(_)
Concat(fs) == IF fs = <<>> THEN <<>> ELSE Standard(Head(fs)) \o Concat(Tail(fs))

Supported(fs, convs) == \A k \in DOMAIN fs : fs[k].conv \in convs \cup {"text"}

PrintfConvs == {"d", "i", "s", "p", "x", "u"}
Negative(f) == f.conv \in {"d", "i"} /\ f.num < 0

\* A sign or prefix is put before the padding, and counted twice by %-: the fields
\* that come out right are those without one, or zero-filled.
Plain(f) == Sign(f) = <<>> \/ (f.flag = <<"0">> /\ f.width >= Len(Sign(f)) + Len(Body(f)))

\* The side, the width and the fill asked for are those printed, field after field, and
\* the result counts every character.  The first is said of fields that are Plain, the
\* second of prints without a minus sign, which putchar writes uncounted.
PrintfFields ==
  printCall.fn = "printf" =>
    LET fs == printCall.fs
    IN IF ~ Supported(fs, PrintfConvs) THEN printCall.ret = -1
       ELSE /\ (\A k \in DOMAIN fs : ~ Negative(fs[k])) => printCall.ret = Len(out)
            /\ (\A k \in DOMAIN fs : Plain(fs[k])) => out = Concat(fs)

\* However small the buffer, snprintf stays inside it, ends the text, writes the
\* beginning of what a large buffer would get, and returns the length of the whole.
\* The text is the one printf prints if strings have no width and ints have no sign
\* that meets one.
SnprintfBounded ==
  printCall.fn = "snprintf" =>
    LET fs == printCall.fs
        n == printCall.n
        whole == Concat([k \in DOMAIN fs |->
                           IF fs[k].conv = "s" THEN [fs[k] EXCEPT !.width = 0] ELSE fs[k]])
        fits(k) == fs[k].conv \in {"d", "i"} =>
                     /\ ToInt(fs[k].num) = fs[k].num
                     /\ fs[k].num < 0 => fs[k].width <= 1
    IN /\ \A c \in n .. BufferSize - 1 : buffer[c] = "?"
       /\ Supported(fs, {"d", "i", "s", "x", "u"}) =>
            /\ n > 0 => buffer[IF printCall.ret < n THEN printCall.ret ELSE n - 1] = NUL
            /\ (\A k \in DOMAIN fs : fits(k)) =>
                 /\ printCall.ret = Len(whole)
                 /\ \A c \in 0 .. n - 2 : c < Len(whole) => buffer[c] = whole[c + 1]
=============================================================================
