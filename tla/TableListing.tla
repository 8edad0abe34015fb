----------------------------- MODULE TableListing -----------------------------
(***************************************************************************)
(* The listing of the finished tables that a verbose build prints between  *)
(* init_xlat_tables and enable_mmu.                                        *)
(***************************************************************************)
EXTENDS MmuSetup

(* xlat_tables_print: the lines that tell where an address is mapped.        *)

\* Mutant: the first of a row is counted among those omitted.
OmittedAll(l, count) ==
  IF count > 1 THEN <<[kind |-> "omitted", level |-> l, count |-> count]>> ELSE <<>>

\* The line for the descriptors of a row behind its first.
Omitted(l, count) ==
  IF count > 1 THEN <<[kind |-> "omitted", level |-> l, count |-> count - 1]>> ELSE <<>>

\* xlat_desc_print
DescPrint(d) ==
  [mem |-> d.mem, rw |-> IF d.write THEN "-RW" ELSE "-RO", xn |-> IF d.xn THEN "-XN" ELSE "-EXEC",
   user |-> IF Regime # "EL1&0" THEN "" ELSE IF d.user THEN "-USER" ELSE "-PRIV",
   ns |-> IF d.ns THEN "-NS" ELSE "-S"]

\* xlat_tables_print_internal from entry i of table t on, which translates the
\* addresses from va on; row invalid descriptors come right before it.
RECURSIVE PrintTable(_, _, _, _, _)
PrintTable(t, i, va, l, row) ==
  IF i \notin Indexes(t) THEN Omitted(l, row)
  ELSE
    LET d == tables[t][i]
        rest(n) == PrintTable(t, i + 1, va + BlockSize(l), l, n)
        line == [kind |-> d.type, level |-> l, va |-> va]
    IN CASE d.type = "invalid" -> (IF row = 0 THEN <<line>> ELSE <<>>) \o rest(row + 1)
         [] d.type = "table" ->
              Omitted(l, row) \o <<line>> \o PrintTable(d.to, 0, va, l + 1, 0) \o rest(0)
         [] d.type = "leaf" ->
              Omitted(l, row) \o <<[kind |-> "leaf", level |-> l, va |-> va, pa |-> d.pa,
                                    attr |-> DescPrint(d)]>> \o rest(0)

\* xlat_tables_print
TablesPrint == [used |-> next_table - 1, lines |-> PrintTable(0, 0, 0, BaseLevel, 0)]

-----------------------------------------------------------------------------
(* Properties.                                                               *)

\* The lines read in order tell of every address once, and truly: entries that
\* are not valid only where an access faults, blocks with the address and
\* rights of the translation, as many table lines as subtables in use.
ListingExact ==
  LET lines == TablesPrint.lines
      size(n) == BlockSize(lines[n].level) *
                   CASE lines[n].kind = "table" -> 0
                     [] lines[n].kind = "omitted" -> lines[n].count
                     [] OTHER -> 1
      first[n \in 1 .. Len(lines) + 1] == IF n = 1 THEN 0 ELSE first[n - 1] + size(n - 1)
  IN pc = "done" /\ step = "idle" =>
       /\ first[Len(lines) + 1] = VaMax + 1
       /\ Cardinality({n \in DOMAIN lines : lines[n].kind = "table"}) = TablesPrint.used
       /\ \A n \in DOMAIN lines :
            /\ "va" \in DOMAIN lines[n] => lines[n].va = first[n]
            /\ \A a \in first[n] .. first[n] + size(n) - 1 :
                 IF lines[n].kind = "leaf"
                 THEN LET w == Wanted(a) IN
                      /\ w.pa = lines[n].pa + a - first[n]
                      /\ lines[n].attr =
                           [mem |-> w.mem, rw |-> IF w.write THEN "-RW" ELSE "-RO",
                            xn |-> IF w.exec THEN "-EXEC" ELSE "-XN",
                            user |-> IF Regime # "EL1&0" THEN "" ELSE IF w.user THEN "-USER" ELSE "-PRIV",
                            ns |-> IF w.ns THEN "-NS" ELSE "-S"]
                 ELSE Wanted(a) = Fault
=============================================================================
