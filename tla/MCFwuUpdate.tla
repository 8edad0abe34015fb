----------------------------- MODULE MCFwuUpdate -----------------------------
(* Instances of FwuUpdate for TLC: eight sectors, the backup area from       *)
(* sector 4 on, and the chains of FIPs the runs start from.                  *)
EXTENDS FwuUpdate, Sequences

MCContent == (0 .. 7) \cup {Erased, Torn, Cleared}

\* A FIP: its base, its size, the END_OF_FILE flag, and its ToC entries
\* <<destination, source, length>>.
Fip(b, z, e, toc) == [base |-> b, size |-> z, eof |-> e, term |-> TRUE, toc |-> toc]

Chain(fips) ==
  [n          |-> Len(fips),
   base       |-> [f \in DOMAIN fips |-> fips[f].base],
   size       |-> [f \in DOMAIN fips |-> fips[f].size],
   terminated |-> [f \in DOMAIN fips |-> fips[f].term],
   eof        |-> [f \in DOMAIN fips |-> fips[f].eof],
   ents       |-> [f \in DOMAIN fips |-> Len(fips[f].toc)],
   dst |-> [f \in DOMAIN fips |-> [i \in DOMAIN fips[f].toc |-> fips[f].toc[i][1]]],
   src |-> [f \in DOMAIN fips |-> [i \in DOMAIN fips[f].toc |-> fips[f].toc[i][2]]],
   len |-> [f \in DOMAIN fips |-> [i \in DOMAIN fips[f].toc |-> fips[f].toc[i][3]]]]

\* No update; one FIP; two FIPs ended by the flag or by the absence of a third;
\* an empty entry; images in descending order with a gap; an image in the last
\* sector of the part, whose second erase is addressed past the end.
SafePackages ==
  { Chain(<<>>),
    Chain(<<Fip(4, 2, TRUE, <<<<0, 0, 2>>>>)>>),
    Chain(<<Fip(4, 2, FALSE, <<<<0, 1, 1>>, <<1, 0, 0>>>>),
            Fip(6, 1, FALSE, <<<<1, 0, 1>>>>)>>),
    Chain(<<Fip(4, 2, FALSE, <<<<2, 1, 1>>>>),
            Fip(6, 2, TRUE, <<<<0, 0, 1>>>>)>>),
    Chain(<<Fip(4, 2, TRUE, <<<<7, 1, 1>>, <<0, 0, 1>>, <<1, 1, 1>>>>)>>) }

\* Two adjacent images listed from the higher to the lower address.
DescendingPackages ==
  { Chain(<<Fip(4, 2, TRUE, <<<<1, 0, 1>>, <<0, 1, 1>>>>)>>) }

\* A package that says it is empty; one without a null entry; an image past the
\* end of the flash; one that runs over the end; FIPs that end at, and run over,
\* the end of the flash; adjacent images in descending order.
BadPackages ==
  { Chain(<<Fip(4, 0, TRUE, <<<<0, 1, 1>>>>)>>),
    Chain(<<[Fip(4, 2, FALSE, <<<<0, 1, 1>>>>) EXCEPT !.term = FALSE]>>),
    Chain(<<Fip(4, 2, TRUE, <<<<0, 0, 1>>, <<8, 1, 1>>>>)>>),
    Chain(<<Fip(4, 2, TRUE, <<<<7, 0, 2>>, <<2, 0, 1>>>>)>>),
    Chain(<<Fip(4, 4, FALSE, <<<<0, 2, 2>>>>)>>),
    Chain(<<Fip(4, 5, TRUE, <<<<0, 2, 2>>>>)>>),
    Chain(<<Fip(4, 2, FALSE, <<<<1, 0, 1>>>>), Fip(6, 1, TRUE, <<<<0, 0, 1>>>>)>>) }

ASSUME SafeInstance ==
  \A p \in SafePackages : WellFormed(p) /\ LayoutSafe(p)

MCPastEnd == {0, 8}
=============================================================================
