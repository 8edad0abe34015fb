------------------------------- MODULE MCLibrary -------------------------------
EXTENDS LibcMemory, LibcPrint, PowerDomains, PowerStates, ImageLoader

TinyChars == {0, 1, 2, 129}
TinyCharArgs == {-127, 0, 1, 256}

Text(chars) == [conv |-> "text", flag |-> <<>>, width |-> 0, l |-> 0, num |-> 0, text |-> chars]

Forms ==
  {[conv |-> c, flag |-> fl, width |-> w, l |-> l, num |-> 0, text |-> <<>>] :
     c \in {"d", "i", "u", "x", "p", "s", "c"}, fl \in {<<>>, <<"0">>, <<"-">>},
     w \in {0, 1, 4, 10}, l \in 0 .. 2}

\* One field of every kind, signs, lengths, flags and widths up to two digits.
Given(f) ==
  IF f.conv = "s" THEN {[f EXCEPT !.text = t] : t \in {<<>>, <<"a">>, <<"a", "b", "c">>}}
  ELSE {[f EXCEPT !.num = n] : n \in
          CASE f.conv \in {"d", "i"} -> IF f.l = 0 THEN {-12, -1, 0, 7} ELSE {-40, 9, 40}
            [] f.conv \in {"u", "x"} -> IF f.l = 0 THEN {-1, 0, 26} ELSE {-1, 63}
            [] f.conv = "p" -> {0, 5, 63}
            [] OTHER -> {0}}

OneField ==
  UNION {Given(f) : f \in {g \in Forms : /\ g.flag # <<>> => g.width # 0
                                         /\ g.conv \in {"p", "s", "c"} => g.l = 0
                                         /\ g.conv = "s" => g.flag # <<"0">>}}

Few == {f \in OneField : /\ f.width \in {0, 4} /\ f.l = 0 /\ f.num \in {-12, 0, 26, 63}
                         /\ f.conv = "s" => f.text = <<"a">>}

MCFields ==
  {<<f>> : f \in OneField}
    \cup {<<Text(<<"a", "b">>)>>, <<Text(<<>>)>>}
    \cup {<<Text(<<"a">>), f, g, Text(<<"b">>)>> : f \in Few, g \in Few}

\* Trees of two and three levels with every choice of absent CPUs but all.
Tree(max_afflvl, desc, cores, affs) ==
  {[max_afflvl |-> max_afflvl, desc |-> desc, cores |-> cores, affs |-> affs, absent |-> a] :
     a \in (SUBSET (0 .. cores - 1)) \ {0 .. cores - 1}}

MCPlatforms ==
  Tree(1, <<1, 1>>, 1, 2) \cup Tree(1, <<3, 2, 1, 2>>, 5, 8) \cup Tree(2, <<1, 2, 2, 1>>, 3, 6)
    \cup Tree(2, <<2, 2, 1, 1, 2, 1>>, 4, 9)

State(depth, id, pwrdown) == [depth |-> depth, id |-> id, pwrdown |-> pwrdown]

\* Retention and power down at each level, some too deep for the level below.
MCStateTables ==
  {<<<<State(1, 1, 0), State(2, 2, 1), State(3, 3, 1)>>,
     <<State(1, 1, 0), State(3, 2, 1)>>, <<State(2, 3, 1), State(3, 1, 1)>>>>,
   <<<<State(2, 1, 0), State(1, 3, 0)>>, <<State(2, 2, 1)>>>>,
   <<<<State(1, 1, 1)>>>>}

\* Three images behind two devices.
MCDevice(i) == IF i = "fwu_fip" THEN "memmap" ELSE "fip"

\* The modules share nothing: a behaviour exercises one, the others stay as they begin.
VARIABLE used

Init ==
  /\ MemInit /\ PrintInit /\ PowerInit /\ StatesInit /\ LoaderInit
  /\ used \in {"memory", "print", "power", "states", "images"}
  /\ used # "power" => plat = CHOOSE p \in MCPlatforms : TRUE
  /\ used # "states" => plat_state = CHOOSE t \in MCStateTables : TRUE

Next ==
  /\ UNCHANGED used
  /\ \/ used = "memory" /\ MemNext /\ UNCHANGED <<printVars, powerVars, stateVars, loaderVars>>
     \/ used = "print" /\ PrintNext /\ UNCHANGED <<memVars, powerVars, stateVars, loaderVars>>
     \/ used = "power" /\ PowerNext /\ UNCHANGED <<memVars, printVars, stateVars, loaderVars>>
     \/ used = "states" /\ StatesNext /\ UNCHANGED <<memVars, printVars, powerVars, loaderVars>>
     \/ used = "images" /\ LoaderNext /\ UNCHANGED <<memVars, printVars, powerVars, stateVars>>

Spec == Init /\ [][Next]_<<used, memVars, printVars, powerVars, stateVars, loaderVars>>
=============================================================================
