------------------------------- MODULE PowerStates -------------------------------
(***************************************************************************)
(* The enumeration of composite power states of plat/common/               *)
(* plat_state_id.c: one local state per power level, counted like an       *)
(* odometer whose lowest wheel is the lowest level.                        *)
(***************************************************************************)
EXTENDS Integers, Sequences, FiniteSets

CONSTANTS
  StateTables,      \* plat_get_state_prop: for every level, the sequence of its states
  Width             \* 2 ^ PLAT_LOCAL_PSTATE_WIDTH

\* plat_state_prop_t.  An id of 0 ends the table of the platform.
StateProp == [depth : Nat, id : 1 .. Width - 1, pwrdown : 0 .. 1]

\* Every level has a state, and each id once.
ASSUME StateAssumption ==
  /\ Width \in Nat
  /\ \A tables \in StateTables :
       /\ tables \in Seq(Seq(StateProp)) \ {<<>>}
       /\ \A l \in DOMAIN tables :
            /\ tables[l] # <<>>
            /\ \A j, k \in DOMAIN tables[l] : tables[l][j].id = tables[l][k].id => j = k

VARIABLES
  plat_state,                 \* the tables: plat_state_ptr
  power_states_per_level,
  pstate_initialized,
  pstate_id_idx,              \* the caller's array
  walk,                       \* how the caller moves through the states
  requested                   \* the results of tftf_get_pstate_vars, in order

stateVars == <<plat_state, power_states_per_level, pstate_initialized, pstate_id_idx, walk, requested>>

PWR_STATE_INIT_INDEX == -1

Levels == 0 .. Len(plat_state) - 1

StatesInit ==
  /\ plat_state \in StateTables
  /\ power_states_per_level = [l \in Levels |-> 0]
  /\ pstate_initialized = FALSE
  /\ pstate_id_idx = [l \in Levels |-> PWR_STATE_INIT_INDEX]
  /\ walk = [by |-> "none"] /\ requested = <<>>

\* The format of the state ids is asked of the firmware (external).
tftf_init_pstate_framework ==
  /\ ~ pstate_initialized
  /\ power_states_per_level' = [l \in Levels |-> Len(plat_state[l + 1])]
  /\ pstate_initialized' = TRUE
  /\ UNCHANGED <<plat_state, pstate_id_idx, walk, requested>>

Wraps(idx, l) == (idx[l] + 1) = power_states_per_level[l]

\* Mutant: a wheel that turns over stops the carry.
NextStateIdNoCarry(idx, power_level) ==
  [l \in Levels |-> IF l > 0 THEN idx[l] ELSE IF Wraps(idx, l) THEN 0 ELSE idx[l] + 1]

\* The wheels below the first that does not turn over become 0; if all turn over,
\* all are reset.
NextStateId(idx, power_level) ==
  IF \A l \in 0 .. power_level : Wraps(idx, l)
  THEN [l \in Levels |-> IF l <= power_level THEN PWR_STATE_INIT_INDEX ELSE idx[l]]
  ELSE LET stop == CHOOSE l \in 0 .. power_level :
                     ~ Wraps(idx, l) /\ \A k \in 0 .. l - 1 : Wraps(idx, k)
       IN [l \in Levels |-> CASE l < stop -> 0 [] l = stop -> idx[l] + 1 [] OTHER -> idx[l]]

\* The state at index k, or the one with id 0 that ends the table.
LocalState(l, k) ==
  IF k < Len(plat_state[l + 1]) THEN plat_state[l + 1][k + 1] ELSE [depth |-> 0, id |-> 0, pwrdown |-> 0]

\* The highest level with a valid index, from which the loop goes no further.
Top(idx) ==
  CHOOSE l \in Levels : /\ \A k \in 0 .. l : idx[k] # PWR_STATE_INIT_INDEX
                        /\ l + 1 \in Levels => idx[l + 1] = PWR_STATE_INIT_INDEX

\* 2 ^ (l * PLAT_LOCAL_PSTATE_WIDTH): an id is shifted by the place of its level.
Unit[l \in Nat] == IF l = 0 THEN 1 ELSE Width * Unit[l - 1]

\* Mutant: suspend_depth keeps the depth of the lowest level.
LevelAddedLowestDepth(below, s, l) ==
  [id |-> below.id + s.id * Unit[l],
   type |-> IF s.pwrdown > below.type THEN s.pwrdown ELSE below.type,
   depth |-> below.depth,
   ok |-> below.ok /\ s.depth <= below.depth]

\* One turn of the loop of tftf_get_pstate_vars, with the local state s of level l.
LevelAdded(below, s, l) ==
  [id |-> below.id + s.id * Unit[l],
   type |-> IF s.pwrdown > below.type THEN s.pwrdown ELSE below.type,
   depth |-> IF s.depth > below.depth THEN below.depth ELSE s.depth,
   ok |-> below.ok /\ s.depth <= below.depth]

\* The loop up to the level `top'; before it the state at level 0 is looked at.
PStateUpTo(idx, top) ==
  LET s(l) == LocalState(l, idx[l])
      first == [id |-> 0, type |-> s(0).pwrdown, depth |-> s(0).depth, ok |-> TRUE]
      upto[l \in 0 .. top] == LevelAdded(IF l = 0 THEN first ELSE upto[l - 1], s(l), l)
  IN upto[top]

tftf_get_pstate_vars(idx) ==
  LET r == PStateUpTo(idx, Top(idx))
  IN [idx |-> idx, level |-> Top(idx), id |-> r.id, type |-> r.type, ok |-> r.ok]

\* Moves to an index and asks for its variables, unless it is the end.
Visit(idx, w) ==
  /\ pstate_id_idx' = idx
  /\ walk' = w
  /\ requested' = IF idx[0] = PWR_STATE_INIT_INDEX THEN requested ELSE Append(requested, tftf_get_pstate_vars(idx))
  /\ UNCHANGED <<plat_state, power_states_per_level, pstate_initialized>>

\* A test case goes through all states up to a power level.
SetNextStateId ==
  \E power_level \in Levels :
    /\ pstate_initialized
    /\ walk \in {[by |-> "none"], [by |-> "states", level |-> power_level]}
    /\ LET idx == NextStateId(pstate_id_idx, power_level)
       IN Visit(idx, [by |-> IF idx[0] = PWR_STATE_INIT_INDEX THEN "states ended" ELSE "states",
                      level |-> power_level])

\* tftf_set_next_local_state_id_idx, above the state 0 of the lower levels
SetNextLocalStateId ==
  \E power_level \in Levels :
    /\ pstate_initialized
    /\ walk \in {[by |-> "none"], [by |-> "local", level |-> power_level]}
    /\ LET start == [l \in Levels |-> IF l < power_level THEN 0 ELSE pstate_id_idx[l]]
           ended == pstate_id_idx[power_level] + 1 >= power_states_per_level[power_level]
           idx == [start EXCEPT ![power_level] = IF ended THEN PWR_STATE_INIT_INDEX ELSE @ + 1]
       IN Visit(idx, [by |-> IF ended THEN "local ended" ELSE "local", level |-> power_level])

SetDeepest ==
  \E power_level \in Levels :
    /\ pstate_initialized /\ walk.by = "none"
    /\ Visit([l \in Levels |-> IF l <= power_level THEN power_states_per_level[l] - 1
                              ELSE pstate_id_idx[l]],
             [by |-> "deepest", level |-> power_level])

StatesNext ==
  tftf_init_pstate_framework \/ SetNextStateId \/ SetNextLocalStateId \/ SetDeepest

StatesSpec == StatesInit /\ [][StatesNext]_stateVars

-----------------------------------------------------------------------------
(* Properties.                                                               *)

\* The indices of a composite state: valid up to some level, not set above.
Composite(top) ==
  {idx \in [Levels -> {-1} \cup UNION {0 .. power_states_per_level[l] - 1 : l \in Levels}] :
     \A l \in Levels : IF l <= top THEN idx[l] \in 0 .. power_states_per_level[l] - 1 ELSE idx[l] = -1}

Visited == {requested[k].idx : k \in DOMAIN requested}

\* A walk over all states up to a level ends with the array reset after it has met
\* every composite state of every level up to it, none twice; a walk over the states
\* of one level meets all of them.
OdometerComplete ==
  /\ walk.by \in {"states", "states ended"} =>
       /\ Cardinality(Visited) = Len(requested)
       /\ walk.by = "states ended" =>
            /\ Visited = UNION {Composite(l) : l \in 0 .. walk.level}
            /\ pstate_id_idx = [l \in Levels |-> PWR_STATE_INIT_INDEX]
  /\ walk.by = "local ended" =>
       /\ {idx[walk.level] : idx \in Visited} \ {PWR_STATE_INIT_INDEX}
            = 0 .. power_states_per_level[walk.level] - 1
       /\ pstate_id_idx[walk.level] = PWR_STATE_INIT_INDEX

\* Different composite states have different ids, which hold the local ids; a state is
\* refused if and only if some level would sleep more deeply than a level below it, and
\* it powers down if one of its levels does.
CompositeSound ==
  \A k \in DOMAIN requested :
    LET v == requested[k]
        s(l) == LocalState(l, v.idx[l])
    IN /\ \A j \in DOMAIN requested : requested[j].id = v.id /\ requested[j].level = v.level => requested[j].idx = v.idx
       /\ v.ok <=> \A l \in 1 .. v.level : s(l).depth <= s(l - 1).depth
       /\ v.type = IF \E l \in 0 .. v.level : s(l).pwrdown = 1 THEN 1 ELSE 0
       /\ \A l \in 0 .. v.level : (v.id \div Unit[l]) % Width = s(l).id
=============================================================================
