------------------------------ MODULE PowerDomains ------------------------------
(***************************************************************************)
(* The power domain tree of plat/common/plat_topology.c: its construction, *)
(* one level and then one CPU at a time, the iterations over it with their *)
(* assertions, and the queries for another CPU.                            *)
(***************************************************************************)
EXTENDS Integers, Sequences, FiniteSets

CONSTANT
  Platforms   \* what a platform exports: [max_afflvl, desc, cores, affs, absent]

\* How many nodes the first n entries of a description make.
NodesMade(desc) ==
  LET made[n \in 0 .. Len(desc)] == IF n = 0 THEN 0 ELSE made[n - 1] + desc[n]
  IN made

\* Where the levels of a platform begin among its nodes, from the top: behind entry 0,
\* which stands for the root, every node above the CPUs has an entry, in their order.
LevelStarts(p) ==
  LET start[k \in 0 .. p.max_afflvl + 1] ==
        IF k = 0 THEN 0 ELSE NodesMade(p.desc)[1 + start[k - 1]]
  IN start

\* desc is plat_array, which the platform shapes as PLATFORM_MAX_AFFLVL, PLATFORM_NUM_AFFS
\* and PLATFORM_CORE_COUNT say: populate_power_domain_tree asserts that its loops do not
\* leave the description nor make more CPUs, and end at the last node.  absent are the
\* core positions without a CPU.
ASSUME PlatformAssumption ==
  \A p \in Platforms :
    /\ p.max_afflvl \in Nat \ {0} /\ p.desc \in Seq(Nat \ {0})
    /\ p.cores \in Nat /\ p.affs \in Nat
    /\ p.affs - p.cores + 1 = Len(p.desc)
    /\ \A k \in 0 .. p.max_afflvl : LevelStarts(p)[k] < Len(p.desc)
    /\ LevelStarts(p)[p.max_afflvl] = p.affs - p.cores
    /\ LevelStarts(p)[p.max_afflvl + 1] = p.affs
    /\ p.absent \subseteq 0 .. p.cores - 1

VARIABLES
  plat,                         \* the platform
  tftf_pd_nodes,
  tftf_pwr_domain_start_idx,
  topology_setup_done,
  num_level, parent_idx, num_nodes_at_lvl, node_index,  \* of populate_power_domain_tree
  cpu_id, nodes_idx,            \* of update_pwrlvl_limits
  query                         \* the query made, with its result

building == <<num_level, parent_idx, num_nodes_at_lvl, node_index, cpu_id, nodes_idx>>
topology == <<plat, tftf_pd_nodes, tftf_pwr_domain_start_idx, topology_setup_done, building>>
powerVars == <<topology, query>>

PWR_DOMAIN_INIT == -1
INVALID_MPID == -1
Mpid(core) == 256 + core        \* of a CPU that is present (tftf_plat_get_mpidr)

\* The nodes that the entries a .. b - 1 of the description make
SumOf(desc, a, b) == NodesMade(desc)[b] - NodesMade(desc)[a]

Nodes == 0 .. plat.affs - 1
Node(n) == tftf_pd_nodes[n]

Cleared == [cpu_start_node |-> 0, ncpus |-> 0, mpidr |-> 0, parent_node |-> 0,
            level |-> 0, is_present |-> FALSE]

PowerInit ==
  /\ plat \in Platforms
  /\ tftf_pd_nodes = [n \in Nodes |-> Cleared]
  /\ tftf_pwr_domain_start_idx = [l \in 0 .. plat.max_afflvl |-> 0]
  /\ topology_setup_done = FALSE
  /\ num_level = plat.max_afflvl /\ parent_idx = 0 /\ num_nodes_at_lvl = 1 /\ node_index = 0
  /\ cpu_id = 0
  \* `= {-1}' sets the first element; the others are 0
  /\ nodes_idx = [j \in 0 .. plat.max_afflvl - 1 |-> IF j = 0 THEN -1 ELSE 0]
  /\ query = [op |-> "none"]

-----------------------------------------------------------------------------
(* tftf_init_topology                                                        *)

\* The index of the parent of the node j that is made at this level: entry p of the
\* description makes the p - 1st node, since entry 0 stands for the root.
ParentOf(j) ==
  (CHOOSE p \in parent_idx .. parent_idx + num_nodes_at_lvl - 1 :
     LET first == node_index + SumOf(plat.desc, parent_idx, p)
     IN first <= j /\ j < first + plat.desc[p + 1]) - 1

\* One turn of the loop over the levels.
PopulateLevel ==
  LET made == SumOf(plat.desc, parent_idx, parent_idx + num_nodes_at_lvl)
      cpu(j) == j - node_index
      inner(j) == [Node(j) EXCEPT !.parent_node = ParentOf(j), !.level = num_level]
      leaf(j) == [inner(j) EXCEPT
                    !.mpidr = IF cpu(j) \in plat.absent THEN INVALID_MPID ELSE Mpid(cpu(j)),
                    !.is_present = cpu(j) \notin plat.absent,
                    !.cpu_start_node = j, !.ncpus = 1]
  IN /\ num_level >= 0
     /\ tftf_pwr_domain_start_idx' = [tftf_pwr_domain_start_idx EXCEPT ![num_level] = node_index]
     /\ tftf_pd_nodes' =
          [n \in Nodes |-> IF n \notin node_index .. node_index + made - 1 THEN Node(n)
                           ELSE IF num_level = 0 THEN leaf(n) ELSE inner(n)]
     /\ node_index' = node_index + made
     /\ parent_idx' = parent_idx + num_nodes_at_lvl
     /\ num_nodes_at_lvl' = made
     /\ num_level' = num_level - 1
     /\ UNCHANGED <<plat, topology_setup_done, cpu_id, nodes_idx, query>>

\* get_parent_pwr_domain_nodes, and the loop of tftf_get_parent_node_from_mpidr
Ancestors(node) ==
  LET up[l \in 0 .. plat.max_afflvl] == IF l = 0 THEN node ELSE Node(up[l - 1]).parent_node
  IN up

Ancestor(node, levels) == Ancestors(node)[levels]

\* Mutant: the node met last is not remembered.
LimitsAfterForgetful(cpu_node, temp_index) ==
  [n \in Nodes |->
     IF \A j \in DOMAIN temp_index : temp_index[j] # n THEN Node(n)
     ELSE [Node(n) EXCEPT !.ncpus = @ + 1, !.cpu_start_node = cpu_node,
                          !.is_present = @ \/ Node(cpu_node).is_present]]

\* The nodes after the loop over the levels for one CPU: a node that was not the
\* parent of the previous CPU begins with this one, and is present if it is.
LimitsAfter(cpu_node, temp_index) ==
  [n \in Nodes |->
     IF \A j \in DOMAIN temp_index : temp_index[j] # n THEN Node(n)
     ELSE LET j == CHOOSE k \in DOMAIN temp_index : temp_index[k] = n
              begins == nodes_idx[j] # n
          IN [Node(n) EXCEPT
                !.ncpus = @ + 1,
                !.cpu_start_node = IF begins THEN cpu_node ELSE @,
                !.is_present = @ \/ (begins /\ Node(cpu_node).is_present)]]

\* One turn of the loop of update_pwrlvl_limits; the last one ends the setup.
UpdateLimits ==
  LET cpu_node == cpu_id + tftf_pwr_domain_start_idx[0]
      temp_index == [j \in DOMAIN nodes_idx |-> Ancestor(cpu_node, j + 1)]
  IN /\ num_level = -1 /\ cpu_id < plat.cores
     /\ tftf_pd_nodes' = LimitsAfter(cpu_node, temp_index)
     /\ nodes_idx' = temp_index
     /\ cpu_id' = cpu_id + 1
     /\ topology_setup_done' = (cpu_id + 1 = plat.cores)
     /\ UNCHANGED <<plat, tftf_pwr_domain_start_idx, num_level, parent_idx,
                    num_nodes_at_lvl, node_index, query>>

-----------------------------------------------------------------------------
(* Iterations.  ASSERTED is the value of a call that stops at an assertion.  *)

ASSERTED == -2

CPU_NODE_IS_VALID(node) ==
  /\ node - tftf_pwr_domain_start_idx[0] \in 0 .. plat.cores - 1   \* the difference is unsigned
  /\ Node(node).level = 0

\* The loops end at the last node, or at one of another level.
LastOf(lvl) ==
  CHOOSE n \in Nodes : /\ n >= tftf_pwr_domain_start_idx[lvl]
                       /\ \A k \in tftf_pwr_domain_start_idx[lvl] .. n : Node(k).level = lvl
                       /\ n + 1 \in Nodes => Node(n + 1).level # lvl

tftf_get_total_aff_count(aff_lvl) ==
  IF aff_lvl > plat.max_afflvl THEN 0
  ELSE Cardinality({n \in tftf_pwr_domain_start_idx[aff_lvl] .. LastOf(aff_lvl) : Node(n).is_present})

\* The first present node behind `node', up to `last'.
NextPresent(node, last) ==
  LET found == {n \in node + 1 .. last : Node(n).is_present}
  IN IF found = {} THEN PWR_DOMAIN_INIT ELSE CHOOSE n \in found : \A k \in found : n <= k

tftf_get_next_peer_domain(idx, lvl) ==
  LET from == IF idx = PWR_DOMAIN_INIT THEN tftf_pwr_domain_start_idx[lvl] ELSE idx
  IN IF idx = PWR_DOMAIN_INIT /\ Node(from).is_present THEN from
     ELSE IF Node(from).level # lvl THEN ASSERTED
     ELSE NextPresent(from, LastOf(lvl))

\* Mutant: the last CPU of the domain is left out.
NextCpuShort(domain, cpu) ==
  LET from == IF cpu = PWR_DOMAIN_INIT THEN Node(domain).cpu_start_node ELSE cpu
  IN IF cpu = PWR_DOMAIN_INIT /\ Node(from).is_present THEN from
     ELSE IF ~ CPU_NODE_IS_VALID(from) THEN ASSERTED
     ELSE NextPresent(from, Node(domain).cpu_start_node + Node(domain).ncpus - 2)

tftf_get_next_cpu_in_pwr_domain(domain, cpu) ==
  LET from == IF cpu = PWR_DOMAIN_INIT THEN Node(domain).cpu_start_node ELSE cpu
      cpu_end_node == Node(domain).cpu_start_node + Node(domain).ncpus - 1
  IN IF cpu = PWR_DOMAIN_INIT /\ Node(from).is_present THEN from
     ELSE IF ~ CPU_NODE_IS_VALID(from) \/ cpu_end_node >= plat.affs THEN ASSERTED
     ELSE NextPresent(from, cpu_end_node)

tftf_topology_next_cpu(cpu) ==
  LET from == IF cpu = PWR_DOMAIN_INIT THEN tftf_pwr_domain_start_idx[0] ELSE cpu
  IN IF cpu = PWR_DOMAIN_INIT /\ Node(from).is_present THEN from
     ELSE IF ~ CPU_NODE_IS_VALID(from) THEN ASSERTED
     ELSE NextPresent(from, plat.affs - 1)

\* A loop is over when it gets one of these.
Ends == {PWR_DOMAIN_INIT, ASSERTED}

\* for_each_power_domain_idx, for_each_cpu_in_power_domain and for_each_cpu
NextOf(macro, of, idx) ==
  CASE macro = "domains" -> tftf_get_next_peer_domain(idx, of)
    [] macro = "cpusOf" -> tftf_get_next_cpu_in_pwr_domain(of, idx)
    [] macro = "cpus" -> tftf_topology_next_cpu(idx)

\* The loop variable at turn k, from 0.
TurnsOf(macro, of) ==
  LET idx[k \in 0 .. plat.affs] ==
        NextOf(macro, of, IF k = 0 THEN PWR_DOMAIN_INIT ELSE idx[k - 1])
  IN idx

\* What the body of the loop gets, one after another, with the assertion it ends at.
ForEach(macro, of) ==
  LET idx == TurnsOf(macro, of)
      turns == CHOOSE n \in 0 .. plat.affs : idx[n] \in Ends /\ \A k \in 0 .. n - 1 : idx[k] \notin Ends
  IN [k \in 1 .. turns |-> idx[k - 1]] \o (IF idx[turns] = ASSERTED THEN <<ASSERTED>> ELSE <<>>)

-----------------------------------------------------------------------------
(* The queries of a test case.                                               *)

\* platform_get_core_pos (external)
CorePos(mpidr) == mpidr - Mpid(0)

tftf_get_mpidr_from_node(node) == IF Node(node).is_present THEN Node(node).mpidr ELSE INVALID_MPID

tftf_get_parent_node_from_mpidr(mpidr, pwrlvl) ==
  IF CorePos(mpidr) >= plat.cores \/ pwrlvl > plat.max_afflvl THEN PWR_DOMAIN_INIT
  ELSE Ancestor(tftf_pwr_domain_start_idx[0] + CorePos(mpidr), pwrlvl)

\* The turns of the loop over the CPUs that meet another one, for both searches.
Others(exclude_mpid) ==
  LET cpus == ForEach("cpus", 0)
  IN {k \in DOMAIN cpus : tftf_get_mpidr_from_node(cpus[k]) # exclude_mpid}

OtherAt(k) == tftf_get_mpidr_from_node(ForEach("cpus", 0)[k])

tftf_find_any_cpu_other_than(exclude_mpid) ==
  LET others == Others(exclude_mpid)
  IN IF others = {} THEN INVALID_MPID
     ELSE OtherAt(CHOOSE k \in others : \A j \in others : k <= j)

\* All the results rand() can lead to.
tftf_find_random_cpu_other_than(exclude_mpid) ==
  LET possible_cpus == Others(exclude_mpid)
  IN IF plat.cores = 1 \/ possible_cpus = {} THEN {INVALID_MPID}
     ELSE {OtherAt(k) : k \in possible_cpus}

Ask(q) == query' = q /\ UNCHANGED topology

Ready == topology_setup_done /\ query.op = "none"

Iterate ==
  /\ Ready
  /\ \/ \E lvl \in 0 .. plat.max_afflvl :
          Ask([op |-> "domains", of |-> lvl, seen |-> ForEach("domains", lvl),
               count |-> tftf_get_total_aff_count(lvl)])
     \/ \E domain \in Nodes :
          Ask([op |-> "cpusOf", of |-> domain, seen |-> ForEach("cpusOf", domain)])
     \/ Ask([op |-> "cpus", of |-> 0, seen |-> ForEach("cpus", 0)])

\* Tests exclude a CPU of the platform, most often the one they run on.
FindCpu ==
  /\ Ready
  /\ \E core \in 0 .. plat.cores - 1 :
       \/ Ask([op |-> "other", of |-> Mpid(core), found |-> tftf_find_any_cpu_other_than(Mpid(core))])
       \/ \E mpidr \in tftf_find_random_cpu_other_than(Mpid(core)) :
            Ask([op |-> "other", of |-> Mpid(core), found |-> mpidr])

FindParent ==
  /\ Ready
  /\ \E core \in 0 .. plat.cores, lvl \in 0 .. plat.max_afflvl + 1 :
       Ask([op |-> "parent", of |-> core, lvl |-> lvl,
            found |-> tftf_get_parent_node_from_mpidr(Mpid(core), lvl)])

PowerNext == PopulateLevel \/ UpdateLimits \/ Iterate \/ FindCpu \/ FindParent

PowerSpec == PowerInit /\ [][PowerNext]_powerVars

-----------------------------------------------------------------------------
(* Properties.                                                               *)

CpuNodes == {n \in Nodes : Node(n).level = 0}
CpusOf(n) == {c \in CpuNodes : Ancestor(c, Node(n).level) = n}
PresentOf(n) == {c \in CpusOf(n) : Node(c).mpidr # INVALID_MPID}

\* "All the CPUs in the range cpu_start_node -> cpu_start_node + ncpus - 1 will belong to
\* this power domain" (tftf_pwr_domain_node_t), and no other.
LimitsEnclose(n) == CpusOf(n) = Node(n).cpu_start_node .. Node(n).cpu_start_node + Node(n).ncpus - 1

\* The first CPU of a domain.
FirstCpuOf(n) == CHOOSE f \in CpusOf(n) : \A c \in CpusOf(n) : f <= c

\* The domains that the setup describes as its comments say: their limits are right, and
\* so is their presence, if the first CPU of a domain is among those present.
Limited(n) == n # 0 \/ plat.max_afflvl = 1
Described(n) == Limited(n) /\ (FirstCpuOf(n) \in PresentOf(n) \/ PresentOf(n) = {})

\* When the setup is done the array is the tree of the description: levels follow the
\* parents, every domain knows how many CPUs it has, and one that is present has one.  On
\* platforms of two levels the limits of every domain are its CPUs; on others this fails
\* for the first domain, and a domain whose first CPU alone is absent is not marked present:
\* WhatTheSetupLeaves in LibraryProofs says where the setup does what its comments say.
TreeConsistent ==
  topology_setup_done =>
    /\ node_index = plat.affs /\ Cardinality(CpuNodes) = plat.cores
    /\ \A n \in Nodes :
         /\ IF Node(n).parent_node = -1 THEN Node(n).level = plat.max_afflvl
            ELSE Node(Node(n).parent_node).level = Node(n).level + 1
         /\ Node(n).ncpus = Cardinality(CpusOf(n)) /\ Node(n).ncpus > 0
         /\ Limited(n) => LimitsEnclose(n)
         /\ Node(n).is_present => PresentOf(n) # {}
         /\ Described(n) => (Node(n).is_present <=> PresentOf(n) # {})

\* The iterations asked of what the setup describes: a level of domains, a domain with
\* its limits, or all the CPUs.
Answerable(q) ==
  CASE q.op = "domains" -> \A n \in Nodes : Node(n).level = q.of => Described(n)
    [] q.op = "cpusOf" -> Limited(q.of)
    [] OTHER -> q.op = "cpus"

\* Every loop macro goes through what it names once and in order: the domains of a level
\* that have a present CPU, as many as are counted, the present CPUs of a domain, and all
\* present CPUs.  Asked of others, the first two pass over domains or stop.
IteratorsExact ==
  LET named == CASE query.op = "domains" -> {n \in Nodes : Node(n).level = query.of /\ PresentOf(n) # {}}
                 [] query.op = "cpusOf" -> PresentOf(query.of)
                 [] query.op = "cpus" -> UNION {PresentOf(n) : n \in Nodes}
      seen == query.seen
  IN Answerable(query) =>
       /\ {seen[k] : k \in DOMAIN seen} = named
       /\ \A k \in DOMAIN seen : k > 1 => seen[k - 1] < seen[k]
       /\ query.op = "domains" => query.count = Len(seen)

\* Another CPU is found if there is one, and it is one that is present; a parent is a
\* node of the level asked for that contains the CPU.
OthersFound ==
  /\ query.op = "other" =>
       LET others == {c \in CpuNodes : Node(c).mpidr \notin {INVALID_MPID, query.of}}
       IN IF others = {} THEN query.found = INVALID_MPID
          ELSE \E c \in others : Node(c).mpidr = query.found
  /\ query.op = "parent" =>
       IF query.of = plat.cores \/ query.lvl > plat.max_afflvl THEN query.found = PWR_DOMAIN_INIT
       ELSE /\ Node(query.found).level = query.lvl
            /\ tftf_pwr_domain_start_idx[0] + query.of \in CpusOf(query.found)

\* The questions that tests ask of the tree get the answers the tree holds.
QueriesExact == IteratorsExact /\ OthersFound
=============================================================================
