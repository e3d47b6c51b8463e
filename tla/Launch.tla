------------------------------- MODULE Launch -------------------------------
(***************************************************************************)
(* How a simulation is set up and reported: the options of RBlockSim and   *)
(* its attackers, RootsimInit, which LPs each thread of each process gets  *)
(* (lp.c), the first events of the LPs, which share out the hash power,    *)
(* and the statistics that main writes in the end.                         *)
(*                                                                         *)
(* Of the options only those are here that another option or a later step  *)
(* depends on.  Numbers that a program reads as fractions are percentages. *)
(* What happens between the first events and LP_FINI is left out.          *)
(***************************************************************************)
EXTENDS Integers, FiniteSets, Functions, FiniteSetsExt

CONSTANTS
  MaxLps, MaxNodes,  \* bounds: N_NODES, and the MPI processes
  Cores,             \* thread_cores_count
  DEPTH_TO_KEEP,
  HashOptions, ToleranceOptions, DepthOptions,  \* what -h, -c and -d may be
  HashPowers         \* what an honest node may draw

ASSUME LaunchAssumption ==
  /\ {MaxLps, MaxNodes, Cores} \subseteq Nat \ {0}
  /\ HashOptions \subseteq Nat /\ ToleranceOptions \subseteq Nat
  /\ DepthOptions \subseteq Nat /\ HashPowers \subseteq Nat \ {0}

VARIABLES
  stage,         \* how far main has come
  conf,          \* [lps, n_nodes, n_threads]
  attackConfig,  \* [type, hash, tolerance, depth], Unset until it is given
  attackers,
  hosted,        \* the LPs of each thread, [<<process, thread>> -> ids]
  inited,        \* the LPs that have had LP_INIT: <<process, thread, LP>>
  hashPower, totalHashPower,  \* of each LP, and of each process
  portion,       \* hashPowerPortion of each LP, a percentage: num / of
  selfishStats   \* the entries that were written: <<process, LP>>

launchVars == <<stage, conf, attackConfig, attackers, hosted, inited, hashPower,
                totalHashPower, portion, selfishStats>>

Unset == -1
NoAttack == [type |-> "none", hash |-> Unset, tolerance |-> Unset, depth |-> Unset]
LpIds == 0 .. conf.lps - 1
Nodes == 0 .. conf.n_nodes - 1

LaunchInit ==
  /\ stage = "options"
  /\ conf \in {[lps |-> l, n_nodes |-> n, n_threads |-> 0] :
                 l \in 1 .. MaxLps, n \in 1 .. MaxNodes}
  /\ conf.n_nodes <= conf.lps
  /\ attackConfig = NoAttack
  /\ attackers = {}
  /\ hosted = <<>>
  /\ inited = {}
  /\ hashPower = [i \in LpIds |-> 0]
  /\ totalHashPower = [n \in Nodes |-> 0]
  /\ portion = [i \in LpIds |-> [num |-> 0, of |-> 0]]
  /\ selfishStats = {}

-----------------------------------------------------------------------------
(* handle_options: any options, in any order; the last of a kind counts.   *)

notYet == <<attackers, hosted, inited, hashPower, totalHashPower, portion,
            selfishStats>>

Give(field, x) == attackConfig' = [attackConfig EXCEPT ![field] = x]

Option ==
  /\ stage = "options"
  /\ \/ /\ \E w \in 0 .. Cores + 1 : conf' = [conf EXCEPT !.n_threads = w]
        /\ UNCHANGED <<stage, attackConfig>>
     \/ /\ \/ \E a \in {"51", "selfish"} : Give("type", a)
           \/ \E h \in HashOptions : h <= 100 /\ Give("hash", h)
           \/ \E c \in ToleranceOptions : c <= DEPTH_TO_KEEP /\ Give("tolerance", c)
           \/ \E d \in DepthOptions : Give("depth", d)
        /\ UNCHANGED <<stage, conf>>
     \/ /\ \/ \E h \in HashOptions : h > 100
           \/ \E c \in ToleranceOptions : c > DEPTH_TO_KEEP
        /\ stage' = "exit"
        /\ UNCHANGED <<conf, attackConfig>>
  /\ UNCHANGED notYet

\* Options of an attack need the attack; only selfish mining has a depth.
Accepted(c) ==
  /\ c.type = "none" => c = NoAttack
  /\ c.depth # Unset => c.type = "selfish"

Or(x, default) == IF x = Unset THEN default ELSE x

Settled(c) ==
  IF c.type = "none" THEN c
  ELSE [c EXCEPT !.hash = Or(@, IF c.type = "51" THEN 51 ELSE 34),
                 !.tolerance = Or(@, 1),
                 !.depth = IF c.type = "51" THEN Unset ELSE Or(@, 2)]

EndOfOptions ==
  /\ stage = "options"
  /\ stage' = IF Accepted(attackConfig) THEN "attackers" ELSE "exit"
  /\ attackConfig' = Settled(attackConfig)
  /\ UNCHANGED <<conf, notYet>>

\* generateAttackers: so many of the nodes, any of them
GeneratedAttackers(count) == {S \in SUBSET LpIds : Cardinality(S) = count}

\* initAttackers: one attacker, from the same seed in each process
InitAttackers ==
  /\ stage = "attackers"
  /\ IF attackConfig.type = "none"
     THEN stage' = "init" /\ UNCHANGED attackers
     ELSE \/ conf.lps <= 1 /\ stage' = "exit" /\ UNCHANGED attackers
          \/ conf.lps > 1 /\ stage' = "init" /\ attackers' \in GeneratedAttackers(1)
  /\ UNCHANGED <<conf, attackConfig, hosted, inited, hashPower, totalHashPower,
                 portion, selfishStats>>

-----------------------------------------------------------------------------
(* lp_global_init and lp_init: who hosts which LPs.                        *)

\* From an estimate down while the part is not passed, then up to its start;
\* later are the indexes, and the one after the last, that are in part p or after
\* it (part_fnc).
PartitionStart(p, cnt, later, start, tot) ==
  LET estimate == start + ((p * tot) \div cnt)
      down == Max({start} \cup ((start .. estimate) \ later))
  IN  Min({g \in down .. start + tot : g \in later})

LidToNid(lp) == (lp * conf.n_nodes) \div conf.lps
LidNodeFirst(n) ==
  PartitionStart(n, conf.n_nodes, {lp \in 0 .. conf.lps : LidToNid(lp) >= n}, 0, conf.lps)
NLpsNode(n) == LidNodeFirst(n + 1) - LidNodeFirst(n)

\* each process has a thread for each of its LPs at most
NThreads(n) == Min({conf.n_threads, NLpsNode(n)})
LidToRid(n, lp) == ((lp - LidNodeFirst(n)) * NThreads(n)) \div NLpsNode(n)

\* fault: the estimate is not corrected
LidThreadEstimate(n, r) == LidNodeFirst(n) + ((r * NLpsNode(n)) \div NThreads(n))

LidThreadFirst(n, r) ==
  LET first == LidNodeFirst(n)
      end == LidNodeFirst(n + 1)
  IN  PartitionStart(r, NThreads(n), {lp \in first .. end : LidToRid(n, lp) >= r}, first,
                     end - first)

\* lid_thread_first and lid_thread_end of each thread of each process
Hosting ==
  [h \in UNION {{n} \X (0 .. NThreads(n) - 1) : n \in Nodes} |->
     LidThreadFirst(h[1], h[2]) .. LidThreadFirst(h[1], h[2] + 1) - 1]

\* RootsimInit, whose result main does not look at: RootsimRun then returns at
\* once.
RootsimInit ==
  /\ stage = "init"
  /\ conf' = [conf EXCEPT !.n_threads = IF @ = 0 THEN Cores ELSE @]
  /\ IF conf.n_threads > Cores
     THEN stage' = "report" /\ UNCHANGED hosted
     ELSE stage' = "run" /\ hosted' = Hosting'
  /\ UNCHANGED <<attackConfig, attackers, inited, hashPower, totalHashPower,
                 portion, selfishStats>>

-----------------------------------------------------------------------------
\* the LPs that have had RBLOCKSIM_INIT too
Started == {i \in LpIds : portion[i].of # 0}

\* an atomic addition to what the threads of a process share
AddToTotal(n, h) == totalHashPower' = [totalHashPower EXCEPT ![n] = @ + h]

\* LP_INIT of the next LP of a thread.  An honest node draws its hash power and
\* adds it to the total of its process; the attacker does not.
LpInit(n, r) ==
  LET todo == hosted[<<n, r>>] \ inited
      lp == Min(todo)
  IN
  /\ stage = "run"
  /\ todo # {} /\ Started # LpIds
  /\ inited' = inited \cup {lp}
  /\ IF lp \in attackers
     THEN UNCHANGED <<hashPower, totalHashPower>>
     ELSE \E h \in HashPowers :
            /\ hashPower' = [hashPower EXCEPT ![lp] = h]
            /\ AddToTotal(n, h)
  /\ UNCHANGED <<stage, conf, attackConfig, attackers, hosted, portion, selfishStats>>

Portion(lp) ==
  LET attack == IF attackConfig.type = "none" THEN 0 ELSE attackConfig.hash
  IN  IF lp \in attackers
      THEN [num |-> attack, of |-> 1]
      ELSE [num |-> hashPower[lp] * (100 - attack), of |-> totalHashPower[LidToNid(lp)]]

\* fault: a thread goes on as soon as its own LPs are initialized
AfterInitOwn(lp) ==
  /\ stage = "run"
  /\ lp \in inited \ Started
  /\ portion' = [portion EXCEPT ![lp] = Portion(lp)]
  /\ UNCHANGED <<stage, conf, attackConfig, attackers, hosted, inited, hashPower,
                 totalHashPower, selfishStats>>

\* RBLOCKSIM_INIT, which no thread processes before all have crossed the
\* barriers at the end of worker_thread_init
AfterInit(lp) ==
  /\ stage = "run"
  /\ inited = LpIds
  /\ lp \in LpIds \ Started
  /\ portion' = [portion EXCEPT ![lp] = Portion(lp)]
  /\ UNCHANGED <<stage, conf, attackConfig, attackers, hosted, inited, hashPower,
                 totalHashPower, selfishStats>>

\* LP_FINI of the next LP of a thread, after the simulation: where statistics
\* are wanted, they are copied to the array of the process.
LpFini(n, r) ==
  LET todo == hosted[<<n, r>>] \cap inited
      lp == Min(todo)
  IN
  /\ stage = "run"
  /\ todo # {} /\ Started = LpIds
  /\ inited' = inited \ {lp}
  /\ selfishStats' = IF attackConfig.type = "none" THEN selfishStats
                     ELSE selfishStats \cup {<<n, lp>>}
  /\ stage' = IF inited' = {} THEN "report" ELSE stage
  /\ UNCHANGED <<conf, attackConfig, attackers, hosted, hashPower, totalHashPower,
                 portion>>

\* main dumps the whole array
Report ==
  /\ stage = "report"
  /\ stage' = "exit"
  /\ UNCHANGED <<conf, attackConfig, notYet>>

LaunchNext ==
  \/ Option
  \/ EndOfOptions
  \/ InitAttackers
  \/ RootsimInit
  \/ \E h \in DOMAIN hosted : LpInit(h[1], h[2]) \/ LpFini(h[1], h[2])
  \/ \E lp \in LpIds : AfterInit(lp)
  \/ Report

LaunchSpec == LaunchInit /\ [][LaunchNext]_launchVars

-----------------------------------------------------------------------------
\* Whatever the numbers of processes, threads and LPs, each LP is in the range
\* of exactly one thread, and this is the one that its messages are sent to.
HostedOnce ==
  (stage = "run" /\ inited = {}) =>
    \A lp \in LpIds :
      {h \in DOMAIN hosted : lp \in hosted[h]}
        = {<<LidToNid(lp), LidToRid(LidToNid(lp), lp)>>}

\* The attacker's portion of the hash power and those of the honest nodes, which
\* each one computes on its own, are the whole of it.  On one process: the total
\* of a process is that of its own nodes.
PowerIsWhole ==
  LET honest == LpIds \ attackers
      Sum(S) == SumFunctionOnSet([i \in LpIds |-> portion[i].num], S)
  IN
  (conf.n_nodes = 1 /\ Started = LpIds) =>
    \A i \in honest :
      /\ \A j \in honest : portion[j].of = portion[i].of
      /\ Sum(honest) = (100 - Sum(attackers)) * portion[i].of

\* "At the end of the simulation, each LP writes their statistics data. Later,
\* we will dump the statistics in a JSON file": what is dumped was written.
ReportIsWhole ==
  (stage = "report" /\ attackConfig.type # "none") =>
    \A n \in Nodes, lp \in LpIds : <<n, lp>> \in selfishStats

=============================================================================
