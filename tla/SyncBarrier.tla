---------------------------- MODULE SyncBarrier -----------------------------
(***************************************************************************)
(* sync_thread_barrier (core/sync.c): the spinning barrier that separates  *)
(* the phases of the life of the worker threads.                           *)
(*                                                                         *)
(* A barrier is crossed in two steps: the atomic add that announces the    *)
(* thread, and the load that finds the counter where the thread waits for  *)
(* it.  A thread counts its barriers modulo 4: the two counters of cs are  *)
(* used in turn, first counted up from 0 to the number of threads, then    *)
(* counted back down, so that no counter is ever reset.                    *)
(***************************************************************************)
EXTENDS Integers, FiniteSets

CONSTANT Threads

ASSUME BarrierAssumption == IsFiniteSet(Threads) /\ Threads # {}

n_threads == Cardinality(Threads)

VARIABLES
  phase,   \* the barriers a thread has left, modulo 4
  cs,      \* the two counters
  inside,  \* the thread has announced itself and spins
  led      \* history variable: what the last call returned, or will return

barrierVars == <<phase, cs, inside, led>>

BarrierTypeOK ==
  /\ phase \in [Threads -> 0 .. 3]
  /\ cs \in [{0, 1} -> 0 .. n_threads]
  /\ inside \in [Threads -> BOOLEAN]
  /\ led \in [Threads -> BOOLEAN]

BarrierInit ==
  /\ phase = [th \in Threads |-> 0]
  /\ cs = [c \in {0, 1} |-> 0]
  /\ inside = [th \in Threads |-> FALSE]
  /\ led = [th \in Threads |-> FALSE]

Counter(p) == p % 2
CountsDown(p) == p >= 2

\* fault: the leader is the one that finds 0 in either direction
ArriveFindsZero(th) ==
  LET p == phase[th]
      c == Counter(p)
  IN
  /\ ~ inside[th]
  /\ inside' = [inside EXCEPT ![th] = TRUE]
  /\ cs' = [cs EXCEPT ![c] = IF CountsDown(p) THEN @ - 1 ELSE @ + 1]
  /\ led' = [led EXCEPT ![th] = cs[c] = 0]
  /\ UNCHANGED phase

\* the announcement; the leader is the first of those that count up, the
\* last of those that count down
Arrive(th) ==
  LET p == phase[th]
      c == Counter(p)
  IN
  /\ ~ inside[th]
  /\ inside' = [inside EXCEPT ![th] = TRUE]
  /\ cs' = [cs EXCEPT ![c] = IF CountsDown(p) THEN @ - 1 ELSE @ + 1]
  /\ led' = [led EXCEPT ![th] = cs[c] = IF CountsDown(p) THEN 1 ELSE 0]
  /\ UNCHANGED phase

\* fault: no spin
LeaveAtOnce(th) ==
  /\ inside[th]
  /\ inside' = [inside EXCEPT ![th] = FALSE]
  /\ phase' = [phase EXCEPT ![th] = (phase[th] + 1) % 4]
  /\ UNCHANGED <<cs, led>>

\* the end of the spin
Leave(th) ==
  LET p == phase[th] IN
  /\ inside[th]
  /\ cs[Counter(p)] = IF CountsDown(p) THEN 0 ELSE n_threads
  /\ inside' = [inside EXCEPT ![th] = FALSE]
  /\ phase' = [phase EXCEPT ![th] = (p + 1) % 4]
  /\ UNCHANGED <<cs, led>>

BarrierNext == \E th \in Threads : Arrive(th) \/ Leave(th)

BarrierSpec == BarrierInit /\ [][BarrierNext]_barrierVars

-----------------------------------------------------------------------------
\* A thread is ahead of another by one barrier at most, and then the other is
\* still on its way out of it: nobody leaves a barrier that somebody has not
\* reached, although a fast thread may already be in the next one.
NobodyIsLeftBehind ==
  \A a, b \in Threads :
    phase[a] # phase[b] =>
      \/ phase[a] = (phase[b] + 1) % 4 /\ inside[b]
      \/ phase[b] = (phase[a] + 1) % 4 /\ inside[a]

\* The barrier a thread has announced itself at last.
Reached(th) == IF inside[th] THEN phase[th] ELSE (phase[th] + 3) % 4

\* Every crossing has one leader: two threads never lead the same one, and
\* once all have reached it somebody does.
OneLeader ==
  /\ \A a, b \in Threads :
       (a # b /\ led[a] /\ led[b]) => Reached(a) # Reached(b)
  /\ \A b \in Threads :
       (inside[b] /\ \A a \in Threads : Reached(a) = Reached(b))
         => \E a \in Threads : led[a]

(***************************************************************************)
(* The inductive invariant.                                                *)
(***************************************************************************)

\* the thread has counted counter c up and not yet down again
HasCounted(th, c) ==
  \/ phase[th] = c /\ inside[th]
  \/ phase[th] = c + 1
  \/ phase[th] = c + 2 /\ ~ inside[th]

\* A counter is the number of the threads that have counted it up, whatever
\* mix of two consecutive barriers the threads are in.
CountersExact ==
  \A c \in {0, 1} : cs[c] = Cardinality({th \in Threads : HasCounted(th, c)})

\* Counting down, there is no leader before all have arrived; counting up,
\* there is one as soon as somebody has, and as long as nobody is further.
LeaderIsLast ==
  \A a, b \in Threads :
    (led[a] /\ Reached(a) \in {2, 3}) => Reached(b) # Reached(a) - 1
LeaderIsFirst ==
  \A b \in Threads :
    (/\ Reached(b) \in {0, 1}
     /\ \A a \in Threads : Reached(a) \in {Reached(b), (Reached(b) + 3) % 4})
      => \E a \in Threads : led[a] /\ Reached(a) = Reached(b)

BarrierIInv ==
  /\ BarrierTypeOK
  /\ CountersExact
  /\ NobodyIsLeftBehind
  /\ OneLeader
  /\ LeaderIsLast
  /\ LeaderIsFirst

=============================================================================
