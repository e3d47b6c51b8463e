------------------------------ MODULE GvtRound ------------------------------
(***************************************************************************)
(* The reduction of the Global Virtual Time on one node (gvt/gvt.c with    *)
(* the single-node distributed/no_mpi.c): the state of the algorithm and   *)
(* one action for each way a call of gvt_phase_run moves it on.            *)
(*                                                                         *)
(* A phase that has to wait loads one counter and then adds to another.    *)
(* The two are one step here: the counter that was loaded cannot change    *)
(* before the thread has made its own add.  A call that finds it must wait *)
(* (or still reads the old counter, the loads are relaxed) changes         *)
(* nothing.  The case of node_min_reduce adds to a counter and then writes *)
(* a shared slot: it is two steps, MinReduce and MinCompute, of one call.  *)
(***************************************************************************)
EXTENDS Integers, FiniteSets, FiniteSetsExt

CONSTANTS
  Threads,  \* the worker threads
  Master,   \* the thread with rid 0, whose timer starts the reductions
  MaxT      \* the horizon of the simulated time

ASSUME GvtAssumption ==
  /\ IsFiniteSet(Threads)
  /\ Master \in Threads
  /\ MaxT \in Nat

Inf == MaxT + 1  \* SIMTIME_MAX
Times == 1 .. MaxT
N == Cardinality(Threads)

VARIABLES
  thread_phase,   \* idle, A, B, C or D
  node_phase,     \* static of gvt_node_phase_run, per thread
  gvt_phase,      \* the colour of each thread
  gvt_accumulator,
  reducing_p,
  c_a, c_b, c_c, c_d,
  total_msg_received,
  gvt_nodes,
  returned        \* the last value gvt_phase_run gave to each thread

gvtVars == <<thread_phase, node_phase, gvt_phase, gvt_accumulator, reducing_p,
             c_a, c_b, c_c, c_d, total_msg_received, gvt_nodes, returned>>
counters == <<c_a, c_b, c_c, c_d, total_msg_received>>

ThreadPhases == {"idle", "A", "B", "C", "D"}
NodePhases == {"redux_first", "sent_reduce", "sent_reduce_wait", "sent_wait",
               "redux_second", "min_reduce", "min_compute", "min_reduce_wait",
               "min_wait", "done"}

GvtTypeOK ==
  /\ thread_phase \in [Threads -> ThreadPhases]
  /\ node_phase \in [Threads -> NodePhases]
  /\ gvt_phase \in [Threads -> BOOLEAN]
  /\ gvt_accumulator \in [Threads -> 1 .. Inf]
  /\ reducing_p \in [Threads -> 0 .. Inf]
  /\ c_a \in 0 .. N
  /\ c_b \in 0 .. N
  /\ c_c \in 0 .. N
  /\ c_d \in 0 .. N
  /\ total_msg_received \in 0 .. N
  /\ gvt_nodes \in 0 .. 1
  /\ returned \in [Threads -> 0 .. Inf]

GvtInit ==
  /\ thread_phase = [th \in Threads |-> "idle"]
  /\ node_phase = [th \in Threads |-> "redux_first"]
  /\ gvt_phase = [th \in Threads |-> FALSE]
  /\ gvt_accumulator = [th \in Threads |-> Inf]
  /\ reducing_p = [th \in Threads |-> 0]
  /\ c_a = 0 /\ c_b = 0 /\ c_c = 0 /\ c_d = 0
  /\ total_msg_received = 0
  /\ gvt_nodes = 0
  /\ returned = [th \in Threads |-> 0]

-----------------------------------------------------------------------------
\* gvt_start_processing
StartProcessing(th) ==
  /\ gvt_accumulator' = [gvt_accumulator EXCEPT ![th] = Inf]
  /\ thread_phase' = [thread_phase EXCEPT ![th] = "A"]

\* an idle thread sees that the others have begun a reduction
Notice(th) ==
  /\ thread_phase[th] = "idle"
  /\ c_b # 0
  /\ StartProcessing(th)
  /\ UNCHANGED <<node_phase, gvt_phase, reducing_p, counters, gvt_nodes, returned>>

\* the timer of the first thread has expired and no reduction is on; the loop
\* broadcasts MSG_CTRL_GVT_START, which on one node is a call
StartGvt(th) ==
  /\ th = Master
  /\ thread_phase[th] = "idle"
  /\ gvt_nodes = 0
  /\ gvt_nodes' = 1
  /\ StartProcessing(th)
  /\ UNCHANGED <<node_phase, gvt_phase, reducing_p, counters, returned>>

(***************************************************************************)
(* gvt_thread_phase_run, in either of the two reductions of a round.       *)
(***************************************************************************)
Reducing(th) == node_phase[th] \in {"redux_first", "redux_second"}

PhaseA(th) ==
  /\ thread_phase[th] = "A"
  /\ Reducing(th)
  /\ c_a = 0
  /\ thread_phase' = [thread_phase EXCEPT ![th] = "B"]
  /\ c_b' = c_b + 1
  /\ UNCHANGED <<node_phase, gvt_phase, gvt_accumulator, reducing_p, c_a, c_c,
                 c_d, total_msg_received, gvt_nodes, returned>>

PhaseB(th) ==
  /\ thread_phase[th] = "B"
  /\ c_b = N
  /\ thread_phase' = [thread_phase EXCEPT ![th] = "C"]
  /\ c_a' = c_a + 1
  /\ UNCHANGED <<node_phase, gvt_phase, gvt_accumulator, reducing_p, c_b, c_c,
                 c_d, total_msg_received, gvt_nodes, returned>>

PhaseC(th) ==
  /\ thread_phase[th] = "C"
  /\ c_a = N
  /\ reducing_p' = [reducing_p EXCEPT ![th] = gvt_accumulator[th]]
  /\ thread_phase' = [thread_phase EXCEPT ![th] = "D"]
  /\ c_b' = c_b - 1
  /\ UNCHANGED <<node_phase, gvt_phase, gvt_accumulator, c_a, c_c, c_d,
                 total_msg_received, gvt_nodes, returned>>

\* the reduction is over: flip the colour after the first one, and go on
PhaseD(th) ==
  /\ thread_phase[th] = "D"
  /\ c_b = 0
  /\ c_a' = c_a - 1
  /\ thread_phase' = [thread_phase EXCEPT ![th] = "A"]
  /\ IF node_phase[th] = "redux_first"
     THEN /\ gvt_phase' = [gvt_phase EXCEPT ![th] = ~ @]
          /\ node_phase' = [node_phase EXCEPT ![th] = "sent_reduce"]
     ELSE /\ node_phase' = [node_phase EXCEPT ![th] = "min_reduce"]
          /\ UNCHANGED gvt_phase
  /\ UNCHANGED <<gvt_accumulator, reducing_p, c_b, c_c, c_d,
                 total_msg_received, gvt_nodes, returned>>

(***************************************************************************)
(* gvt_node_phase_run.  No message is remote on a single node: what        *)
(* remains of the count of the messages sent and received is that each     *)
(* thread passes by before any goes on.                                    *)
(***************************************************************************)
SentReduce(th) ==
  /\ node_phase[th] = "sent_reduce"
  /\ c_a = 0
  /\ total_msg_received' = total_msg_received + 1
  /\ c_c' = c_c + 1
  /\ node_phase' = [node_phase EXCEPT ![th] =
                      IF c_c = N - 1 THEN "sent_reduce_wait" ELSE "sent_wait"]
  /\ UNCHANGED <<thread_phase, gvt_phase, gvt_accumulator, reducing_p, c_a, c_b,
                 c_d, gvt_nodes, returned>>

SentReduceWait(th) ==
  /\ node_phase[th] = "sent_reduce_wait"
  /\ total_msg_received' = total_msg_received - N
  /\ node_phase' = [node_phase EXCEPT ![th] = "sent_wait"]
  /\ UNCHANGED <<thread_phase, gvt_phase, gvt_accumulator, reducing_p, c_a, c_b,
                 c_c, c_d, gvt_nodes, returned>>

SentWait(th) ==
  /\ node_phase[th] = "sent_wait"
  /\ total_msg_received = 0
  /\ node_phase' = [node_phase EXCEPT ![th] = "redux_second"]
  /\ UNCHANGED <<thread_phase, gvt_phase, gvt_accumulator, reducing_p, counters,
                 gvt_nodes, returned>>

\* gvt_node_reduce
NodeReduce == Min({reducing_p[th] : th \in Threads})

\* the first to arrive computes the minimum into the slot of the master
MinReduce(th) ==
  /\ node_phase[th] = "min_reduce"
  /\ c_d' = c_d + 1
  /\ node_phase' = [node_phase EXCEPT ![th] =
                      IF c_d = 0 THEN "min_compute" ELSE "min_wait"]
  /\ UNCHANGED <<thread_phase, gvt_phase, gvt_accumulator, reducing_p, c_a, c_b,
                 c_c, total_msg_received, gvt_nodes, returned>>

InCall(th) == node_phase[th] = "min_compute"

MinCompute(th) ==
  /\ InCall(th)
  /\ reducing_p' = [reducing_p EXCEPT ![Master] = NodeReduce]
  /\ node_phase' = [node_phase EXCEPT ![th] = "min_reduce_wait"]
  /\ UNCHANGED <<thread_phase, gvt_phase, gvt_accumulator, counters, gvt_nodes,
                 returned>>

MinReduceWait(th) ==
  /\ node_phase[th] = "min_reduce_wait"
  /\ c_d = N
  /\ c_c' = c_c - N
  /\ node_phase' = [node_phase EXCEPT ![th] = "done"]
  /\ returned' = [returned EXCEPT ![th] = reducing_p[Master]]
  /\ UNCHANGED <<thread_phase, gvt_phase, gvt_accumulator, reducing_p, c_a, c_b,
                 c_d, total_msg_received, gvt_nodes>>

\* fault: does not wait for the minimum
MinWaitNot(th) ==
  /\ node_phase[th] = "min_wait"
  /\ node_phase' = [node_phase EXCEPT ![th] = "done"]
  /\ returned' = [returned EXCEPT ![th] = reducing_p[Master]]
  /\ UNCHANGED <<thread_phase, gvt_phase, gvt_accumulator, reducing_p, counters,
                 gvt_nodes>>

MinWait(th) ==
  /\ node_phase[th] = "min_wait"
  /\ c_c = 0
  /\ node_phase' = [node_phase EXCEPT ![th] = "done"]
  /\ returned' = [returned EXCEPT ![th] = reducing_p[Master]]
  /\ UNCHANGED <<thread_phase, gvt_phase, gvt_accumulator, reducing_p, counters,
                 gvt_nodes>>

\* fault: the first thread to leave tells the master
DoneFirst(th) ==
  /\ node_phase[th] = "done"
  /\ node_phase' = [node_phase EXCEPT ![th] = "redux_first"]
  /\ thread_phase' = [thread_phase EXCEPT ![th] = "idle"]
  /\ c_d' = c_d - 1
  /\ gvt_nodes' = IF c_d = N THEN gvt_nodes - 1 ELSE gvt_nodes
  /\ UNCHANGED <<gvt_phase, gvt_accumulator, reducing_p, c_a, c_b, c_c,
                 total_msg_received, returned>>

\* the last thread to leave the round tells the master (MSG_CTRL_GVT_DONE)
Done(th) ==
  /\ node_phase[th] = "done"
  /\ node_phase' = [node_phase EXCEPT ![th] = "redux_first"]
  /\ thread_phase' = [thread_phase EXCEPT ![th] = "idle"]
  /\ c_d' = c_d - 1
  /\ gvt_nodes' = IF c_d = 1 THEN gvt_nodes - 1 ELSE gvt_nodes
  /\ UNCHANGED <<gvt_phase, gvt_accumulator, reducing_p, c_a, c_b, c_c,
                 total_msg_received, returned>>

\* gvt_phase_run, when it gets somewhere
PhaseRun(th) ==
  \/ Notice(th)
  \/ StartGvt(th)
  \/ PhaseA(th)
  \/ PhaseB(th)
  \/ PhaseC(th)
  \/ PhaseD(th)
  \/ SentReduce(th)
  \/ SentReduceWait(th)
  \/ SentWait(th)
  \/ MinReduce(th)
  \/ MinCompute(th)
  \/ MinReduceWait(th)
  \/ MinWait(th)
  \/ Done(th)

\* fault: the accumulator is forgotten
OnExtractionLast(th, t) ==
  /\ gvt_accumulator' = [gvt_accumulator EXCEPT ![th] = t]
  /\ UNCHANGED <<thread_phase, node_phase, gvt_phase, reducing_p, counters,
                 gvt_nodes, returned>>

\* gvt_on_msg_extraction
OnExtraction(th, t) ==
  /\ gvt_accumulator' =
       [gvt_accumulator EXCEPT ![th] = IF t < @ THEN t ELSE @]
  /\ UNCHANGED <<thread_phase, node_phase, gvt_phase, reducing_p, counters,
                 gvt_nodes, returned>>

-----------------------------------------------------------------------------
(***************************************************************************)
(* The inductive invariant.  A round takes a thread through 17 positions:  *)
(*   0      idle                                                           *)
(*   1-4    phases A to D of the first reduction                           *)
(*   5-7    sent_reduce, sent_reduce_wait, sent_wait                       *)
(*   8-11   phases A to D of the second reduction                          *)
(*   12-15  min_reduce, min_compute, min_reduce_wait, min_wait             *)
(*   16     done                                                           *)
(***************************************************************************)
Pos(th) ==
  LET t == thread_phase[th]
      n == node_phase[th]
  IN  CASE n = "redux_first" /\ t = "idle" -> 0
        [] n = "redux_first" /\ t = "A" -> 1
        [] n = "redux_first" /\ t = "B" -> 2
        [] n = "redux_first" /\ t = "C" -> 3
        [] n = "redux_first" /\ t = "D" -> 4
        [] n = "sent_reduce" /\ t = "A" -> 5
        [] n = "sent_reduce_wait" /\ t = "A" -> 6
        [] n = "sent_wait" /\ t = "A" -> 7
        [] n = "redux_second" /\ t = "A" -> 8
        [] n = "redux_second" /\ t = "B" -> 9
        [] n = "redux_second" /\ t = "C" -> 10
        [] n = "redux_second" /\ t = "D" -> 11
        [] n = "min_reduce" /\ t = "A" -> 12
        [] n = "min_compute" /\ t = "A" -> 13
        [] n = "min_reduce_wait" /\ t = "A" -> 14
        [] n = "min_wait" /\ t = "A" -> 15
        [] n = "done" /\ t = "A" -> 16
        [] OTHER -> 17

\* where the other threads can be while one is at p
Beside(p) ==
  CASE p = 0 -> {0, 1, 2, 15, 16}
    [] p = 1 -> {0, 1, 2}
    [] p = 2 -> {0, 1, 2, 3}
    [] p = 3 -> {2, 3, 4}
    [] p = 4 -> {3, 4, 5}
    [] p = 5 -> {4, 5, 7}
    [] p = 6 -> {7}
    [] p = 7 -> {5, 6, 7, 8, 9}
    [] p = 8 -> {7, 8, 9}
    [] p = 9 -> {7, 8, 9, 10}
    [] p = 10 -> {9, 10, 11}
    [] p = 11 -> {10, 11, 12, 13, 14, 15}
    [] p = 12 -> {11, 12, 13, 14, 15}
    [] p = 13 -> {11, 12, 15}
    [] p = 14 -> {11, 12, 15}
    [] p = 15 -> {0, 11, 12, 13, 14, 15, 16}
    [] p = 16 -> {0, 15, 16}

ThreadsAt(P) == {th \in Threads : Pos(th) \in P}
Count(P) == Cardinality(ThreadsAt(P))

\* c_c has been taken back, and the threads are leaving the round
IsReset == ThreadsAt({15, 16}) # {} /\ ThreadsAt({0, 15, 16}) = Threads

CountersExact ==
  /\ c_a = Count({3, 4, 10, 11})
  /\ c_b = Count({2, 3, 9, 10})
  /\ c_c = IF IsReset THEN 0 ELSE Count(6 .. 15)
  /\ c_d = Count(13 .. 16)
  /\ total_msg_received = IF ThreadsAt({5, 6}) = {} THEN 0 ELSE Count({6, 7})
  /\ gvt_nodes = IF ThreadsAt({0}) = Threads THEN 0 ELSE 1

\* The threads go through a round together: none is further ahead of another
\* than the counters allow.
InStep ==
  /\ \A th \in Threads : Pos(th) \in 0 .. 16
  /\ \A a, b \in Threads : a # b => Pos(b) \in Beside(Pos(a))

\* While some wait for the minimum and others have not yet come, the thread
\* that computes it is there.
FirstStays ==
  ThreadsAt({15}) # {} /\ ThreadsAt({11, 12}) # {} => ThreadsAt({13, 14}) # {}

\* Two threads have different colours only while one has flipped its own at
\* the end of the first reduction and the other has not.
ColoursAgree ==
  \A a, b \in Threads : gvt_phase[a] # gvt_phase[b] <=> {Pos(a), Pos(b)} = {4, 5}

RoundIInv ==
  /\ GvtTypeOK
  /\ InStep
  /\ CountersExact
  /\ FirstStays
  /\ ColoursAgree

=============================================================================
