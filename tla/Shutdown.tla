------------------------------ MODULE Shutdown ------------------------------
(***************************************************************************)
(* How the worker threads of a node stop: the main loop of                 *)
(* parallel_thread_run and its test of nodes_to_end, the termination       *)
(* detector that reacts to each GVT, RootsimStop, and worker_thread_fini   *)
(* with gvt_msg_drain.  It composes the reduction of GvtRound and the      *)
(* barrier of SyncBarrier.                                                 *)
(*                                                                         *)
(* What a batch of process_msg does is not looked at, except that it       *)
(* extracts messages, whose times bound the next GVT, and may call         *)
(* RootsimStop.  Whether the LPs of a thread have all ended by a GVT       *)
(* (lps_to_end, max_t) is left open.                                       *)
(***************************************************************************)
EXTENDS GvtRound

CONSTANTS
  TermTime,   \* global_config.termination_time
  Stops,      \* how many times the simulation model may call RootsimStop
  LateTimer   \* can gvt_period elapse after the end was announced, before
              \* the master has seen it

ASSUME ShutdownAssumption ==
  /\ TermTime \in 1 .. Inf
  /\ Stops \in Nat
  /\ LateTimer \in BOOLEAN

VARIABLES
  phase, cs, inside, led,  \* the barrier
  at,            \* where each thread is
  nodes_to_end,
  thr_to_end,
  ended,         \* max_t = SIMTIME_MAX: the thread has agreed to end
  stops,         \* the calls of RootsimStop so far
  missed         \* the GVTs that a thread was given outside of its main loop

Barrier == INSTANCE SyncBarrier

barrierVars == <<phase, cs, inside, led>>
endVars == <<nodes_to_end, thr_to_end, ended, stops>>
vars == <<gvtVars, barrierVars, at, endVars, missed>>

\* the loop test, a batch, the call of gvt_phase_run; the flush; the barriers
\* and reductions of gvt_msg_drain; the barriers around the release of the LPs
InLoop == {"test", "process", "gvt"}
Barriers == {"barrier_1", "barrier_2", "barrier_3", "barrier_4"}
Drains == {"drain_1", "drain_2"}
Places == InLoop \cup Barriers \cup Drains \cup {"flush", "fini", "end"}

TypeOK ==
  /\ GvtTypeOK
  /\ Barrier!BarrierTypeOK
  /\ at \in [Threads -> Places]
  /\ nodes_to_end \in -2 * Stops .. 1
  /\ thr_to_end \in -N .. N
  /\ ended \in [Threads -> BOOLEAN]
  /\ stops \in 0 .. Stops
  /\ missed \in [Threads -> 0 .. 1]

\* worker_thread_init has crossed three barriers
Init ==
  /\ GvtInit
  /\ phase = [th \in Threads |-> 3]
  /\ cs = [c \in {0, 1} |-> IF c = 0 THEN 0 ELSE N]
  /\ inside = [th \in Threads |-> FALSE]
  /\ led = [th \in Threads |-> th = Master]
  /\ at = [th \in Threads |-> "test"]
  /\ nodes_to_end = 1
  /\ thr_to_end = N
  /\ ended = [th \in Threads |-> FALSE]
  /\ stops = 0
  /\ missed = [th \in Threads |-> 0]

GoTo(th, place) == at' = [at EXCEPT ![th] = place]

-----------------------------------------------------------------------------
\* termination_cant_end
Test(th) ==
  /\ at[th] = "test"
  /\ GoTo(th, IF nodes_to_end > 0 THEN "process" ELSE "flush")
  /\ UNCHANGED <<gvtVars, barrierVars, endVars, missed>>

\* process_msg: no message is earlier than a GVT
Extract(th) ==
  /\ at[th] = "process"
  /\ \E t \in Times :
       /\ \A x \in Threads : returned[x] <= t
       /\ OnExtraction(th, t)
  /\ UNCHANGED <<barrierVars, at, endVars, missed>>

\* RootsimStop, on one node two control messages
RootsimStop(th) ==
  /\ at[th] = "process"
  /\ stops < Stops
  /\ stops' = stops + 1
  /\ nodes_to_end' = nodes_to_end - 2
  /\ UNCHANGED <<gvtVars, barrierVars, at, thr_to_end, ended, missed>>

EndBatch(th) ==
  /\ at[th] = "process"
  /\ GoTo(th, "gvt")
  /\ UNCHANGED <<gvtVars, barrierVars, endVars, missed>>

\* gvt_phase_run returns a GVT
Returns(th) == MinReduceWait(th) \/ MinWait(th)

\* termination_on_gvt, as a function of what the thread has just been told
TerminationOnGvt(th) ==
  \E lpsEnded \in BOOLEAN :
    IF (lpsEnded /\ ~ ended[th]) \/ returned'[th] >= TermTime
    THEN /\ ended' = [ended EXCEPT ![th] = TRUE]
         /\ thr_to_end' = thr_to_end - 1
         /\ nodes_to_end' = IF thr_to_end = 1 THEN nodes_to_end - 1 ELSE nodes_to_end
    ELSE UNCHANGED <<ended, thr_to_end, nodes_to_end>>

LoopGvt(th) ==
  /\ at[th] = "gvt"
  /\ UNCHANGED <<barrierVars, stops, missed>>
  /\ \/ /\ Returns(th)
        /\ TerminationOnGvt(th)
     \/ /\ PhaseRun(th) /\ ~ Returns(th)
        /\ nodes_to_end > 0 \/ LateTimer \/ ~ StartGvt(th)
        /\ UNCHANGED <<thr_to_end, ended, nodes_to_end>>
     \/ /\ ~ InCall(th)
        /\ UNCHANGED <<gvtVars, thr_to_end, ended, nodes_to_end>>
  /\ GoTo(th, IF InCall(th)' THEN "gvt" ELSE "test")

-----------------------------------------------------------------------------
\* stats_on_gvt writes a row for each GVT; like the other handlers of a GVT it is
\* called in the main loop only.
RowIsMissed(th) ==
  missed' = [missed EXCEPT ![th] = @ + IF Returns(th) THEN 1 ELSE 0]

\* gvt_msg_drain: run the reduction until this thread is idle.
FlushStep(th) ==
  /\ at[th] = "flush"
  /\ thread_phase[th] # "idle"
  /\ PhaseRun(th)
  /\ RowIsMissed(th)
  /\ UNCHANGED <<barrierVars, at, endVars>>

\* fault: no barrier between the flush and the last reductions
FlushThenDrain(th) ==
  /\ at[th] = "flush"
  /\ thread_phase[th] = "idle"
  /\ GoTo(th, "drain_1")
  /\ UNCHANGED <<gvtVars, barrierVars, endVars, missed>>

FlushDone(th) ==
  /\ at[th] = "flush"
  /\ thread_phase[th] = "idle"
  /\ GoTo(th, "barrier_1")
  /\ UNCHANGED <<gvtVars, barrierVars, endVars, missed>>

\* sync_thread_barrier, and where its end leads
After(b) ==
  CASE b = "barrier_1" -> "barrier_2"
    [] b = "barrier_2" -> "drain_1"
    [] b = "barrier_3" -> "fini"
    [] b = "barrier_4" -> "end"

Arrive(th) ==
  /\ at[th] \in Barriers
  /\ Barrier!Arrive(th)
  /\ UNCHANGED <<gvtVars, at, endVars, missed>>

Leave(th) ==
  /\ at[th] \in Barriers
  /\ Barrier!Leave(th)
  /\ GoTo(th, After(at[th]))
  /\ UNCHANGED <<gvtVars, endVars, missed>>

\* fault: no barrier between the last reduction and the release
DrainThenFini(th) ==
  /\ at[th] \in Drains
  /\ PhaseRun(th)
  /\ IF Returns(th)
     THEN GoTo(th, IF at[th] = "drain_1" THEN "drain_2" ELSE "fini")
     ELSE UNCHANGED at
  /\ UNCHANGED <<barrierVars, endVars, missed>>

\* fault: the timer is not reset, and the period does not elapse again
DrainUntimed(th) ==
  /\ at[th] \in Drains
  /\ PhaseRun(th) /\ ~ StartGvt(th)
  /\ IF Returns(th)
     THEN GoTo(th, IF at[th] = "drain_1" THEN "drain_2" ELSE "barrier_3")
     ELSE UNCHANGED at
  /\ UNCHANGED <<barrierVars, endVars, missed>>

\* two more reductions, until each has returned a GVT to this thread; the
\* timer is reset, so the first thread starts them at once
DrainStep(th) ==
  /\ at[th] \in Drains
  /\ PhaseRun(th)
  /\ IF Returns(th)
     THEN GoTo(th, IF at[th] = "drain_1" THEN "drain_2" ELSE "barrier_3")
     ELSE UNCHANGED at
  /\ UNCHANGED <<barrierVars, endVars, missed>>

\* lp_fini and msg_queue_fini
Fini(th) ==
  /\ at[th] = "fini"
  /\ GoTo(th, "barrier_4")
  /\ UNCHANGED <<gvtVars, barrierVars, endVars, missed>>

Next ==
  \E th \in Threads :
    \/ Test(th)
    \/ Extract(th)
    \/ RootsimStop(th)
    \/ EndBatch(th)
    \/ LoopGvt(th)
    \/ FlushStep(th)
    \/ FlushDone(th)
    \/ Arrive(th)
    \/ Leave(th)
    \/ DrainStep(th)
    \/ Fini(th)

Spec == Init /\ [][Next]_vars

(***************************************************************************)
(* All threads are scheduled and every batch ends; a reduction that can    *)
(* move in the loop is not missed for ever.  At each of its places a       *)
(* thread has one of these actions, so fairness of their disjunction is    *)
(* fairness of each of them.                                               *)
(***************************************************************************)
GoesOn(th) ==
  \/ Test(th)
  \/ EndBatch(th)
  \/ LoopGvt(th)
  \/ FlushStep(th)
  \/ FlushDone(th)
  \/ Arrive(th)
  \/ Leave(th)
  \/ DrainStep(th)
  \/ Fini(th)

FairSpec ==
  /\ Spec
  /\ \A th \in Threads :
       /\ WF_vars(GoesOn(th))
       /\ SF_vars(LoopGvt(th) /\ PhaseRun(th) /\ ~ StartGvt(th))

-----------------------------------------------------------------------------
\* No thread drains, and none frees its LPs and queues, while another can
\* still process a message or push one in its queue.
LoopIsOverBeforeDrain ==
  \A a, b \in Threads :
    at[a] \in {"barrier_2", "fini", "end"} \cup Drains => at[b] \notin InLoop

\* When LPs are freed no reduction is in progress: every thread has had the
\* result of both last ones, and nobody reads or writes the shared counters.
ReductionsAreOver ==
  \A a, b \in Threads :
    at[a] \in {"fini", "barrier_4", "end"} =>
      /\ node_phase[b] = "done"
      /\ gvt_phase[a] = gvt_phase[b]

\* The master has started a reduction that waits for threads which have left
\* the loop, and which wait for the master at the barrier.
FlushIsStuck ==
  /\ at[Master] = "flush" /\ thread_phase[Master] # "idle"
  /\ \E th \in Threads : at[th] = "barrier_1" /\ thread_phase[th] = "idle"

\* Once the end is announced every thread gets through worker_thread_fini,
\* unless the flush is stuck.
ShutdownCompletes ==
  nodes_to_end <= 0 ~> FlushIsStuck \/ \A th \in Threads : at[th] = "end"

\* "it makes sure that all the nodes complete the potentially ongoing GVT
\* algorithm": the first loop of gvt_msg_drain ends.
FlushCompletes ==
  \A th \in Threads : at[th] = "flush" ~> at[th] = "barrier_1"

\* "In a correctly completed simulation n_siz / 16 == t_siz / (s_cnt * 8) for
\* each node and thread": every thread has written as many rows of statistics
\* as the others.  The rounds are the same for all, and the last two are
\* written by none, so they differ as the missed ones do.
RowsAgree ==
  (\A th \in Threads : at[th] = "end") => \A a, b \in Threads : missed[a] = missed[b]

-----------------------------------------------------------------------------
(***************************************************************************)
(* The inductive invariant.                                                *)
(***************************************************************************)
\* the barriers of worker_thread_fini that the thread has left
Passed(th) ==
  CASE at[th] = "barrier_2" -> 1
    [] at[th] \in Drains \cup {"barrier_3"} -> 2
    [] at[th] \in {"fini", "barrier_4"} -> 3
    [] at[th] = "end" -> 4
    [] OTHER -> 0

\* Where a thread is and what it has counted agree: the barriers are numbered
\* modulo 4, after the three of the start.
PlacesMatch ==
  \A th \in Threads :
    /\ phase[th] = (Passed(th) + 3) % 4
    /\ inside[th] => at[th] \in Barriers

\* Nobody is two barriers ahead of another, and who is one ahead has left a
\* barrier that the other has reached.  The barrier promises this modulo 4.
CrossTogether ==
  \A a, b \in Threads :
    \/ Passed(a) <= Passed(b)
    \/ Passed(a) = Passed(b) + 1 /\ inside[b]

\* A thread stops calling gvt_phase_run when it has a GVT in its hands.
LastGvtIsKept ==
  \A th \in Threads : at[th] \in {"barrier_3", "fini", "barrier_4", "end"} => Pos(th) = 16

\* nodes_to_end tells the calls of RootsimStop, and whether all threads have
\* agreed; the last of them is noticed once, although each may agree again.
EndIsCounted ==
  nodes_to_end = 1 - 2 * stops - IF thr_to_end <= 0 THEN 1 ELSE 0

IInv ==
  /\ at \in [Threads -> Places]
  /\ thr_to_end \in Int
  /\ stops \in 0 .. Stops
  /\ RoundIInv
  /\ Barrier!BarrierIInv
  /\ PlacesMatch
  /\ CrossTogether
  /\ LastGvtIsKept
  /\ EndIsCounted

=============================================================================
