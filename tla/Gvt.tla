-------------------------------- MODULE Gvt ---------------------------------
(***************************************************************************)
(* The reduction of GvtRound among threads that keep processing messages:  *)
(* the main loop of parallel_thread_run, which alternates a batch of calls *)
(* of process_msg and one of gvt_phase_run.  Of a message only its time    *)
(* matters, so a queue is the set of the times found in it.                *)
(***************************************************************************)
EXTENDS GvtRound

VARIABLES
  at,     \* where each thread is in the main loop: "process" or "gvt"
  queue,  \* the times of the messages queued for each thread
  hand    \* the time of the message a thread is processing, 0 if none

vars == <<gvtVars, at, queue, hand>>
work == <<at, queue, hand>>

TypeOK ==
  /\ GvtTypeOK
  /\ at \in [Threads -> {"process", "gvt"}]
  /\ queue \in [Threads -> SUBSET Times]
  /\ hand \in [Threads -> 0 .. MaxT]

Init ==
  /\ GvtInit
  /\ at = [th \in Threads |-> "process"]
  /\ queue \in [Threads -> SUBSET Times]
  /\ hand = [th \in Threads |-> 0]

\* process_msg takes an earliest message; there may be another of its time
Extract(th) ==
  /\ at[th] = "process"
  /\ hand[th] = 0
  /\ queue[th] # {}
  /\ LET t == Min(queue[th]) IN
     /\ hand' = [hand EXCEPT ![th] = t]
     /\ \E q \in {queue[th], queue[th] \ {t}} : queue' = [queue EXCEPT ![th] = q]
     /\ OnExtraction(th, t)
  /\ UNCHANGED at

\* what processing it may put in a queue: new messages, anti-messages and
\* messages undone by a rollback, none of them earlier than the one in hand
Insert(th) ==
  /\ hand[th] # 0
  /\ \E dst \in Threads, t \in hand[th] .. MaxT :
       queue' = [queue EXCEPT ![dst] = @ \cup {t}]
  /\ UNCHANGED <<gvtVars, at, hand>>

\* end of process_msg; the batch may be over
Finish(th) ==
  /\ hand[th] # 0
  /\ hand' = [hand EXCEPT ![th] = 0]
  /\ \E next \in {"process", "gvt"} : at' = [at EXCEPT ![th] = next]
  /\ UNCHANGED <<gvtVars, queue>>

\* nothing to extract in what is left of the batch
Poll(th) ==
  /\ at[th] = "process"
  /\ hand[th] = 0
  /\ queue[th] = {}
  /\ at' = [at EXCEPT ![th] = "gvt"]
  /\ UNCHANGED <<gvtVars, queue, hand>>

\* one call of gvt_phase_run, which moves the reduction or has to wait
GvtStep(th) ==
  /\ at[th] = "gvt"
  /\ PhaseRun(th)
  /\ at' = [at EXCEPT ![th] = IF InCall(th)' THEN "gvt" ELSE "process"]
  /\ UNCHANGED <<queue, hand>>

GvtWait(th) ==
  /\ at[th] = "gvt"
  /\ ~ InCall(th)
  /\ at' = [at EXCEPT ![th] = "process"]
  /\ UNCHANGED <<gvtVars, queue, hand>>

Next ==
  \E th \in Threads :
    \/ Extract(th)
    \/ Insert(th)
    \/ Finish(th)
    \/ Poll(th)
    \/ GvtStep(th)
    \/ GvtWait(th)

Spec == Init /\ [][Next]_vars

(***************************************************************************)
(* Every handler returns and every thread keeps looping, so each action    *)
(* that ends a part of the loop happens; and a thread whose reduction can  *)
(* move does not read stale counters for ever.  The timer and the          *)
(* insertions are not forced.                                              *)
(***************************************************************************)
Advance(th) == GvtStep(th) /\ ~ StartGvt(th)

FairSpec ==
  /\ Spec
  /\ \A th \in Threads :
       /\ WF_vars(Extract(th))
       /\ WF_vars(Finish(th))
       /\ WF_vars(Poll(th))
       /\ WF_vars(GvtWait(th) \/ GvtStep(th))
       /\ SF_vars(Finish(th) /\ at'[th] = "gvt")
       /\ SF_vars(Advance(th))

-----------------------------------------------------------------------------
Pending ==
  (UNION {queue[th] : th \in Threads}) \cup ({hand[th] : th \in Threads} \ {0})

\* The promise of the module, on which fossil collection, message release and
\* termination rest: nothing earlier than a GVT handed to a thread is or ever
\* will be queued or processed, although no thread stops while it is computed.
GvtIsLowerBound ==
  \A th \in Threads : \A t \in Pending : returned[th] <= t

\* The threads of a node get the same value from a round: one that has read
\* it is never overtaken by the next round while others still have to read.
RoundAgrees ==
  \A a, b \in Threads :
    (node_phase[a] = "done" /\ node_phase[b] = "done") => returned[a] = returned[b]

\* A round that was started is completed by all threads.
RoundCompletes ==
  gvt_nodes = 1 ~> \A th \in Threads : thread_phase[th] = "idle"

-----------------------------------------------------------------------------
(***************************************************************************)
(* The inductive invariant.                                                *)
(***************************************************************************)
PendingOf(th) == queue[th] \cup ({hand[th]} \ {0})

\* what a thread puts in the minimum: its accumulator, until it is copied in
\* the second reduction
Bound(th) == IF Pos(th) \in 11 .. 16 THEN reducing_p[th] ELSE gvt_accumulator[th]

\* since all threads are in the round, th has taken an earliest message from
\* its queue or has found it empty
Covered(th) ==
  \/ Pos(th) \in 4 .. 16
  \/ Pos(th) = 3 /\ (at[th] = "gvt" \/ hand[th] # 0)

\* the minimum of the round is in the slot of the master
IsComputed == ThreadsAt({14, 15, 16}) # {} /\ ThreadsAt({13}) = {}

\* No message is in hand while the round moves on, and one that was extracted
\* in the round is in the accumulator.
HandsAreCounted ==
  \A th \in Threads :
    /\ at[th] = "gvt" => hand[th] = 0
    /\ hand[th] # 0 /\ Pos(th) # 0 => gvt_accumulator[th] <= hand[th]

\* Before the minimum is computed, all that is pending for a covered thread is
\* bounded by what some thread, maybe another, puts in it; then by it.
PendingIsBounded ==
  /\ ~ IsComputed =>
       \A th \in Threads : Covered(th) =>
         \A t \in PendingOf(th) : \E x \in Threads : Bound(x) <= t
  /\ IsComputed =>
       \A th \in Threads : \A t \in PendingOf(th) : reducing_p[Master] <= t

DoneHasMinimum ==
  \A th \in Threads : Pos(th) = 16 => returned[th] = reducing_p[Master]

IInv ==
  /\ TypeOK
  /\ RoundIInv
  /\ HandsAreCounted
  /\ PendingIsBounded
  /\ DoneHasMinimum
  /\ GvtIsLowerBound

=============================================================================
