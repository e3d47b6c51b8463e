------------------------------ MODULE TimeWarp ------------------------------
(***************************************************************************)
(* The optimistic core of ROOT-Sim on one node: worker threads extract     *)
(* messages from their queues, process them speculatively, and undo work   *)
(* with rollbacks and anti-messages (lp/process.c, datatypes/msg_queue.c,  *)
(* gvt/fossil.c and the checkpoint log of mm/buddy/multi.c).               *)
(*                                                                         *)
(* Every access to memory shared between threads is a step of its own: the *)
(* CAS that pushes on a message list, the exchange that empties it, and    *)
(* every atomic add on lp_msg.flags.  What a thread does between two of    *)
(* them touches only its own LPs and belongs to the step before.           *)
(*                                                                         *)
(* The simulation model is abstract: Handler(lp, st, ev) is what LP lp     *)
(* schedules when it processes event ev in state st, and the state of an   *)
(* LP is the sequence of the events it has processed, which tells apart    *)
(* any two executions that a real model could tell apart.                  *)
(*                                                                         *)
(* Abstracted: message payloads (folded into the type rank ty), pointers   *)
(* (members of Msgs; an allocation takes the least free one), remote       *)
(* messages, retractable messages, termination detection, statistics.      *)
(***************************************************************************)
EXTENDS Integers, Sequences, FiniteSets, Functions

CONSTANTS
  Threads,       \* the worker threads of the node
  LPs,           \* the logical processes
  Rid,           \* LP -> thread: lid_to_rid
  Msgs,          \* the addresses an allocation can return (a set of naturals)
  MaxT,          \* the horizon of the simulation model, in ticks
  InitTy,        \* the rank of LP_INIT, above every type of the model
  CkptInterval,  \* global_config.ckpt_interval
  GvtValues,     \* the GVT values the reductions of an instance may return
  InitAddr,      \* the addresses of the messages that exist at the start
  Handler(_,_,_) \* (lp, state, event) -> sequence of [dest, t, ty]

Times  == 0 .. MaxT
Event  == [t : Times, ty : 0 .. InitTy]
MsgRec == [dest : LPs, t : Times, ty : 0 .. InitTy]

ASSUME ConstAssumption ==
  /\ LPs # {}
  /\ Rid \in [LPs -> Threads]
  /\ Msgs \subseteq Nat
  /\ IsFiniteSet(Msgs)
  /\ MaxT \in Nat
  /\ InitTy \in Nat
  /\ CkptInterval \in Nat \ {0}
  /\ GvtValues \subseteq 1 .. MaxT + 1

(***************************************************************************)
(* Bits of lp_msg.flags (enum msg_flag in lp/msg.h).                       *)
(***************************************************************************)
ANTI == 1
PROCESSED == 2
IsAnti(f) == f % 2 = 1
IsProcessed(f) == (f \div 2) % 2 = 1

VARIABLES
  msg,     \* content of the message at each address
  flags,   \* lp_msg.flags
  live,    \* addresses allocated and not yet freed
  marked,  \* history variable: addresses some sender may still undo
  list,    \* queues[rid].list: messages pushed for a thread
  heap,    \* mqp: the private queue of a thread
  p_msgs,  \* process_ctx.p_msgs: entries sent (mark_msg_sent) or past
  bound,   \* process_ctx.bound
  state,   \* the events whose effects are in the LP state
  logs,    \* mm_state.logs: checkpoints, each with the index it refers to
  ckpt_rem,\* auto_ckpt.ckpt_rem
  gvt,     \* fossil_gvt_current of each thread
  epoch,   \* the GVT at which an LP was last collected (lp->fossil_epoch)
  pc,      \* where each thread is in process_msg
  cur,     \* the message a thread has extracted
  past_i,  \* the index a rollback goes back to
  undo_i,  \* the entry of p_msgs a rollback looks at next
  outs     \* what the running handler has still to schedule

msgVars == <<msg, flags, live, marked>>
lpVars  == <<p_msgs, bound, state, logs, ckpt_rem, epoch>>
vars == <<msg, flags, live, marked, list, heap, p_msgs, bound, state, logs,
          ckpt_rem, gvt, epoch, pc, cur, past_i, undo_i, outs>>

PCs == {"idle", "extracted", "check", "undo", "reinsert", "restore",
        "dispatch", "send"}

-----------------------------------------------------------------------------
(***************************************************************************)
(* Reading the log of an LP.                                               *)
(***************************************************************************)
Past(m) == [k |-> "past", m |-> m]
Sent(m) == [k |-> "sent", m |-> m]
Entry == [k : {"past", "sent"}, m : Msgs]

Content(m) == [t |-> msg[m].t, ty |-> msg[m].ty]

PastIdx(lp) == {i \in DOMAIN p_msgs[lp] : p_msgs[lp][i].k = "past"}
PastMsgs(lp) == {p_msgs[lp][i].m : i \in PastIdx(lp)}

\* the greatest element of a set of naturals, 0 if it is empty
Greatest(S) == IF S = {} THEN 0 ELSE CHOOSE i \in S : \A j \in S : j <= i

\* the events of the past entries of a piece of a log, in order
Events(s) ==
  LET E[i \in 0 .. Len(s)] ==
        IF i = 0 THEN <<>>
        ELSE IF s[i].k = "past" THEN Append(E[i - 1], Content(s[i].m)) ELSE E[i - 1]
  IN  E[Len(s)]

(***************************************************************************)
(* msg_is_before: time first, then the ANTI bits of the two messages, then *)
(* the content.  The bits are read without synchronisation while senders   *)
(* set them, so a reader may still see an older value: anti is the set of  *)
(* the messages it sees as anti-messages.                                  *)
(***************************************************************************)
BeforeByTime(a, b, anti) == msg[a].t < msg[b].t  \* fault: ties in any order

Before(a, b, anti) ==
  \/ msg[a].t < msg[b].t
  \/ /\ msg[a].t = msg[b].t
     /\ \/ a \in anti /\ b \notin anti
        \/ (a \in anti <=> b \in anti) /\ msg[a].ty > msg[b].ty

AntiMsgs == {m \in live : IsAnti(flags[m])}

\* the test for a straggler in process_msg
IsStraggler(lp, m, anti) ==
  /\ bound[lp] >= msg[m].t
  /\ Before(m, p_msgs[lp][Len(p_msgs[lp])].m, anti)

\* fault: the scan runs down to the first message of the log
MatchFirst(lp, s, anti) == CHOOSE i \in PastIdx(lp) : \A j \in PastIdx(lp) : i <= j

MatchStraggler(lp, s, anti) ==
  Greatest({i \in PastIdx(lp) : /\ i < Len(p_msgs[lp])
                            /\ ~ Before(s, p_msgs[lp][i].m, anti)})

MatchAnti(lp, a) ==
  LET at == Greatest({i \in PastIdx(lp) : p_msgs[lp][i].m = a})
  IN  Greatest({i \in PastIdx(lp) : i < at})

\* the last checkpoint of a log of checkpoints taken at or before index i
LogAt(log, i) == Greatest({j \in DOMAIN log : log[j].ref <= i})

-----------------------------------------------------------------------------
(***************************************************************************)
(* fossil_lp_collect: cut the part of the log that no rollback can reach,  *)
(* down to the last checkpoint before the GVT, and free its messages.      *)
(***************************************************************************)
FossilIdx(lp, g) == Greatest({i \in PastIdx(lp) : msg[p_msgs[lp][i].m].t < g})

\* fault: the checkpoints keep their old indexes
KeepRefs(log, j) == SubSeq(log, j, Len(log))

\* model_allocator_fossil_lp_collect: the checkpoints from j on, renumbered
Rebase(log, j) ==
  [k \in 1 .. Len(log) - j + 1 |->
     [log[k + j - 1] EXCEPT !.ref = @ - log[j].ref]]

FossilCollect(lp, g) ==
  LET i == FossilIdx(lp, g) IN
  IF i = 0
  THEN UNCHANGED <<p_msgs, logs, epoch, live, marked>>
  ELSE LET j   == LogAt(logs[lp], i)
           ref == logs[lp][j].ref
           dead == {p_msgs[lp][k].m : k \in {n \in PastIdx(lp) : n <= ref}}
           rest == SubSeq(p_msgs[lp], ref + 1, Len(p_msgs[lp]))
       IN  /\ p_msgs' = [p_msgs EXCEPT ![lp] = rest]
           /\ logs' = [logs EXCEPT ![lp] = Rebase(@, j)]
           /\ epoch' = [epoch EXCEPT ![lp] = g]
           /\ live' = live \ dead
           /\ marked' = marked \ dead

(***************************************************************************)
(* msg_queue_extract: empty the list into the heap, take a first message   *)
(* of the heap.  The ANTI bit takes part in the heap order and may be set    *)
(* in a message that is in the heap, which only keeps the order of times   *)
(* then: any of the earliest may come out.  process_msg then collects the  *)
(* fossils of the destination LP if a GVT was computed since it last did.  *)
(***************************************************************************)
First(q) == {m \in q : \A n \in q : msg[m].t <= msg[n].t}

Extract(th) ==
  LET q == heap[th] \cup list[th] IN
  /\ pc[th] = "idle"
  /\ \E m \in First(q) :
       LET lp == msg[m].dest IN
       /\ list' = [list EXCEPT ![th] = {}]
       /\ heap' = [heap EXCEPT ![th] = q \ {m}]
       /\ cur' = [cur EXCEPT ![th] = m]
       /\ pc' = [pc EXCEPT ![th] = "extracted"]
       /\ IF epoch[lp] # gvt[th]
          THEN /\ FossilCollect(lp, gvt[th])
               /\ bound' = [bound EXCEPT ![lp] =
                              IF p_msgs'[lp] = <<>> THEN -1 ELSE @]
          ELSE UNCHANGED <<p_msgs, logs, epoch, live, marked, bound>>
  /\ UNCHANGED <<msg, flags, state, ckpt_rem, gvt, past_i, undo_i, outs>>

(***************************************************************************)
(* The atomic add that claims the extracted message, and what it decides:  *)
(* a message never processed whose sender took it back is dropped, one     *)
(* that is in the log is rolled back, any other goes on to be processed.   *)
(***************************************************************************)
Claim(th) ==
  LET m == cur[th]
      lp == msg[m].dest
      f == flags[m]
  IN
  /\ pc[th] = "extracted"
  /\ flags' = [flags EXCEPT ![m] = f + PROCESSED]
  /\ \/ /\ f = ANTI
        /\ live' = live \ {m}
        /\ bound' = [bound EXCEPT ![lp] = IF p_msgs[lp] = <<>> THEN -1 ELSE @]
        /\ pc' = [pc EXCEPT ![th] = "idle"]
        /\ UNCHANGED <<past_i, undo_i>>
     \/ /\ f = ANTI + PROCESSED
        /\ past_i' = [past_i EXCEPT ![th] = MatchAnti(lp, m)]
        /\ undo_i' = [undo_i EXCEPT ![th] = past_i'[th] + 1]
        /\ pc' = [pc EXCEPT ![th] = "undo"]
        /\ UNCHANGED <<live, bound>>
     \/ /\ ~ IsAnti(f)
        /\ pc' = [pc EXCEPT ![th] = "check"]
        /\ UNCHANGED <<live, bound, past_i, undo_i>>
  /\ UNCHANGED <<msg, marked, list, heap, p_msgs, state, logs, ckpt_rem, gvt,
                 epoch, cur, outs>>

\* The test for a straggler, and match_straggler_msg.
Check(th) ==
  LET m == cur[th]
      lp == msg[m].dest
  IN
  /\ pc[th] = "check"
  /\ \E anti \in SUBSET AntiMsgs :
       IF IsStraggler(lp, m, anti)
       THEN /\ past_i' = [past_i EXCEPT ![th] = MatchStraggler(lp, m, anti)]
            /\ undo_i' = [undo_i EXCEPT ![th] = past_i'[th] + 1]
            /\ pc' = [pc EXCEPT ![th] = "undo"]
       ELSE /\ pc' = [pc EXCEPT ![th] = "dispatch"]
            /\ UNCHANGED <<past_i, undo_i>>
  /\ UNCHANGED <<msgVars, list, heap, lpVars, gvt, cur, outs>>

(***************************************************************************)
(* send_anti_messages, one atomic add of its loop: a sent entry gets its   *)
(* ANTI bit, a past entry loses its PROCESSED bit; the message goes back   *)
(* to the queue of its destination when nobody else will put it there.     *)
(***************************************************************************)
\* faults: nobody, or always somebody, puts an undone message back
NeverQueues(f) == FALSE
AlwaysQueues(f) == TRUE

\* by the value the add returned, of an entry sent and of a past one
SenderQueues(f) == IsProcessed(f)
ReceiverQueues(f) == ~ IsAnti(f)

NextUndo(th, i) ==
  IF i < Len(p_msgs[msg[cur[th]].dest]) THEN "undo" ELSE "restore"

UndoSent(th) ==
  LET e == p_msgs[msg[cur[th]].dest][undo_i[th]] IN
  /\ pc[th] = "undo"
  /\ e.k = "sent"
  /\ flags' = [flags EXCEPT ![e.m] = @ + ANTI]
  /\ marked' = marked \ {e.m}
  /\ IF SenderQueues(flags[e.m])
     THEN /\ pc' = [pc EXCEPT ![th] = "reinsert"]
          /\ UNCHANGED undo_i
     ELSE /\ pc' = [pc EXCEPT ![th] = NextUndo(th, undo_i[th])]
          /\ undo_i' = [undo_i EXCEPT ![th] = @ + 1]
  /\ UNCHANGED <<msg, live, list, heap, lpVars, gvt, cur, past_i, outs>>

UndoPast(th) ==
  LET e == p_msgs[msg[cur[th]].dest][undo_i[th]] IN
  /\ pc[th] = "undo"
  /\ e.k = "past"
  /\ flags' = [flags EXCEPT ![e.m] = @ - PROCESSED]
  /\ IF ReceiverQueues(flags[e.m])
     THEN /\ pc' = [pc EXCEPT ![th] = "reinsert"]
          /\ UNCHANGED undo_i
     ELSE /\ pc' = [pc EXCEPT ![th] = NextUndo(th, undo_i[th])]
          /\ undo_i' = [undo_i EXCEPT ![th] = @ + 1]
  /\ UNCHANGED <<msg, live, marked, list, heap, lpVars, gvt, cur, past_i, outs>>

\* msg_queue_insert, from the loop above
Reinsert(th) ==
  LET m == p_msgs[msg[cur[th]].dest][undo_i[th]].m
      dst == Rid[msg[m].dest]
  IN
  /\ pc[th] = "reinsert"
  /\ list' = [list EXCEPT ![dst] = @ \cup {m}]
  /\ pc' = [pc EXCEPT ![th] = NextUndo(th, undo_i[th])]
  /\ undo_i' = [undo_i EXCEPT ![th] = @ + 1]
  /\ UNCHANGED <<msgVars, heap, lpVars, gvt, cur, past_i, outs>>

(***************************************************************************)
(* The rest of do_rollback: cut the log, restore the last checkpoint that  *)
(* is not after the cut, and re-execute silently up to the cut.  Then the  *)
(* straggler is processed; or the message, if it came as an anti-message   *)
(* (only then is it still in the log), is freed.                           *)
(***************************************************************************)
\* fault: the event of the last entry is not executed again
SilentExecutionShort(st, log, last, i) == st \o Events(SubSeq(log, last + 1, i - 1))

SilentExecution(st, log, last, i) == st \o Events(SubSeq(log, last + 1, i))

Rollback(lp, i) ==
  LET j  == LogAt(logs[lp], i)
      ck == logs[lp][j]
  IN /\ p_msgs' = [p_msgs EXCEPT ![lp] = SubSeq(@, 1, i)]
     /\ logs' = [logs EXCEPT ![lp] = SubSeq(@, 1, j)]
     /\ state' = [state EXCEPT ![lp] =
                    SilentExecution(ck.st, p_msgs[lp], ck.ref, i)]

Restore(th) ==
  LET m == cur[th]
      lp == msg[m].dest
  IN
  /\ pc[th] = "restore"
  /\ Rollback(lp, past_i[th])
  /\ IF m \in PastMsgs(lp)
     THEN /\ live' = live \ {m}
          /\ bound' = [bound EXCEPT ![lp] = IF past_i[th] = 0 THEN -1 ELSE @]
          /\ pc' = [pc EXCEPT ![th] = "idle"]
     ELSE /\ pc' = [pc EXCEPT ![th] = "dispatch"]
          /\ UNCHANGED <<live, bound>>
  /\ UNCHANGED <<msg, flags, marked, list, heap, ckpt_rem, gvt, epoch, cur,
                 past_i, undo_i, outs>>

-----------------------------------------------------------------------------
(***************************************************************************)
(* common_msg_process: the handler runs, its ScheduleNewEvent calls follow *)
(* one by one, then process_msg logs the message and may checkpoint.       *)
(***************************************************************************)
Dispatch(th) ==
  LET m == cur[th]
      lp == msg[m].dest
  IN
  /\ pc[th] = "dispatch"
  /\ outs' = [outs EXCEPT ![th] = Handler(lp, state[lp], Content(m))]
  /\ state' = [state EXCEPT ![lp] = Append(@, Content(m))]
  /\ pc' = [pc EXCEPT ![th] = "send"]
  /\ UNCHANGED <<msgVars, list, heap, p_msgs, bound, logs, ckpt_rem, gvt,
                 epoch, cur, past_i, undo_i>>

Fresh == CHOOSE m \in Msgs \ live : \A n \in Msgs \ live : m <= n

ScheduleNewEvent(th) ==
  LET lp == msg[cur[th]].dest
      o == Head(outs[th])
      m == Fresh
      dst == Rid[o.dest]
  IN
  /\ pc[th] = "send"
  /\ outs[th] # <<>>
  /\ Msgs \ live # {}
  /\ live' = live \cup {m}
  /\ marked' = marked \cup {m}
  /\ msg' = [msg EXCEPT ![m] = o]
  /\ flags' = [flags EXCEPT ![m] = 0]
  /\ list' = [list EXCEPT ![dst] = @ \cup {m}]
  /\ p_msgs' = [p_msgs EXCEPT ![lp] = Append(@, Sent(m))]
  /\ outs' = [outs EXCEPT ![th] = Tail(@)]
  /\ UNCHANGED <<heap, bound, state, logs, ckpt_rem, gvt, epoch, pc, cur,
                 past_i, undo_i>>

\* auto_ckpt_is_needed
CkptIsNeeded(lp) == ckpt_rem[lp] + 1 >= CkptInterval

Finish(th) ==
  LET m == cur[th]
      lp == msg[m].dest
      due == CkptIsNeeded(lp)
  IN
  /\ pc[th] = "send"
  /\ outs[th] = <<>>
  /\ p_msgs' = [p_msgs EXCEPT ![lp] = Append(@, Past(m))]
  /\ bound' = [bound EXCEPT ![lp] = msg[m].t]
  /\ ckpt_rem' = [ckpt_rem EXCEPT ![lp] = IF due THEN 0 ELSE @ + 1]
  /\ logs' = IF due
             THEN [logs EXCEPT ![lp] = Append(@,
                     [ref |-> Len(p_msgs'[lp]), st |-> state[lp]])]
             ELSE logs
  /\ pc' = [pc EXCEPT ![th] = "idle"]
  /\ UNCHANGED <<msgVars, list, heap, state, gvt, epoch, cur, past_i, undo_i,
                 outs>>

(***************************************************************************)
(* Between two calls of process_msg a thread may learn a GVT               *)
(* (fossil_on_gvt).  The reduction is the subject of another module; what  *)
(* this one takes from it is that the value does not exceed the time of    *)
(* any message that is queued or in the hands of a thread.                 *)
(***************************************************************************)
Queued == UNION {list[th] \cup heap[th] : th \in Threads}
InHand == {cur[th] : th \in {x \in Threads : pc[x] # "idle"}}
IsGvt(g) == \A m \in Queued \cup InHand : g <= msg[m].t

OnGvt(th) ==
  /\ pc[th] = "idle"
  /\ \E g \in GvtValues :
       /\ g > gvt[th]
       /\ IsGvt(g)
       /\ gvt' = [gvt EXCEPT ![th] = g]
  /\ UNCHANGED <<msgVars, list, heap, lpVars, pc, cur, past_i, undo_i, outs>>

-----------------------------------------------------------------------------
(***************************************************************************)
(* The start: process_lp_init has run the LP_INIT event of every LP (all   *)
(* threads meet at a barrier before the main loop), so each log holds what *)
(* that event sent and the event itself, under one forced checkpoint.      *)
(***************************************************************************)
InitEvent == [t |-> 0, ty |-> InitTy]
InitOuts(lp) == Handler(lp, <<>>, InitEvent)

\* slot 0 of an LP is its LP_INIT message, slot i the i-th one this sent
InitSlots == UNION {{lp} \X (0 .. Len(InitOuts(lp))) : lp \in LPs}
InitUsed == {InitAddr[x] : x \in InitSlots}
InitSlot(m) == CHOOSE x \in InitSlots : InitAddr[x] = m
NoMsg == [dest |-> CHOOSE lp \in LPs : TRUE, t |-> 0, ty |-> 0]

ASSUME InitAddrAssumption == InitAddr \in Injection(InitSlots, Msgs)

InitMsg(m) ==
  IF m \notin InitUsed THEN NoMsg
  ELSE LET lp == InitSlot(m)[1]
           i  == InitSlot(m)[2]
       IN  IF i = 0 THEN [dest |-> lp, t |-> 0, ty |-> InitTy]
           ELSE InitOuts(lp)[i]

Init ==
  /\ live = InitUsed
  /\ marked = {m \in InitUsed : InitSlot(m)[2] > 0}
  /\ msg = [m \in Msgs |-> InitMsg(m)]
  /\ flags = [m \in Msgs |-> IF m \in InitUsed \ marked THEN PROCESSED ELSE 0]
  /\ list = [th \in Threads |-> {m \in marked : Rid[msg[m].dest] = th}]
  /\ heap = [th \in Threads |-> {}]
  /\ p_msgs = [lp \in LPs |->
                 Append([i \in 1 .. Len(InitOuts(lp)) |-> Sent(InitAddr[<<lp, i>>])],
                        Past(InitAddr[<<lp, 0>>]))]
  /\ bound = [lp \in LPs |-> 0]
  /\ state = [lp \in LPs |-> <<InitEvent>>]
  /\ logs = [lp \in LPs |-> <<[ref |-> Len(p_msgs[lp]), st |-> <<InitEvent>>]>>]
  /\ ckpt_rem = [lp \in LPs |-> 0]
  /\ gvt = [th \in Threads |-> 0]
  /\ epoch = [lp \in LPs |-> 0]
  /\ pc = [th \in Threads |-> "idle"]
  /\ cur = [th \in Threads |-> CHOOSE m \in Msgs : \A n \in Msgs : m <= n]
  /\ past_i = [th \in Threads |-> 0]
  /\ undo_i = [th \in Threads |-> 0]
  /\ outs = [th \in Threads |-> <<>>]

\* msg_queue_extract finds nothing: process_msg returns at once
Poll(th) ==
  /\ pc[th] = "idle"
  /\ heap[th] \cup list[th] = {}
  /\ UNCHANGED vars

\* process_msg, the body of the main loop of a worker
ProcessMsg(th) ==
  \/ Extract(th)
  \/ Claim(th)
  \/ Check(th)
  \/ UndoSent(th)
  \/ UndoPast(th)
  \/ Reinsert(th)
  \/ Restore(th)
  \/ Dispatch(th)
  \/ ScheduleNewEvent(th)
  \/ Finish(th)

Next == \E th \in Threads : ProcessMsg(th) \/ Poll(th) \/ OnGvt(th)

Spec == Init /\ [][Next]_vars

\* the operating system runs every worker thread, and none ever blocks
FairSpec == Spec /\ \A th \in Threads : WF_vars(ProcessMsg(th))

-----------------------------------------------------------------------------
(***************************************************************************)
(* Properties.                                                             *)
(***************************************************************************)

\* Every variable has the shape the C declarations give it; the flags never
\* leave 0..5 (5 is an anti-message being handled).
TypeOK ==
  /\ msg \in [Msgs -> MsgRec]
  /\ flags \in [Msgs -> 0 .. 5]
  /\ live \subseteq Msgs
  /\ marked \subseteq Msgs
  /\ list \in [Threads -> SUBSET Msgs]
  /\ heap \in [Threads -> SUBSET Msgs]
  /\ p_msgs \in [LPs -> Seq(Entry)]
  /\ bound \in [LPs -> -1 .. MaxT]
  /\ state \in [LPs -> Seq(Event)]
  /\ logs \in [LPs -> Seq([ref : Nat, st : Seq(Event)])]
  /\ ckpt_rem \in [LPs -> 0 .. CkptInterval - 1]
  /\ gvt \in [Threads -> 0 .. MaxT + 1]
  /\ epoch \in [LPs -> 0 .. MaxT + 1]
  /\ pc \in [Threads -> PCs]
  /\ cur \in [Threads -> Msgs]
  /\ past_i \in [Threads -> Nat]
  /\ undo_i \in [Threads -> Nat]
  /\ outs \in [Threads -> Seq(MsgRec)]

Dest(th) == msg[cur[th]].dest
Touched(th) == p_msgs[Dest(th)][undo_i[th]].m

\* A rollback finds a checkpoint at or before its target, and a checkpoint
\* never refers to the middle of the entries of one event.
CheckpointReachable ==
  \A lp \in LPs :
    /\ logs[lp] # <<>>
    /\ \A j \in DOMAIN logs[lp] :
         LET r == logs[lp][j].ref IN
         r = 0 \/ (r <= Len(p_msgs[lp]) /\ p_msgs[lp][r].k = "past")
    /\ \A th \in Threads :
         (pc[th] \in {"undo", "reinsert", "restore"} /\ Dest(th) = lp)
           => logs[lp][1].ref <= past_i[th]

\* The state of an LP is what its log says: the events of the first retained
\* checkpoint, then those logged after it, then the one being processed; and
\* every retained checkpoint holds the state of the entry it refers to.
StateMatchesLog ==
  \A lp \in LPs :
    LET base == logs[lp][1]
        after(i) == base.st \o Events(SubSeq(p_msgs[lp], base.ref + 1, i))
        running == {th \in Threads : pc[th] = "send" /\ Dest(th) = lp}
    IN  /\ \A j \in DOMAIN logs[lp] : logs[lp][j].st = after(logs[lp][j].ref)
        /\ state[lp] = after(Len(p_msgs[lp]))
                         \o IF running = {} THEN <<>>
                            ELSE <<Content(cur[CHOOSE th \in running : TRUE])>>

\* No message older than a GVT that some thread has acted upon can appear.
GvtIsSafe == \A th \in Threads : IsGvt(gvt[th])

AllIdle == \A th \in Threads : pc[th] = "idle"

\* Every speculative execution settles: in the end all queues are empty, all
\* threads poll, and no anti-message is left behind in a log.
Quiescent ==
  /\ AllIdle
  /\ Queued = {}
  /\ AntiMsgs = {}
=============================================================================
