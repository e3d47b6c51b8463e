----------------------------- MODULE LpRollback -----------------------------
(***************************************************************************)
(* What a worker thread keeps for its LPs beside their messages, and has   *)
(* to keep right when it rolls one of them back:                           *)
(*   - the retractable event of each LP (lib/retractable/retractable.c): a *)
(*     time in the checkpointed state of the LP, and an entry of a heap of *)
(*     the thread (datatypes/retractable_heap.h);                          *)
(*   - whether each LP has ended (gvt/termination.c), outside that state.  *)
(*                                                                         *)
(* The log of an LP holds what it has processed: the time, whether it was  *)
(* the retractable event, what the handler did with it, and what the       *)
(* predicate committed said.  Other messages come from anywhere: the time  *)
(* of the first one in the queue is any time, also in the past of an LP.   *)
(***************************************************************************)
EXTENDS Integers, Sequences, FiniteSets, SequencesExt, FiniteSetsExt

CONSTANTS
  LPs,         \* the LPs of the thread, numbered from 1
  MaxTime,     \* bound: the last time of a message
  TermTime,    \* global_config.termination_time
  HEAP_K,      \* the arity of the heap
  Delays,      \* how far ahead a handler may set the retractable event
  Normal,      \* the ranks of the types of the model, 0 or 1
  EndAtInit,   \* the LPs that may end with LP_INIT
  CkptAt,      \* the lengths of a log at which a checkpoint is taken
  MaxLog       \* bound: entries in the logs of all LPs

ASSUME BooksAssumption ==
  /\ Cardinality(LPs) \in Nat \ {0} /\ LPs = 1 .. Cardinality(LPs)
  /\ MaxTime \in Nat /\ TermTime \in Nat /\ MaxLog \in Nat
  /\ HEAP_K \in Nat \ {0}
  /\ Normal \subseteq 0 .. 1 /\ EndAtInit \subseteq LPs
  /\ Delays \subseteq Nat \ {0}

\* Messages have positive times: 0, which termination_t holds for an LP that
\* has not ended, is the time of LP_INIT only.
Times == 1 .. MaxTime
SIMTIME_MAX == MaxTime + 1
Keep == -1      \* the handler leaves the retractable event alone

VARIABLES
  log,              \* per LP: the past messages of p_msgs
  ckpts,            \* per LP: checkpoints: index -> retractable_ctx
  retractable_ctx,  \* per LP: the time of its event, in the LP state
  retractable_pos,  \* per LP: where its entry is in the heap
  r_queue,          \* the heap: a sequence of [t, lp], the first at index 1
  termination_t,    \* per LP
  lps_to_end,       \* LPs of the thread that have not ended
  max_t,            \* the last time at which one of them ended
  gvt,              \* the last GVT
  voted             \* the thread has taken itself off thr_to_end

booksVars == <<log, ckpts, retractable_ctx, retractable_pos, r_queue,
               termination_t, lps_to_end, max_t, gvt, voted>>

-----------------------------------------------------------------------------
(* The heap, as an array that starts at 0 in the code and at 1 here.       *)

\* A heap is [q |-> the array, pos |-> where each LP's entry is].

ParentI(i) == (i - 2) \div HEAP_K + 1
ChildrenOf(q, i) == {c \in DOMAIN q : ParentI(c) = i /\ c > 1}

\* upd_f: the LP of entry e knows that it is at i.
PutAt(h, i, e) == [q |-> [h.q EXCEPT ![i] = e], pos |-> [h.pos EXCEPT ![e.lp] = i]]

\* elem goes up from i, past what is later; Up[j] has it at j.
MovedUp(h, elem, i) ==
  LET Up[j \in DOMAIN h.q] ==
        IF j > 1 /\ elem.t < h.q[ParentI(j)].t
        THEN PutAt(Up[ParentI(j)], j, h.q[ParentI(j)]) ELSE PutAt(h, j, elem)
  IN  Up[i]

LeastChild(q, i) ==
  Min({c \in ChildrenOf(q, i) : \A d \in ChildrenOf(q, i) : q[c].t <= q[d].t})

\* Or down, past what is earlier.
MovedDown(h, elem, i) ==
  LET Down[j \in DOMAIN h.q] ==
        IF \E c \in ChildrenOf(h.q, j) : h.q[c].t < elem.t
        THEN PutAt(Down[LeastChild(h.q, j)], j, h.q[LeastChild(h.q, j)])
        ELSE PutAt(h, j, elem)
  IN  Down[i]

HeapInsert(h, elem) ==
  MovedUp([h EXCEPT !.q = Append(@, elem)], elem, Len(h.q) + 1)

\* retractable_reschedule: the entry of lp gets time t.
Reschedule(h, lp, t) ==
  LET p == h.pos[lp]
      e == [t |-> t, lp |-> lp]
  IN  IF t = h.q[p].t THEN h
      ELSE IF t > h.q[p].t THEN MovedDown(h, e, p) ELSE MovedUp(h, e, p)

-----------------------------------------------------------------------------
(* Messages, and what a handler does with the retractable event.           *)

LP_RETRACTABLE == 2    \* comes before them among messages of one time
LP_INIT == 3

Before(a, b) == a.t < b.t \/ (a.t = b.t /\ a.ty > b.ty)

\* A handler may set the event to a later time; beyond the horizon it is none.
MaySet(t) == {Keep} \union {Min({t + d, SIMTIME_MAX}) : d \in Delays}
AfterHandler(ctx, set) == IF set = Keep THEN ctx ELSE set

\* What the handlers of entries i + 1 .. k of a log leave of ctx.
Replayed(ctx, l, i, k) ==
  LET C[j \in i .. k] == IF j = i THEN ctx ELSE AfterHandler(C[j - 1], l[j].set)
  IN  C[k]

\* fault: an event that is due at the time of the last message is kept
SilentExecutionLess(ctx, l, i, k) ==
  IF i < k /\ Replayed(ctx, l, i, k) < l[k].t THEN SIMTIME_MAX ELSE Replayed(ctx, l, i, k)

\* dispatcher and retractable_post_silent over entries i + 1 .. k of a log.
SilentExecution(ctx, l, i, k) ==
  IF i < k /\ Replayed(ctx, l, i, k) <= l[k].t THEN SIMTIME_MAX ELSE Replayed(ctx, l, i, k)

\* The retractable_ctx of lp after a rollback to its first k messages.
CkptFor(lp, k) == Max({i \in DOMAIN ckpts[lp] : i <= k})
RestoredCtx(lp, k) ==
  SilentExecution(ckpts[lp][CkptFor(lp, k)], log[lp], CkptFor(lp, k), k)

\* match_straggler_msg and match_anti_msg: how many messages stay.
MatchStraggler(lp, m) ==
  Max({1} \union {i \in DOMAIN log[lp] : i < Len(log[lp]) /\ ~Before(m, log[lp][i])})
IsStraggler(lp, m) == Before(m, Last(log[lp]))

-----------------------------------------------------------------------------
(* Termination of LPs: [t |-> termination_t, n |-> lps_to_end].            *)

\* termination_lp_init
EndOfInit(end) == IF end THEN SIMTIME_MAX ELSE 0

\* fault: an end at the very time of the rollback is kept
OnLpRollbackLate(e, t) ==
  LET keep == e.t <= t \/ e.t = SIMTIME_MAX
  IN  [t |-> IF keep THEN e.t ELSE 0, n |-> IF keep THEN e.n ELSE e.n + 1]

OnLpRollback(e, t) ==
  LET keep == e.t < t \/ e.t = SIMTIME_MAX
  IN  [t |-> IF keep THEN e.t ELSE 0, n |-> IF keep THEN e.n ELSE e.n + 1]

\* termination_on_msg_process; committed is not asked once it has said yes.
OnMsgProcess(e, t, committed) ==
  IF e.t = 0 /\ committed THEN [t |-> t, n |-> e.n - 1] ELSE e

-----------------------------------------------------------------------------
(* lp_init for all LPs, in order, with what their handlers of LP_INIT set. *)

InitEntry(set, end) == [t |-> 0, ty |-> LP_INIT, set |-> set, end |-> end]

BooksInit ==
  \E set \in [LPs -> MaySet(0) \ {Keep}],
     end \in {[lp \in LPs |-> lp \in E] : E \in SUBSET EndAtInit} :
    LET H[i \in 0 .. Cardinality(LPs)] ==
          IF i = 0 THEN [q |-> <<>>, pos |-> [lp \in LPs |-> 0]]
          ELSE Reschedule(HeapInsert(H[i - 1], [t |-> SIMTIME_MAX, lp |-> i]), i, set[i])
        heap == H[Cardinality(LPs)]
    IN  /\ log = [lp \in LPs |-> <<InitEntry(set[lp], end[lp])>>]
        /\ retractable_ctx = set
        /\ ckpts = [lp \in LPs |-> [i \in {1} |-> set[lp]]]
        /\ r_queue = heap.q
        /\ retractable_pos = heap.pos
        /\ termination_t = [lp \in LPs |-> EndOfInit(end[lp])]
        /\ lps_to_end = Cardinality({lp \in LPs : ~end[lp]})
        /\ max_t = 0
        /\ gvt = 0
        /\ voted = FALSE

Heap == [q |-> r_queue, pos |-> retractable_pos]
HeapBecomes(h) == r_queue' = h.q /\ retractable_pos' = h.pos
Ends(lp) == [t |-> termination_t[lp], n |-> lps_to_end]
EndsBecome(lp, e) ==
  /\ termination_t' = [termination_t EXCEPT ![lp] = e.t]
  /\ lps_to_end' = e.n

\* The rest of process_msg for message m of lp: after a rollback if it is a
\* straggler, else with ctx as it is.
Process(lp, m, ctx) ==
  \E set \in MaySet(m.t), committed \in BOOLEAN :
    LET late == IsStraggler(lp, m)
        k    == IF late THEN MatchStraggler(lp, m) ELSE Len(log[lp])
        ctx0 == IF late THEN RestoredCtx(lp, k) ELSE ctx
        ctx1 == AfterHandler(ctx0, set)
        e0   == IF late THEN OnLpRollback(Ends(lp), m.t) ELSE Ends(lp)
        asked == e0.t = 0
        past == {i \in DOMAIN ckpts[lp] : i <= k}
    IN  /\ committed => asked
        /\ log' = [log EXCEPT ![lp] = Append(SubSeq(@, 1, k),
                     [t |-> m.t, ty |-> m.ty, set |-> set, end |-> committed])]
        /\ retractable_ctx' = [retractable_ctx EXCEPT ![lp] = ctx1]
        /\ HeapBecomes(Reschedule(Heap, lp, ctx1))
        /\ ckpts' = [ckpts EXCEPT ![lp] = [i \in past \cup ({k + 1} \cap CkptAt) |->
                                            IF i = k + 1 THEN ctx1 ELSE @[i]]]
        /\ EndsBecome(lp, OnMsgProcess(e0, m.t, committed))
        /\ max_t' = IF committed THEN Max({m.t, max_t}) ELSE max_t
        /\ UNCHANGED <<gvt, voted>>

HasRoom == FoldLeft(LAMBDA n, l : n + Len(l), 0, log) < MaxLog

\* msg_queue_extract: the first retractable event, when no message is before.
RetractableExtract ==
  /\ HasRoom
  /\ r_queue[1].t # SIMTIME_MAX
  /\ Process(r_queue[1].lp, [t |-> r_queue[1].t, ty |-> LP_RETRACTABLE], SIMTIME_MAX)

\* Else a message of the queue: the first retractable event comes after it.
ExtractMessage(lp, t) ==
  /\ HasRoom
  /\ t >= gvt /\ t < r_queue[1].t
  /\ \E ty \in Normal : Process(lp, [t |-> t, ty |-> ty], retractable_ctx[lp])

\* Or the anti-message of the message at index i of the log.
ExtractAnti(lp, i) ==
  LET m == log[lp][i]
      ctx == RestoredCtx(lp, i - 1)
  IN  /\ m.ty \in Normal
      /\ m.t >= gvt /\ m.t < r_queue[1].t
      /\ log' = [log EXCEPT ![lp] = SubSeq(@, 1, i - 1)]
      /\ ckpts' = [ckpts EXCEPT ![lp] = [j \in {n \in DOMAIN @ : n < i} |-> @[j]]]
      /\ retractable_ctx' = [retractable_ctx EXCEPT ![lp] = ctx]
      /\ HeapBecomes(Reschedule(Heap, lp, ctx))
      /\ EndsBecome(lp, OnLpRollback(Ends(lp), m.t))
      /\ UNCHANGED <<max_t, gvt, voted>>

\* fault: a thread votes although an end may still be rolled back
MayVoteEarly(g) == lps_to_end = 0 \/ g >= TermTime

\* termination_on_gvt
MayVote(g) == ~((lps_to_end # 0 \/ max_t >= g) /\ g < TermTime)

OnGvt(g) ==
  /\ g > gvt /\ g <= r_queue[1].t
  /\ gvt' = g
  /\ IF MayVote(g) THEN max_t' = SIMTIME_MAX /\ voted' = TRUE
                   ELSE UNCHANGED <<max_t, voted>>
  /\ UNCHANGED <<log, ckpts, retractable_ctx, retractable_pos, r_queue,
                 termination_t, lps_to_end>>

BooksNext ==
  \/ RetractableExtract
  \/ \E lp \in LPs, t \in Times : ExtractMessage(lp, t)
  \/ \E lp \in LPs : \E i \in 2 .. Len(log[lp]) : ExtractAnti(lp, i)
  \/ \E g \in Times : OnGvt(g)

BooksSpec == BooksInit /\ [][BooksNext]_booksVars

-----------------------------------------------------------------------------
\* What the processed messages of an LP, in this order, have left.
Pending(l) ==
  LET P[k \in 0 .. Len(l)] ==
        IF k = 0 THEN SIMTIME_MAX
        ELSE AfterHandler(IF l[k].ty = LP_RETRACTABLE THEN SIMTIME_MAX ELSE P[k - 1],
                          l[k].set)
  IN  P[Len(l)]

\* The retractable event of an LP is the one that its past has left: none is
\* lost and none comes back by a rollback and the silent execution after it
\* (retractable_post_silent).  The heap of the thread agrees with the states of
\* its LPs, the positions kept in the LPs are right, and its first entry is the
\* earliest event.
RetractablesAgree ==
  /\ \A lp \in LPs : retractable_ctx[lp] = Pending(log[lp])
  /\ \A lp \in LPs :
       r_queue[retractable_pos[lp]] = [t |-> retractable_ctx[lp], lp |-> lp]
  /\ \A lp \in LPs : r_queue[1].t <= retractable_ctx[lp]

\* lps_to_end counts the LPs that have not ended (the comment of termination.c),
\* and an LP has ended only by a message that it still has in its past.
EndsAreExact ==
  /\ lps_to_end = Cardinality({lp \in LPs : termination_t[lp] = 0})
  /\ \A lp \in LPs : termination_t[lp] # 0 =>
       \E i \in DOMAIN log[lp] :
         /\ log[lp][i].end
         /\ termination_t[lp] = IF i = 1 THEN SIMTIME_MAX ELSE log[lp][i].t

\* A thread that agreed to end, and not because time is over, has no LP that
\* goes on: no rollback that is still possible takes an end back.
VoteIsFinal == voted /\ gvt < TermTime => lps_to_end = 0
=============================================================================
