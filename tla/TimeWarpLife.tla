---------------------------- MODULE TimeWarpLife ----------------------------
(***************************************************************************)
(* TimeWarp implements MsgLife: where a message is in the life described   *)
(* there, read from the queues, the logs and the position of each thread.  *)
(***************************************************************************)
EXTENDS TimeWarp

\* the thread that is rolling back LP lp, if any
RollingBack(lp) ==
  {th \in Threads : pc[th] \in {"undo", "reinsert", "restore"} /\ Dest(th) = lp}

\* the entries that the loop of send_anti_messages has undone
Undone(lp) ==
  {i \in DOMAIN p_msgs[lp] :
     \E th \in RollingBack(lp) :
       /\ i > past_i[th]
       /\ \/ pc[th] = "undo" /\ i < undo_i[th]
          \/ pc[th] = "reinsert" /\ i <= undo_i[th]
          \/ pc[th] = "restore"}
StandingIdx(lp) == PastIdx(lp) \ Undone(lp)

LifeLogged  == UNION {{p_msgs[lp][i].m : i \in StandingIdx(lp)} : lp \in LPs}
LifeTaken   == {cur[th] : th \in {x \in Threads : pc[x] = "extracted"}}
LifeBack    == {Touched(th) : th \in {x \in Threads : pc[x] = "reinsert"}}
LifeKilling == {cur[th] : th \in {x \in Threads :
                   /\ pc[x] \in {"undo", "reinsert", "restore"}
                   /\ cur[x] \in PastMsgs(Dest(x))}}
LifeRunning == {cur[th] : th \in {x \in Threads :
                   /\ pc[x] \notin {"idle", "extracted"}
                   /\ cur[x] \notin PastMsgs(Dest(x))}}

Life == INSTANCE MsgLife WITH
          queued  <- Queued,
          taken   <- LifeTaken,
          running <- LifeRunning,
          logged  <- LifeLogged,
          killing <- LifeKilling,
          back    <- LifeBack

\* Every step of the engine on a message is a step of the protocol MsgLife,
\* whose safety is proved for any number of messages: process_msg, rollbacks
\* and fossil collection only ever do to a message what its flags allow.
ImplementsMsgLife == Life!Spec

-----------------------------------------------------------------------------
(***************************************************************************)
(* The inductive invariant, for simulation models that schedule as         *)
(* ScheduleNewEvent wants it.                                              *)
(***************************************************************************)
\* What a handler schedules is not before its own event (checked there when
\* assertions are on), has a type below LP_INIT, and is later than 0 unless
\* LP_INIT schedules it.
HandlerIsCausal ==
  \A lp \in LPs, st \in Seq(Event), ev \in Event :
    Handler(lp, st, ev)
      \in Seq({o \in MsgRec : o.t >= ev.t /\ o.ty < InitTy /\ (ev # InitEvent => o.t > 0)})

TimeOf(lp, i) == msg[p_msgs[lp][i].m].t
RankOf(lp, i) == msg[p_msgs[lp][i].m].ty
SentIdx(lp) == DOMAIN p_msgs[lp] \ PastIdx(lp)
Running(lp) == {th \in Threads : pc[th] \in {"dispatch", "send"} /\ Dest(th) = lp}
Rollbacks == {"undo", "reinsert", "restore"}

Shapes ==
  /\ msg \in [Msgs -> MsgRec]
  /\ list \in [Threads -> SUBSET Msgs]
  /\ heap \in [Threads -> SUBSET Msgs]
  /\ p_msgs \in [LPs -> Seq(Entry)]
  /\ bound \in [LPs -> -1 .. MaxT]
  /\ state \in [LPs -> Seq(Event)]
  /\ logs \in [LPs -> Seq([ref : Nat, st : Seq(Event)])]
  /\ gvt \in [Threads -> 0 .. MaxT + 1]
  /\ pc \in [Threads -> PCs]
  /\ cur \in [Threads -> Msgs]
  /\ past_i \in [Threads -> Nat]
  /\ undo_i \in [Threads -> Nat]
  /\ outs \in [Threads -> Seq(MsgRec)]

\* A thread has the messages to its own LPs in its queue, and LP_INIT, which
\* was processed at the start, is not among them.
QueuesFit ==
  /\ \A th \in Threads : \A m \in heap[th] \cup list[th] : Rid[msg[m].dest] = th
  /\ \A m \in Queued \cup InHand : msg[m].ty < InitTy

\* What LP_INIT sends at time 0 is not taken back.
ZeroIsKept == \A m \in live : msg[m].t = 0 => ~ IsAnti(flags[m])

\* The log of an LP is in order of time, and has each message once; it ends
\* with a message, unless one is being processed.
LogInOrder(lp) ==
  /\ \A m \in PastMsgs(lp) : msg[m].dest = lp /\ m \in live
  /\ \A i, j \in PastIdx(lp) :
       i < j => p_msgs[lp][i].m # p_msgs[lp][j].m /\ TimeOf(lp, i) <= TimeOf(lp, j)
  /\ \/ p_msgs[lp] = <<>>
     \/ Len(p_msgs[lp]) \in PastIdx(lp)
     \/ \E th \in Running(lp) : pc[th] = "send"

\* bound is as late as the log, and -1 when it is empty.
BoundFits(lp) ==
  /\ \A i \in PastIdx(lp) : TimeOf(lp, i) <= bound[lp]
  /\ p_msgs[lp] = <<>> => bound[lp] = -1 \/ Running(lp) # {}

\* Checkpoints refer to messages of the log, in order.
CheckpointsFit(lp) ==
  /\ logs[lp] # <<>>
  /\ \A j \in DOMAIN logs[lp] : logs[lp][j].ref \in {0} \cup PastIdx(lp)
  /\ \A j, k \in DOMAIN logs[lp] : j <= k => logs[lp][j].ref <= logs[lp][k].ref

\* The entry of the first checkpoint is LP_INIT, until it is collected; no
\* rollback goes back beyond it.
FirstStays(lp) ==
  LET r == logs[lp][1].ref IN
  /\ r # 0 => r \in PastIdx(lp) /\ TimeOf(lp, r) = 0 /\ RankOf(lp, r) = InitTy
  /\ \A i \in PastIdx(lp) : r <= i /\ (RankOf(lp, i) = InitTy => i = r)
  /\ \A i \in SentIdx(lp) : RankOf(lp, i) < InitTy /\ (TimeOf(lp, i) = 0 => i < r)
  /\ \A th \in RollingBack(lp) : r <= past_i[th]

\* What an LP has sent and may take back: an entry is too old for that when a
\* message logged after it is before a GVT.
MayUndo(lp, i) ==
  /\ i \in SentIdx(lp) \ Undone(lp)
  /\ \A j \in PastIdx(lp) : j > i => \A th \in Threads : gvt[th] <= TimeOf(lp, j)

SentIsMarked(lp) ==
  \A i \in SentIdx(lp) :
    MayUndo(lp, i) =>
      /\ p_msgs[lp][i].m \in marked
      /\ \/ \E j \in PastIdx(lp) : j > i /\ TimeOf(lp, j) <= TimeOf(lp, i)
         \/ \E th \in Running(lp) : pc[th] = "send" /\ msg[cur[th]].t <= TimeOf(lp, i)

SentOnce ==
  \A a, b \in LPs : \A i \in SentIdx(a), j \in SentIdx(b) :
    MayUndo(a, i) /\ MayUndo(b, j) /\ p_msgs[a][i].m = p_msgs[b][j].m => a = b /\ i = j

LpFits(lp) ==
  /\ LogInOrder(lp)
  /\ BoundFits(lp)
  /\ CheckpointsFit(lp)
  /\ FirstStays(lp)
  /\ SentIsMarked(lp)

\* A message goes to the end of the log, or back to where it fits.
CurFits(th) ==
  /\ pc[th] # "idle" => Rid[Dest(th)] = th
  /\ pc[th] \in {"check", "dispatch", "send"} => cur[th] \notin PastMsgs(Dest(th))
  /\ pc[th] \in {"dispatch", "send"} =>
       \A i \in PastIdx(Dest(th)) : TimeOf(Dest(th), i) <= msg[cur[th]].t

RollbackFits(th) ==
  pc[th] \in Rollbacks =>
    LET lp == Dest(th) IN
    /\ past_i[th] \in {0} \cup PastIdx(lp)
    /\ past_i[th] < Len(p_msgs[lp])
    /\ pc[th] # "restore" => undo_i[th] \in past_i[th] + 1 .. Len(p_msgs[lp])
    /\ \A i \in PastIdx(lp) :
         IF i <= past_i[th]
         THEN TimeOf(lp, i) <= msg[cur[th]].t /\ p_msgs[lp][i].m # cur[th]
         ELSE TimeOf(lp, i) >= msg[cur[th]].t

\* What is put back is not before the message that causes it.
TouchedFits(th) ==
  pc[th] = "reinsert" =>
    /\ msg[Touched(th)].t >= msg[cur[th]].t
    /\ msg[Touched(th)].ty < InitTy

OutsFit(th) ==
  pc[th] = "send" =>
    \A k \in DOMAIN outs[th] :
      outs[th][k].t >= msg[cur[th]].t /\ outs[th][k].t > 0 /\ outs[th][k].ty < InitTy

ThreadFits(th) ==
  /\ CurFits(th)
  /\ RollbackFits(th)
  /\ TouchedFits(th)
  /\ OutsFit(th)

\* No two threads put the same message back.
TouchedOnce ==
  \A x, y \in Threads :
    pc[x] = "reinsert" /\ pc[y] = "reinsert" /\ Touched(x) = Touched(y) => x = y

IInv ==
  /\ Shapes
  /\ Life!IInv
  /\ GvtIsSafe
  /\ QueuesFit
  /\ ZeroIsKept
  /\ SentOnce
  /\ TouchedOnce
  /\ \A lp \in LPs : LpFits(lp)
  /\ \A th \in Threads : ThreadFits(th)

=============================================================================
