--------------------------- MODULE TimeWarpProofs ---------------------------
(***************************************************************************)
(* Proofs about the optimistic core of the engine, for any number of       *)
(* threads, LPs and messages and for any simulation model that schedules   *)
(* its events as ScheduleNewEvent wants it (HandlerIsCausal).              *)
(***************************************************************************)
EXTENDS TimeWarpLife, SequenceTheorems, NaturalsInduction, WellFoundedInduction, TLAPS

LifeProofs == INSTANCE MsgLifeProofs WITH
                queued  <- Queued,
                taken   <- LifeTaken,
                running <- LifeRunning,
                logged  <- LifeLogged,
                killing <- LifeKilling,
                back    <- LifeBack

\* The protocol of this module is the one that MsgLifeProofs is about.
LEMMA SameInvariant == Life!IInv <=> LifeProofs!IInv
BY DEF Life!IInv, LifeProofs!IInv, Life!TypeOK, LifeProofs!TypeOK,
   Life!Accounted, LifeProofs!Accounted, Life!Free, LifeProofs!Free,
   Life!New, LifeProofs!New, Life!Done, LifeProofs!Done,
   Life!Cancelled, LifeProofs!Cancelled, Life!AntiMsg, LifeProofs!AntiMsg,
   Life!Killed, LifeProofs!Killed, Life!Waiting, LifeProofs!Waiting,
   Life!NotWaiting, LifeProofs!NotWaiting, Life!Processed, LifeProofs!Processed,
   Life!NotProcessed, LifeProofs!NotProcessed,
   Life!ANTI, LifeProofs!ANTI, Life!PROCESSED, LifeProofs!PROCESSED

\* Both copies of the protocol take the same steps, so what MsgLifeProofs proves of its
\* steps holds of those the engine maps to.
LEMMA SameNext == Life!Next <=> LifeProofs!Next
<1> USE DEF Life!ANTI, LifeProofs!ANTI, Life!PROCESSED, LifeProofs!PROCESSED,
   Life!IsAnti, LifeProofs!IsAnti, Life!IsProcessed, LifeProofs!IsProcessed
<1>1. \A m : Life!Send(m) <=> LifeProofs!Send(m)
  BY DEF Life!Send, LifeProofs!Send
<1>2. \A m, old : Life!Extract(m, old) <=> LifeProofs!Extract(m, old)
  BY DEF Life!Extract, LifeProofs!Extract
<1>3. \A m : /\ Life!Drop(m) <=> LifeProofs!Drop(m)
             /\ Life!Kill(m) <=> LifeProofs!Kill(m)
             /\ Life!Run(m) <=> LifeProofs!Run(m)
  BY DEF Life!Drop, LifeProofs!Drop, Life!Kill, LifeProofs!Kill, Life!Run, LifeProofs!Run
<1>4. \A m : /\ Life!Log(m) <=> LifeProofs!Log(m)
             /\ Life!UndoSent(m) <=> LifeProofs!UndoSent(m)
             /\ Life!UndoPast(m) <=> LifeProofs!UndoPast(m)
  BY DEF Life!Log, LifeProofs!Log, Life!UndoSent, LifeProofs!UndoSent,
         Life!UndoPast, LifeProofs!UndoPast
<1>5. \A m : /\ Life!PutBack(m) <=> LifeProofs!PutBack(m)
             /\ Life!FreeKilled(m) <=> LifeProofs!FreeKilled(m)
  BY DEF Life!PutBack, LifeProofs!PutBack, Life!FreeKilled, LifeProofs!FreeKilled
<1>6. QED
  BY <1>1, <1>2, <1>3, <1>4, <1>5 DEF Life!Next, LifeProofs!Next

\* Its invariant is kept by every step of the engine that is one of its steps.
LEMMA LifeStep ==
  ASSUME Life!IInv, [Life!Next]_(Life!vars)
  PROVE  Life!IInv'
<1>1. LifeProofs!IInv
  BY SameInvariant
<1>2. [LifeProofs!Next]_(LifeProofs!vars)
  BY SameNext DEF Life!vars, LifeProofs!vars
<1>3. LifeProofs!IInv'
  BY <1>1, <1>2, LifeProofs!StepInv
<1>4. (Life!IInv <=> LifeProofs!IInv)'
  BY SameInvariant, PTL
<1>5. QED
  BY <1>3, <1>4
-----------------------------------------------------------------------------
\* A set of naturals has a least element,
LEMMA LeastIsThere ==
  ASSUME NEW S \in SUBSET Nat, S # {}
  PROVE  \E m \in S : \A y \in S : m <= y
<1>1. PICK m \in S : \A y \in S : <<y, m>> \notin OpToRel(<, Nat)
  BY NatLessThanWellFounded, WFMin, Zenon
<1>2. \A y \in S : ~ (y < m)
  BY <1>1 DEF OpToRel
<1>3. QED
  BY <1>2

\* and a greatest one, if it is bounded.
LEMMA GreatestTells ==
  ASSUME NEW S \in SUBSET Nat, NEW b \in Nat, \A x \in S : x <= b
  PROVE  /\ Greatest(S) \in Nat
         /\ Greatest(S) <= b
         /\ S # {} => Greatest(S) \in S
         /\ \A y \in S : y <= Greatest(S)
<1>1. CASE S = {}
  BY <1>1 DEF Greatest
<1>2. CASE S # {}
  <2> DEFINE R == {b - x : x \in S}
  <2>1. R \in SUBSET Nat /\ R # {}
    <3>1. ASSUME NEW x \in S PROVE b - x \in Nat
      OBVIOUS
    <3>2. QED
      BY <1>2, <3>1
  <2>2. PICK r \in R : \A y \in R : r <= y
    BY <2>1, LeastIsThere
  <2>3. PICK m \in S : r = b - m
    BY <2>2
  <2>4. \A y \in S : y <= m
    BY <2>2, <2>3
  <2>5. Greatest(S) = CHOOSE i \in S : \A j \in S : j <= i
    BY <1>2 DEF Greatest
  <2>6. Greatest(S) \in S /\ \A y \in S : y <= Greatest(S)
    BY <2>4, <2>5
  <2>7. QED
    BY <2>6
<1>3. QED
  BY <1>1, <1>2

\* What the shapes say of the log of an LP.
LogTyped(lp) ==
  /\ p_msgs[lp] \in Seq(Entry)
  /\ Len(p_msgs[lp]) \in Nat
  /\ DOMAIN p_msgs[lp] = 1 .. Len(p_msgs[lp])
  /\ PastIdx(lp) \in SUBSET (1 .. Len(p_msgs[lp]))
  /\ SentIdx(lp) \in SUBSET (1 .. Len(p_msgs[lp]))
  /\ \A i \in 1 .. Len(p_msgs[lp]) :
       /\ p_msgs[lp][i] \in Entry
       /\ p_msgs[lp][i].m \in Msgs
       /\ i \in PastIdx(lp) <=> p_msgs[lp][i].k = "past"
       /\ i \in SentIdx(lp) <=> p_msgs[lp][i].k = "sent"
       /\ msg[p_msgs[lp][i].m] \in MsgRec
       /\ TimeOf(lp, i) \in 0 .. MaxT
       /\ RankOf(lp, i) \in 0 .. InitTy

USE DEF LogTyped

\* A log of the right shape is a sequence of entries with a message, a time and a rank each.
LEMMA LogTypes ==
  ASSUME Shapes, NEW lp \in LPs
  PROVE  LogTyped(lp)
<1>1. p_msgs[lp] \in Seq(Entry) /\ msg \in [Msgs -> MsgRec]
  BY DEF Shapes
<1>2. Len(p_msgs[lp]) \in Nat /\ DOMAIN p_msgs[lp] = 1 .. Len(p_msgs[lp])
  BY <1>1
<1>3. \A i \in 1 .. Len(p_msgs[lp]) : p_msgs[lp][i] \in Entry
  BY <1>1, ElementOfSeq
<1>4. \A i \in 1 .. Len(p_msgs[lp]) :
         p_msgs[lp][i].k \in {"past", "sent"} /\ p_msgs[lp][i].m \in Msgs
  BY <1>3 DEF Entry
<1>5. \A m \in Msgs : msg[m] \in MsgRec /\ msg[m].t \in 0 .. MaxT /\ msg[m].ty \in 0 .. InitTy
  BY <1>1 DEF MsgRec, Times
<1>6. QED
  BY <1>1, <1>2, <1>3, <1>4, <1>5 DEF PastIdx, SentIdx, TimeOf, RankOf

\* Every log is well typed.
LogsTyped == \A lp \in LPs : LogTyped(lp)

\* The same of every log at once, in a form that can be primed.
LEMMA LogsAreTyped == Shapes => LogsTyped
<1> HIDE DEF LogTyped
<1> QED
  BY LogTypes DEF LogsTyped

\* The log of an LP is well typed after a step that keeps the shapes.
LEMMA LogTypesNext ==
  ASSUME Shapes', NEW lp \in LPs
  PROVE  LogTyped(lp)'
<1> HIDE DEF LogTyped
<1>1. LogsTyped'
  BY LogsAreTyped, PTL
<1>2. QED
  BY <1>1 DEF LogsTyped

\* The numbers of the model.
LEMMA Numbers ==
  /\ MaxT \in Nat /\ InitTy \in Nat /\ CkptInterval \in Nat
  /\ \A lp \in LPs : Rid[lp] \in Threads
BY ConstAssumption

\* and of what a thread has in hand.
LEMMA HandTypes ==
  ASSUME Shapes, NEW th \in Threads
  PROVE  /\ cur[th] \in Msgs /\ msg[cur[th]] \in MsgRec
         /\ Dest(th) \in LPs
         /\ msg[cur[th]].t \in 0 .. MaxT /\ msg[cur[th]].ty \in 0 .. InitTy
         /\ past_i[th] \in Nat /\ undo_i[th] \in Nat
         /\ gvt[th] \in 0 .. MaxT + 1
         /\ pc[th] \in PCs
<1>1. \A m \in Msgs : /\ msg[m] \in MsgRec /\ msg[m].dest \in LPs
                      /\ msg[m].t \in 0 .. MaxT /\ msg[m].ty \in 0 .. InitTy
  BY DEF Shapes, MsgRec, Times
<1>2. QED
  BY <1>1 DEF Shapes, Dest
-----------------------------------------------------------------------------
\* What the flags of a message tell of where it is.
LEMMA LifeTells ==
  ASSUME Life!IInv, NEW m \in Msgs
  PROVE  /\ flags[m] \in 0 .. 5
         /\ m \in Queued \cup LifeTaken \cup LifeRunning \cup LifeLogged \cup LifeKilling
                    \cup LifeBack \cup marked => m \in live
         /\ m \in marked => flags[m] \in {0, 2}
         /\ flags[m] = 0 /\ m \in live => m \notin LifeRunning \cup LifeLogged \cup LifeKilling
         /\ flags[m] = 2 /\ m \in live =>
              m \notin Queued \cup LifeTaken \cup LifeBack \cup LifeKilling
         /\ m \in LifeTaken =>
              /\ flags[m] \in {0, 1, 3}
              /\ flags[m] = 1 => m \notin LifeLogged /\ m \notin LifeRunning
              /\ flags[m] = 3 => m \in LifeLogged
         /\ m \in LifeLogged => flags[m] \in {2, 3, 5}
         /\ m \in LifeLogged /\ flags[m] \in {3, 5} => m \notin marked
         /\ m \in LifeLogged /\ m \notin Queued \cup LifeTaken \cup LifeBack
              /\ m \notin LifeKilling => flags[m] = 2
         /\ m \in LifeBack => m \notin Queued \cup LifeTaken
         /\ m \in LifeLogged => m \notin LifeRunning
<1> USE DEF Life!IInv, Life!TypeOK, Life!Accounted, Life!Free, Life!New, Life!Done,
       Life!Cancelled, Life!AntiMsg, Life!Killed, Life!Waiting, Life!NotWaiting,
       Life!Processed, Life!NotProcessed, Life!ANTI, Life!PROCESSED
<1>1. flags[m] \in 0 .. 5
  OBVIOUS
<1>2. CASE m \notin live
  BY <1>1, <1>2
<1>3. CASE m \in live
  <2>1. CASE Life!New(m)
    BY <1>1, <1>3, <2>1
  <2>2. CASE Life!Done(m)
    BY <1>1, <1>3, <2>2
  <2>3. CASE Life!Cancelled(m)
    BY <1>1, <1>3, <2>3
  <2>4. CASE Life!AntiMsg(m)
    BY <1>1, <1>3, <2>4
  <2>5. CASE Life!Killed(m)
    BY <1>1, <1>3, <2>5
  <2>6. QED
    BY <1>3, <2>1, <2>2, <2>3, <2>4, <2>5
<1>4. QED
  BY <1>2, <1>3

\* The bits of the flags.
LEMMA BitsTell ==
  ASSUME NEW f \in 0 .. 5
  PROVE  /\ IsAnti(f) <=> f \in {1, 3, 5}
         /\ IsProcessed(f) <=> f \in {2, 3}
         /\ Life!IsAnti(f) <=> IsAnti(f)
         /\ Life!IsProcessed(f) <=> IsProcessed(f)
<1>1. \/ f = 0 \/ f = 1 \/ f = 2 \/ f = 3 \/ f = 4 \/ f = 5
  OBVIOUS
<1>2. IsAnti(f) <=> f \in {1, 3, 5}
  BY <1>1 DEF IsAnti
<1>3. IsProcessed(f) <=> f \in {2, 3}
  BY <1>1 DEF IsProcessed
<1>4. QED
  BY <1>2, <1>3 DEF Life!IsAnti, Life!IsProcessed

\* A thread that is not idle has an allocated message to one of its LPs in
\* hand, and no other thread has this message or is at this LP.
LEMMA HandsTell ==
  ASSUME IInv, NEW th \in Threads, pc[th] # "idle"
  PROVE  /\ cur[th] \in live
         /\ cur[th] \in InHand
         /\ Rid[Dest(th)] = th
         /\ \A x \in Threads \ {th} :
              pc[x] # "idle" => Dest(x) # Dest(th) /\ cur[x] # cur[th]
         /\ \A x \in Threads : gvt[x] <= msg[cur[th]].t
<1>1. ThreadFits(th) /\ CurFits(th) /\ \A x \in Threads : CurFits(x)
  BY DEF IInv, ThreadFits
<1>2. Rid[Dest(th)] = th /\ \A x \in Threads \ {th} : pc[x] # "idle" => Rid[Dest(x)] = x
  BY <1>1 DEF CurFits
<1>3. cur[th] \in Msgs /\ pc[th] \in PCs
  BY HandTypes DEF IInv
<1>4. cur[th] \in LifeTaken \cup LifeRunning \cup LifeKilling
  BY <1>1, <1>3 DEF CurFits, LifeTaken, LifeRunning, LifeKilling, PCs
<1>5. cur[th] \in live
  BY <1>3, <1>4, LifeTells DEF IInv
<1>6. cur[th] \in InHand
  BY DEF InHand
<1>7. \A x \in Threads : gvt[x] <= msg[cur[th]].t
  BY <1>6 DEF IInv, GvtIsSafe, IsGvt
<1>8. QED
  BY <1>2, <1>5, <1>6, <1>7 DEF Dest

\* Two messages of one log are different entries; each is allocated, and to
\* the LP that has logged it.
LEMMA PastTells ==
  ASSUME IInv, NEW lp \in LPs, NEW i \in PastIdx(lp)
  PROVE  /\ p_msgs[lp][i].m \in live
         /\ p_msgs[lp][i].m \in PastMsgs(lp)
         /\ msg[p_msgs[lp][i].m].dest = lp
         /\ \A j \in PastIdx(lp) : i # j => p_msgs[lp][i].m # p_msgs[lp][j].m
         /\ \A j \in PastIdx(lp) : i <= j => TimeOf(lp, i) <= TimeOf(lp, j)
<1>1. LogInOrder(lp) /\ Shapes
  BY DEF IInv, LpFits
<1>2. p_msgs[lp][i].m \in PastMsgs(lp)
  BY DEF PastMsgs
<1>3. \A j \in PastIdx(lp) : i < j \/ j < i \/ i = j
  BY <1>1, LogTypes
<1>4. TimeOf(lp, i) \in 0 .. MaxT
  BY <1>1, LogTypes
<1>5. TimeOf(lp, i) <= TimeOf(lp, i)
  BY <1>4, Numbers
<1>6. QED
  BY <1>1, <1>2, <1>3, <1>5, LogTypes DEF LogInOrder
-----------------------------------------------------------------------------
(***************************************************************************)
(* A step of a thread th at one of its LPs, D, leaves the other threads    *)
(* and the other LPs alone: what is shared are queues, flags and addresses *)
(* that are free.                                                          *)
(***************************************************************************)
Acts(th, D) ==
  /\ Rid[D] = th
  /\ pc[th] # "idle" => Dest(th) = D
  /\ pc'[th] # "idle" => Dest(th)' = D
  /\ \A x \in Threads \ {th} :
       /\ pc'[x] = pc[x] /\ cur'[x] = cur[x]
       /\ past_i'[x] = past_i[x] /\ undo_i'[x] = undo_i[x] /\ outs'[x] = outs[x]
  /\ \A lp \in LPs \ {D} :
       p_msgs'[lp] = p_msgs[lp] /\ bound'[lp] = bound[lp] /\ logs'[lp] = logs[lp]
  /\ \A m \in Msgs : \/ msg'[m] = msg[m]
                     \/ m \notin live /\ msg'[m].ty < InitTy /\ msg'[m].t > 0
  /\ \A m \in live \ live' : msg[m].dest = D
  /\ gvt' = gvt

\* The others stand where they stood.
LEMMA OthersStand ==
  ASSUME IInv, NEW th \in Threads, NEW D \in LPs, Acts(th, D),
         NEW x \in Threads \ {th}, pc[x] # "idle"
  PROVE  /\ pc'[x] = pc[x] /\ cur'[x] = cur[x]
         /\ past_i'[x] = past_i[x] /\ undo_i'[x] = undo_i[x] /\ outs'[x] = outs[x]
         /\ Dest(x)' = Dest(x) /\ Dest(x) \in LPs /\ Dest(x) # D /\ Rid[Dest(x)] = x
         /\ msg'[cur[x]] = msg[cur[x]]
         /\ cur[x] \in live
         /\ p_msgs'[Dest(x)] = p_msgs[Dest(x)]
<1>1. cur[x] \in live /\ Rid[Dest(x)] = x /\ Dest(x) \in LPs /\ cur[x] \in Msgs
  BY HandsTell, HandTypes DEF IInv
<1>2. Dest(x) # D
  BY <1>1 DEF Acts
<1>3. cur'[x] = cur[x] /\ msg'[cur[x]] = msg[cur[x]]
  BY <1>1 DEF Acts
<1>4. Dest(x)' = Dest(x)
  BY <1>3 DEF Dest
<1>5. QED
  BY <1>1, <1>2, <1>3, <1>4 DEF Acts

\* The sets that are read from the log of another LP.
LEMMA OtherLogsStand ==
  ASSUME IInv, NEW th \in Threads, NEW D \in LPs, Acts(th, D), NEW lp \in LPs \ {D}
  PROVE  /\ p_msgs'[lp] = p_msgs[lp]
         /\ PastIdx(lp)' = PastIdx(lp)
         /\ PastMsgs(lp)' = PastMsgs(lp)
         /\ SentIdx(lp)' = SentIdx(lp)
         /\ RollingBack(lp)' = RollingBack(lp)
         /\ Running(lp)' = Running(lp)
         /\ \A x \in Running(lp) \cup RollingBack(lp) :
              x # th /\ pc'[x] = pc[x] /\ cur'[x] = cur[x] /\ msg'[cur[x]] = msg[cur[x]]
         /\ Undone(lp)' = Undone(lp)
         /\ StandingIdx(lp)' = StandingIdx(lp)
         /\ \A i \in PastIdx(lp) : msg'[p_msgs[lp][i].m] = msg[p_msgs[lp][i].m]
<1>1. p_msgs'[lp] = p_msgs[lp]
  BY DEF Acts
<1>2. PastIdx(lp)' = PastIdx(lp)
  BY <1>1 DEF PastIdx
<1>3. PastMsgs(lp)' = PastMsgs(lp) /\ SentIdx(lp)' = SentIdx(lp)
  BY <1>1, <1>2 DEF PastMsgs, SentIdx
<1>4. \A x \in Threads : x \in RollingBack(lp)' <=> x \in RollingBack(lp)
  <2>1. th \notin RollingBack(lp) /\ th \notin RollingBack(lp)'
    BY DEF RollingBack, Acts
  <2>2. ASSUME NEW x \in Threads \ {th}
        PROVE  x \in RollingBack(lp)' <=> x \in RollingBack(lp)
    <3>1. CASE pc[x] = "idle"
      BY <3>1 DEF RollingBack, Acts
    <3>2. CASE pc[x] # "idle"
      BY <3>2, OthersStand DEF RollingBack
    <3>3. QED
      BY <3>1, <3>2
  <2>3. QED
    BY <2>1, <2>2
<1>5. \A x \in Threads : x \in Running(lp)' <=> x \in Running(lp)
  <2>1. th \notin Running(lp) /\ th \notin Running(lp)'
    BY DEF Running, Acts
  <2>2. ASSUME NEW x \in Threads \ {th}
        PROVE  x \in Running(lp)' <=> x \in Running(lp)
    <3>1. CASE pc[x] = "idle"
      BY <3>1 DEF Running, Acts
    <3>2. CASE pc[x] # "idle"
      BY <3>2, OthersStand DEF Running
    <3>3. QED
      BY <3>1, <3>2
  <2>3. QED
    BY <2>1, <2>2
<1>6. RollingBack(lp)' = RollingBack(lp) /\ Running(lp)' = Running(lp)
  <2>1. RollingBack(lp) \subseteq Threads /\ RollingBack(lp)' \subseteq Threads
    BY DEF RollingBack
  <2>2. Running(lp) \subseteq Threads /\ Running(lp)' \subseteq Threads
    BY DEF Running
  <2>3. QED
    BY <1>4, <1>5, <2>1, <2>2
<1>7. \A x \in Running(lp) \cup RollingBack(lp) :
        /\ x \in Threads \ {th} /\ pc[x] # "idle"
        /\ pc'[x] = pc[x] /\ cur'[x] = cur[x] /\ msg'[cur[x]] = msg[cur[x]]
        /\ past_i'[x] = past_i[x] /\ undo_i'[x] = undo_i[x]
  <2>1. \A x \in Running(lp) \cup RollingBack(lp) : x \in Threads \ {th} /\ pc[x] # "idle"
    BY DEF RollingBack, Running, Acts
  <2>2. QED
    BY <2>1, OthersStand
<1>8. Undone(lp)' = Undone(lp)
  BY <1>1, <1>6, <1>7 DEF Undone
<1>9. StandingIdx(lp)' = StandingIdx(lp)
  BY <1>2, <1>8 DEF StandingIdx
<1>10. ASSUME NEW i \in PastIdx(lp)
       PROVE  msg'[p_msgs[lp][i].m] = msg[p_msgs[lp][i].m]
  <2>1. p_msgs[lp][i].m \in live
    BY PastTells
  <2>2. p_msgs[lp][i].m \in Msgs
    BY LogTypes DEF IInv
  <2>3. QED
    BY <2>1, <2>2 DEF Acts
<1>11. QED
  BY <1>1, <1>2, <1>3, <1>6, <1>7, <1>8, <1>9, <1>10

\* So another LP fits as it did, unless somebody forgot what it has sent.
LEMMA OtherLpsFit ==
  ASSUME IInv, Shapes', NEW th \in Threads, NEW D \in LPs, Acts(th, D), NEW lp \in LPs \ {D},
         \A i \in SentIdx(lp) : MayUndo(lp, i) => p_msgs[lp][i].m \in marked'
  PROVE  /\ LpFits(lp)'
         /\ \A i : MayUndo(lp, i)' => MayUndo(lp, i)
<1>1. LpFits(lp) /\ Shapes
  BY DEF IInv
<1> USE OtherLogsStand
<1>2. \A i \in PastIdx(lp) : TimeOf(lp, i)' = TimeOf(lp, i) /\ RankOf(lp, i)' = RankOf(lp, i)
  BY DEF TimeOf, RankOf
<1>3. bound'[lp] = bound[lp] /\ logs'[lp] = logs[lp] /\ gvt' = gvt
  BY DEF Acts
<1>4. LogInOrder(lp)'
  <2>1. \A m \in PastMsgs(lp) : msg'[m].dest = lp /\ m \in live'
    BY <1>1, PastTells DEF PastMsgs, Acts
  <2>2. QED
    BY <1>1, <1>2, <2>1 DEF LpFits, LogInOrder
<1>5. BoundFits(lp)'
  BY <1>1, <1>2, <1>3 DEF LpFits, BoundFits
<1>6. CheckpointsFit(lp)'
  BY <1>1, <1>3 DEF LpFits, CheckpointsFit
<1>7. FirstStays(lp)'
  <2>1. ASSUME NEW i \in SentIdx(lp)
        PROVE  /\ RankOf(lp, i)' < InitTy
               /\ TimeOf(lp, i)' = 0 => i < logs[lp][1].ref
    <3>1. p_msgs[lp][i].m \in Msgs
      BY <1>1, LogTypes
    <3>2. \/ TimeOf(lp, i)' = TimeOf(lp, i) /\ RankOf(lp, i)' = RankOf(lp, i)
          \/ RankOf(lp, i)' < InitTy /\ TimeOf(lp, i)' > 0
      BY <3>1 DEF Acts, TimeOf, RankOf
    <3>3. QED
      BY <1>1, <3>2 DEF LpFits, FirstStays
  <2>2. \A x \in RollingBack(lp) : past_i'[x] = past_i[x]
    BY DEF Acts, RollingBack
  <2>3. QED
    BY <1>1, <1>2, <1>3, <2>1, <2>2 DEF LpFits, FirstStays
<1>8. \A i : MayUndo(lp, i)' => MayUndo(lp, i)
  BY <1>2, <1>3 DEF MayUndo
<1>9. SentIsMarked(lp)'
  <2>1. ASSUME NEW i \in SentIdx(lp), MayUndo(lp, i)'
        PROVE  /\ p_msgs'[lp][i].m \in marked'
               /\ \/ \E j \in PastIdx(lp)' : j > i /\ TimeOf(lp, j)' <= TimeOf(lp, i)'
                  \/ \E x \in Running(lp)' : pc'[x] = "send" /\ msg'[cur'[x]].t <= TimeOf(lp, i)'
    <3>1. MayUndo(lp, i) /\ p_msgs[lp][i].m \in marked
      BY <1>1, <1>8, <2>1 DEF LpFits, SentIsMarked
    <3>2. p_msgs[lp][i].m \in live /\ p_msgs[lp][i].m \in Msgs
      BY <1>1, <3>1, LogTypes, LifeTells DEF IInv
    <3>3. TimeOf(lp, i)' = TimeOf(lp, i)
      BY <3>2 DEF TimeOf, Acts
    <3>4. \/ \E j \in PastIdx(lp) : j > i /\ TimeOf(lp, j) <= TimeOf(lp, i)
          \/ \E x \in Running(lp) : pc[x] = "send" /\ msg[cur[x]].t <= TimeOf(lp, i)
      BY <1>1, <3>1 DEF LpFits, SentIsMarked
    <3>5. QED
      BY <1>2, <3>1, <3>3, <3>4
  <2>2. QED
    BY <2>1 DEF SentIsMarked
<1>10. QED
  BY <1>4, <1>5, <1>6, <1>7, <1>8, <1>9 DEF LpFits
\* Another thread fits as it did.
LEMMA OtherThreadsFit ==
  ASSUME IInv, Shapes', NEW th \in Threads, NEW D \in LPs, Acts(th, D),
         NEW x \in Threads \ {th}
  PROVE  /\ ThreadFits(x)'
         /\ pc[x] = "reinsert" =>
              /\ Touched(x)' = Touched(x) /\ Touched(x) \in live /\ Touched(x) \in Msgs
              /\ msg'[Touched(x)] = msg[Touched(x)]
<1>1. ThreadFits(x) /\ Shapes /\ pc'[x] = pc[x]
  BY DEF IInv, Acts
<1>2. CASE pc[x] = "idle"
  BY <1>1, <1>2 DEF ThreadFits, CurFits, RollbackFits, TouchedFits, OutsFit, Rollbacks
<1>3. CASE pc[x] # "idle"
  <2> DEFINE E == Dest(x)
  <2>1. /\ cur'[x] = cur[x] /\ past_i'[x] = past_i[x] /\ undo_i'[x] = undo_i[x]
        /\ outs'[x] = outs[x] /\ Dest(x)' = E /\ E \in LPs \ {D} /\ Rid[E] = x
        /\ msg'[cur[x]] = msg[cur[x]] /\ p_msgs'[E] = p_msgs[E]
    BY <1>3, OthersStand
  <2>2. /\ PastIdx(E)' = PastIdx(E) /\ PastMsgs(E)' = PastMsgs(E)
        /\ \A i \in PastIdx(E) : msg'[p_msgs[E][i].m] = msg[p_msgs[E][i].m]
    BY <2>1, OtherLogsStand
  <2>3. \A i \in PastIdx(E) : TimeOf(E, i)' = TimeOf(E, i)
    BY <2>1, <2>2 DEF TimeOf
  <2>4. CurFits(x)'
    BY <1>1, <2>1, <2>2, <2>3 DEF ThreadFits, CurFits
  <2>5. RollbackFits(x)'
    BY <1>1, <2>1, <2>2, <2>3 DEF ThreadFits, RollbackFits
  <2>6. OutsFit(x)'
    BY <1>1, <2>1 DEF ThreadFits, OutsFit
  <2>7. CASE pc[x] = "reinsert"
    <3>1. Touched(x)' = Touched(x)
      BY <2>1 DEF Touched
    <3>2. Touched(x) \in LifeBack
      BY <2>7 DEF LifeBack
    <3>3. Touched(x) \in Msgs
      BY <1>1, <2>7, <2>1, LogTypes, HandTypes DEF ThreadFits, RollbackFits, Rollbacks, Touched
    <3>4. Touched(x) \in live
      BY <3>2, <3>3, LifeTells DEF IInv
    <3>5. msg'[Touched(x)] = msg[Touched(x)]
      BY <3>3, <3>4 DEF Acts
    <3>6. TouchedFits(x)'
      BY <1>1, <2>1, <2>7, <3>1, <3>5 DEF ThreadFits, TouchedFits
    <3>7. QED
      BY <2>4, <2>5, <2>6, <3>1, <3>3, <3>4, <3>5, <3>6 DEF ThreadFits
  <2>8. CASE pc[x] # "reinsert"
    BY <1>1, <2>4, <2>5, <2>6, <2>8 DEF ThreadFits, TouchedFits
  <2>9. QED
    BY <2>7, <2>8
<1>4. QED
  BY <1>2, <1>3

-----------------------------------------------------------------------------
(***************************************************************************)
(* Where messages are, in terms of the thread that acts and the rest.      *)
(***************************************************************************)
Role(x) ==
  CASE pc[x] = "idle" -> "none"
    [] pc[x] = "extracted" -> "taken"
    [] pc[x] \notin {"idle", "extracted"} /\ cur[x] \in PastMsgs(Dest(x)) -> "killing"
    [] OTHER -> "running"

OthersIn(th, r) == {cur[x] : x \in {y \in Threads \ {th} : Role(y) = r}}
OthersBack(th) == {Touched(x) : x \in {y \in Threads \ {th} : pc[y] = "reinsert"}}
LoggedOf(lp) == {p_msgs[lp][i].m : i \in StandingIdx(lp)}
OthersLogged(D) == UNION {LoggedOf(lp) : lp \in LPs \ {D}}

\* The sets of MsgLife that threads are in charge of.
HandsFit == \A x \in Threads : CurFits(x) /\ pc[x] \in PCs
RolesAre ==
  \A th \in Threads :
    /\ LifeTaken = OthersIn(th, "taken") \cup IF Role(th) = "taken" THEN {cur[th]} ELSE {}
    /\ LifeRunning = OthersIn(th, "running")
                       \cup IF Role(th) = "running" THEN {cur[th]} ELSE {}
    /\ LifeKilling = OthersIn(th, "killing")
                       \cup IF Role(th) = "killing" THEN {cur[th]} ELSE {}
    /\ LifeBack = OthersBack(th) \cup IF pc[th] = "reinsert" THEN {Touched(th)} ELSE {}

\* The messages in the hands of threads are those of thread th, by what it is doing, and
\* those of the others.
LEMMA RolesTell == HandsFit => RolesAre
<1> SUFFICES ASSUME HandsFit, NEW th \in Threads
    PROVE  /\ LifeTaken = OthersIn(th, "taken")
                            \cup IF Role(th) = "taken" THEN {cur[th]} ELSE {}
           /\ LifeRunning = OthersIn(th, "running")
                              \cup IF Role(th) = "running" THEN {cur[th]} ELSE {}
           /\ LifeKilling = OthersIn(th, "killing")
                              \cup IF Role(th) = "killing" THEN {cur[th]} ELSE {}
           /\ LifeBack = OthersBack(th)
                           \cup IF pc[th] = "reinsert" THEN {Touched(th)} ELSE {}
  BY DEF RolesAre
<1>1. \A x \in Threads :
        /\ pc[x] = "extracted" <=> Role(x) = "taken"
        /\ pc[x] \notin {"idle", "extracted"} /\ cur[x] \notin PastMsgs(Dest(x))
             <=> Role(x) = "running"
        /\ pc[x] \in {"undo", "reinsert", "restore"} /\ cur[x] \in PastMsgs(Dest(x))
             <=> Role(x) = "killing"
  BY DEF Role, HandsFit, CurFits, PCs
<1>2. LifeTaken = OthersIn(th, "taken") \cup IF Role(th) = "taken" THEN {cur[th]} ELSE {}
  BY <1>1 DEF LifeTaken, OthersIn
<1>3. LifeRunning = OthersIn(th, "running") \cup IF Role(th) = "running" THEN {cur[th]} ELSE {}
  BY <1>1 DEF LifeRunning, OthersIn
<1>4. LifeKilling = OthersIn(th, "killing") \cup IF Role(th) = "killing" THEN {cur[th]} ELSE {}
  BY <1>1 DEF LifeKilling, OthersIn
<1>5. LifeBack = OthersBack(th) \cup IF pc[th] = "reinsert" THEN {Touched(th)} ELSE {}
  BY DEF LifeBack, OthersBack
<1>6. QED
  BY <1>2, <1>3, <1>4, <1>5

\* The same after a step.
LEMMA RolesTellNext == HandsFit' => RolesAre'
BY RolesTell, PTL

\* What is logged, by LP.
LEMMA LoggedTells ==
  ASSUME NEW D \in LPs
  PROVE  LifeLogged = OthersLogged(D) \cup LoggedOf(D)
BY DEF LifeLogged, OthersLogged, LoggedOf

\* The messages of the others are not those of the thread that acts,
LEMMA OthersApart ==
  ASSUME IInv, NEW th \in Threads, NEW D \in LPs, Rid[D] = th
  PROVE  /\ \A r \in {"taken", "running", "killing"} : \A m \in OthersIn(th, r) :
              m \in live /\ msg[m].dest # D
         /\ pc[th] = "reinsert" => Touched(th) \notin OthersBack(th)
         /\ \A m \in OthersLogged(D) : m \in live /\ msg[m].dest # D
         /\ \A m \in LoggedOf(D) : m \in live /\ msg[m].dest = D /\ m \in PastMsgs(D)
<1>1. ASSUME NEW r \in {"taken", "running", "killing"}, NEW m \in OthersIn(th, r)
      PROVE  m \in live /\ msg[m].dest # D
  <2>1. PICK x \in Threads \ {th} : Role(x) = r /\ m = cur[x]
    BY DEF OthersIn
  <2>2. pc[x] # "idle"
    BY <2>1 DEF Role
  <2>3. cur[x] \in live /\ Rid[Dest(x)] = x
    BY <2>2, HandsTell
  <2>4. QED
    BY <2>1, <2>3 DEF Dest
<1>2. pc[th] = "reinsert" => Touched(th) \notin OthersBack(th)
  BY DEF IInv, TouchedOnce, OthersBack
<1>3. \A lp \in LPs : \A m \in LoggedOf(lp) : m \in live /\ msg[m].dest = lp /\ m \in PastMsgs(lp)
  BY PastTells DEF LoggedOf, StandingIdx
<1>4. QED
  BY <1>1, <1>2, <1>3 DEF OthersLogged

\* and stay where they are.
LEMMA OthersStay ==
  ASSUME IInv, Shapes', NEW th \in Threads, NEW D \in LPs, Acts(th, D)
  PROVE  /\ \A r \in {"taken", "running", "killing"} : OthersIn(th, r)' = OthersIn(th, r)
         /\ OthersBack(th)' = OthersBack(th)
         /\ OthersLogged(D)' = OthersLogged(D)
<1>1. ASSUME NEW x \in Threads \ {th}
      PROVE  /\ Role(x)' = Role(x) /\ cur'[x] = cur[x] /\ pc'[x] = pc[x]
             /\ pc[x] = "reinsert" => Touched(x)' = Touched(x)
  <2>1. cur'[x] = cur[x] /\ pc'[x] = pc[x]
    BY DEF Acts
  <2>2. CASE pc[x] = "idle"
    BY <2>1, <2>2 DEF Role
  <2>3. CASE pc[x] # "idle"
    <3>1. Dest(x)' = Dest(x) /\ Dest(x) \in LPs \ {D}
      BY <2>3, OthersStand
    <3>2. PastMsgs(Dest(x))' = PastMsgs(Dest(x))
      BY <3>1, OtherLogsStand
    <3>3. Role(x)' = Role(x)
      BY <2>1, <3>1, <3>2 DEF Role
    <3>4. QED
      BY <2>1, <3>3, OtherThreadsFit
  <2>4. QED
    BY <2>2, <2>3
<1>2. \A r \in {"taken", "running", "killing"} : OthersIn(th, r)' = OthersIn(th, r)
  BY <1>1 DEF OthersIn
<1>3. OthersBack(th)' = OthersBack(th)
  BY <1>1 DEF OthersBack
<1>4. \A lp \in LPs \ {D} : LoggedOf(lp)' = LoggedOf(lp)
  BY OtherLogsStand DEF LoggedOf
<1>5. OthersLogged(D)' = OthersLogged(D)
  BY <1>4 DEF OthersLogged
<1>6. QED
  BY <1>2, <1>3, <1>5
-----------------------------------------------------------------------------
(***************************************************************************)
(* What is left to show of a step.                                         *)
(***************************************************************************)
\* Nobody forgot what another LP has sent.
MarksStay(D) ==
  \A lp \in LPs \ {D} : \A i \in SentIdx(lp) : MayUndo(lp, i) => p_msgs[lp][i].m \in marked'

\* What is queued for thread x was queued for it, or may be.
QueuedWell(x, m) ==
  \/ m \in list[x] \cup heap[x]
  \/ /\ Rid[msg'[m].dest] = x
     /\ msg'[m].ty < InitTy
     /\ \A y \in Threads : gvt[y] <= msg'[m].t

\* To show that a step of thread th at LP D keeps the invariant it is enough to look at the
\* log of D and the hands of th: what the other threads and LPs rely on is untouched.
LEMMA Conclude ==
  ASSUME IInv, Shapes', NEW th \in Threads, NEW D \in LPs, Acts(th, D), MarksStay(D),
         LpFits(D)', ThreadFits(th)', ZeroIsKept', SentOnce',
         pc'[th] = "reinsert" => Touched(th)' \notin OthersBack(th),
         pc'[th] # "idle" => cur'[th] \in Queued \cup InHand,
         \A x \in Threads : \A m \in list'[x] \cup heap'[x] : QueuedWell(x, m),
         [Life!Next]_(Life!vars)
  PROVE  IInv'
<1>1. Life!IInv'
  BY LifeStep DEF IInv
<1>2. \A lp \in LPs : LpFits(lp)'
  BY OtherLpsFit DEF MarksStay
<1>3. \A x \in Threads : ThreadFits(x)'
  BY OtherThreadsFit
<1>4. TouchedOnce'
  <2>1. ASSUME NEW x \in Threads \ {th}, pc'[x] = "reinsert"
        PROVE  Touched(x)' \in OthersBack(th)
    BY <2>1, OtherThreadsFit DEF OthersBack, Acts
  <2>2. ASSUME NEW x \in Threads \ {th}, NEW y \in Threads \ {th},
               pc'[x] = "reinsert", pc'[y] = "reinsert", Touched(x)' = Touched(y)'
        PROVE  x = y
    BY <2>2, OtherThreadsFit DEF IInv, TouchedOnce, Acts
  <2>3. QED
    BY <2>1, <2>2 DEF TouchedOnce
<1>5. \A m \in Queued \cup InHand : m \in Msgs /\ msg'[m] = msg[m]
  <2>1. \A m \in Queued \cup InHand : m \in Msgs
    <3>1. \A x \in Threads : list[x] \subseteq Msgs /\ heap[x] \subseteq Msgs /\ cur[x] \in Msgs
      BY DEF IInv, Shapes
    <3>2. QED
      BY <3>1 DEF Queued, InHand
  <2>2. \A m \in Queued : m \in live
    BY <2>1, LifeTells DEF IInv
  <2>3. \A m \in InHand : m \in live
    BY HandsTell DEF InHand
  <2>4. QED
    BY <2>1, <2>2, <2>3 DEF Acts
<1>6. \A m \in InHand' : m \in Queued \cup InHand
  BY DEF InHand, Acts
<1>7. \A m \in Queued \cup InHand :
         msg[m].ty < InitTy /\ \A y \in Threads : gvt[y] <= msg[m].t
  BY DEF IInv, QueuesFit, GvtIsSafe, IsGvt
<1>8. \A x \in Threads : \A m \in list'[x] \cup heap'[x] :
         /\ Rid[msg'[m].dest] = x /\ msg'[m].ty < InitTy
         /\ \A y \in Threads : gvt[y] <= msg'[m].t
  <2>1. \A x \in Threads : \A m \in list[x] \cup heap[x] : m \in Queued /\ Rid[msg[m].dest] = x
    BY DEF Queued, IInv, QueuesFit
  <2>2. QED
    BY <1>5, <1>7, <2>1 DEF QueuedWell
<1>9. \A m \in Queued' \cup InHand' :
         msg'[m].ty < InitTy /\ \A y \in Threads : gvt[y] <= msg'[m].t
  BY <1>5, <1>6, <1>7, <1>8 DEF Queued
<1>10. QueuesFit' /\ GvtIsSafe'
  BY <1>8, <1>9 DEF QueuesFit, GvtIsSafe, IsGvt, Acts
<1>11. QED
  BY <1>1, <1>2, <1>3, <1>4, <1>10 DEF IInv

\* A step that only cuts logs does not duplicate what is sent; cut is how much
\* of the start of the log goes.
LEMMA SentOnceStays ==
  ASSUME IInv, Shapes', NEW th \in Threads, NEW D \in LPs, Acts(th, D), MarksStay(D),
         NEW cut \in Nat,
         \A i \in SentIdx(D)' : MayUndo(D, i)' =>
            /\ i + cut \in SentIdx(D) /\ MayUndo(D, i + cut)
            /\ p_msgs'[D][i].m = p_msgs[D][i + cut].m
  PROVE  SentOnce'
<1> DEFINE c(lp) == IF lp = D THEN cut ELSE 0
<1>1. ASSUME NEW lp \in LPs, NEW i \in SentIdx(lp)', MayUndo(lp, i)'
      PROVE  /\ i \in Nat
             /\ i + c(lp) \in SentIdx(lp) /\ MayUndo(lp, i + c(lp))
             /\ p_msgs'[lp][i].m = p_msgs[lp][i + c(lp)].m
  <2>1. (SentIdx(lp) \in SUBSET (1 .. Len(p_msgs[lp])) /\ Len(p_msgs[lp]) \in Nat)'
    BY LogTypesNext
  <2>2. i \in Nat
    BY <2>1
  <2>3. CASE lp = D
    BY <1>1, <2>2, <2>3
  <2>4. CASE lp # D
    BY <1>1, <2>2, <2>4, OtherLogsStand, OtherLpsFit DEF MarksStay
  <2>5. QED
    BY <2>3, <2>4
<1>2. ASSUME NEW a \in LPs, NEW b \in LPs, NEW i \in SentIdx(a)', NEW j \in SentIdx(b)',
             MayUndo(a, i)', MayUndo(b, j)', p_msgs'[a][i].m = p_msgs'[b][j].m
      PROVE  a = b /\ i = j
  <2>1. a = b /\ i + c(a) = j + c(b)
    BY <1>1, <1>2 DEF IInv, SentOnce
  <2>2. i \in Nat /\ j \in Nat
    BY <1>1, <1>2
  <2>3. QED
    BY <2>1, <2>2
<1>3. QED
  BY <1>2 DEF SentOnce
-----------------------------------------------------------------------------
\* The thread that acts is the only one at its LP, before and after the step.
IsUndone(th, i) ==
  /\ i > past_i[th]
  /\ \/ pc[th] = "undo" /\ i < undo_i[th]
     \/ pc[th] = "reinsert" /\ i <= undo_i[th]
     \/ pc[th] = "restore"

\* Whether LP D is rolling back or running, and which of its entries are undone, can be read
\* off the thread that D is bound to.
LEMMA HomeTells ==
  ASSUME IInv, Shapes', NEW th \in Threads, NEW D \in LPs, Acts(th, D)
  PROVE  /\ \A x \in RollingBack(D) \cup Running(D) : x = th
         /\ pc[th] \in Rollbacks <=> th \in RollingBack(D)
         /\ pc[th] \in {"dispatch", "send"} <=> th \in Running(D)
         /\ \A i : i \in Undone(D) <=> i \in DOMAIN p_msgs[D] /\ IsUndone(th, i)
         /\ \A x \in RollingBack(D)' \cup Running(D)' : x = th
         /\ pc'[th] \in Rollbacks <=> th \in RollingBack(D)'
         /\ pc'[th] \in {"dispatch", "send"} <=> th \in Running(D)'
         /\ \A i : i \in Undone(D)' <=> i \in DOMAIN p_msgs'[D] /\ IsUndone(th, i)'
<1>1. \A x \in Threads \ {th} : pc[x] # "idle" => Dest(x) # D /\ Dest(x)' # D
  BY OthersStand
<1>2. \A x \in Threads \ {th} : pc'[x] = pc[x]
  BY DEF Acts
<1>3. /\ pc[th] # "idle" => Dest(th) = D
      /\ pc'[th] # "idle" => Dest(th)' = D
  BY DEF Acts
<1>4. /\ \A x \in RollingBack(D) \cup Running(D) : x = th
      /\ \A x \in RollingBack(D)' \cup Running(D)' : x = th
  BY <1>1, <1>2 DEF RollingBack, Running
<1>5. /\ pc[th] \in Rollbacks <=> th \in RollingBack(D)
      /\ pc'[th] \in Rollbacks <=> th \in RollingBack(D)'
  BY <1>3 DEF RollingBack, Rollbacks
<1>6. /\ pc[th] \in {"dispatch", "send"} <=> th \in Running(D)
      /\ pc'[th] \in {"dispatch", "send"} <=> th \in Running(D)'
  BY <1>3 DEF Running
<1>7. \A i : i \in Undone(D) <=> i \in DOMAIN p_msgs[D] /\ IsUndone(th, i)
  BY <1>4, <1>5 DEF Undone, IsUndone, Rollbacks
<1>8. \A i : i \in Undone(D)' <=> i \in DOMAIN p_msgs'[D] /\ IsUndone(th, i)'
  BY <1>4, <1>5 DEF Undone, IsUndone, Rollbacks
<1>9. QED
  BY <1>4, <1>5, <1>6, <1>7, <1>8

\* A step that leaves the log as it is and goes on undoing, or does not undo.
LEMMA LogStays ==
  ASSUME IInv, Shapes', NEW th \in Threads, NEW D \in LPs, Acts(th, D), MarksStay(D),
         UNCHANGED <<msg, p_msgs, logs>>, pc[th] # "send",
         BoundFits(D)', PastMsgs(D) \subseteq live',
         pc'[th] \in Rollbacks => logs[D][1].ref <= past_i'[th],
         \A i \in SentIdx(D) : IsUndone(th, i) => IsUndone(th, i)',
         \A i \in SentIdx(D) : MayUndo(D, i) /\ ~ IsUndone(th, i)' => p_msgs[D][i].m \in marked'
  PROVE  LpFits(D)' /\ SentOnce'
<1>1. LpFits(D) /\ Shapes
  BY DEF IInv
<1>2. /\ PastIdx(D)' = PastIdx(D) /\ PastMsgs(D)' = PastMsgs(D) /\ SentIdx(D)' = SentIdx(D)
      /\ \A i : TimeOf(D, i)' = TimeOf(D, i) /\ RankOf(D, i)' = RankOf(D, i)
  BY DEF PastIdx, PastMsgs, SentIdx, TimeOf, RankOf
<1>3. ~ \E x \in Running(D) : pc[x] = "send"
  BY HomeTells
<1>4. LogInOrder(D)'
  BY <1>1, <1>2, <1>3 DEF LpFits, LogInOrder
<1>5. CheckpointsFit(D)'
  BY <1>1, <1>2 DEF LpFits, CheckpointsFit
<1>6. FirstStays(D)'
  <2>1. \A x \in RollingBack(D)' : logs[D][1].ref <= past_i'[x]
    BY HomeTells
  <2>2. QED
    BY <1>1, <1>2, <2>1 DEF LpFits, FirstStays
<1>7. ASSUME NEW i \in SentIdx(D), MayUndo(D, i)'
      PROVE  MayUndo(D, i) /\ ~ IsUndone(th, i)'
  <2>1. i \in DOMAIN p_msgs[D] /\ i \notin Undone(D)'
    BY <1>2, <1>7 DEF MayUndo, SentIdx
  <2>2. ~ IsUndone(th, i)'
    BY <2>1, HomeTells
  <2>3. i \notin Undone(D)
    BY <2>2, HomeTells
  <2>4. QED
    BY <1>2, <1>7, <2>2, <2>3 DEF MayUndo, Acts
<1>8. SentIsMarked(D)'
  <2>1. ASSUME NEW i \in SentIdx(D), MayUndo(D, i)'
        PROVE  /\ p_msgs[D][i].m \in marked'
               /\ \E j \in PastIdx(D) : j > i /\ TimeOf(D, j) <= TimeOf(D, i)
    <3>1. MayUndo(D, i) /\ ~ IsUndone(th, i)'
      BY <1>7, <2>1
    <3>2. QED
      BY <1>1, <1>3, <3>1 DEF LpFits, SentIsMarked
  <2>2. QED
    BY <1>2, <2>1 DEF SentIsMarked
<1>9. LpFits(D)'
  BY <1>4, <1>5, <1>6, <1>8 DEF LpFits
<1>10. \A i \in SentIdx(D)' : MayUndo(D, i)' =>
            /\ i + 0 \in SentIdx(D) /\ MayUndo(D, i + 0)
            /\ p_msgs'[D][i].m = p_msgs[D][i + 0].m
  <2>1. \A i \in SentIdx(D) : i \in Nat /\ i + 0 = i
    BY <1>1, LogTypes
  <2>2. QED
    BY <1>2, <1>7, <2>1
<1>11. SentOnce'
  BY <1>10, SentOnceStays
<1>12. QED
  BY <1>9, <1>11
\* Where messages are before and after a step.
PlacesAre(th, D) ==
  /\ LifeTaken = OthersIn(th, "taken")
                   \cup IF Role(th) = "taken" THEN {cur[th]} ELSE {}
  /\ LifeTaken' = OthersIn(th, "taken")
                   \cup IF Role(th)' = "taken" THEN {cur'[th]} ELSE {}
  /\ LifeRunning = OthersIn(th, "running")
                     \cup IF Role(th) = "running" THEN {cur[th]} ELSE {}
  /\ LifeRunning' = OthersIn(th, "running")
                     \cup IF Role(th)' = "running" THEN {cur'[th]} ELSE {}
  /\ LifeKilling = OthersIn(th, "killing")
                     \cup IF Role(th) = "killing" THEN {cur[th]} ELSE {}
  /\ LifeKilling' = OthersIn(th, "killing")
                     \cup IF Role(th)' = "killing" THEN {cur'[th]} ELSE {}
  /\ LifeBack = OthersBack(th) \cup IF pc[th] = "reinsert" THEN {Touched(th)} ELSE {}
  /\ LifeBack' = OthersBack(th) \cup IF pc'[th] = "reinsert" THEN {Touched(th)'} ELSE {}
  /\ LifeLogged = OthersLogged(D) \cup LoggedOf(D)
  /\ LifeLogged' = OthersLogged(D) \cup LoggedOf(D)'

\* Where the messages are, before and after a step of th: the places of th and D, and those
\* of the others, which stay.
LEMMA PlacesTell ==
  ASSUME IInv, Shapes', NEW th \in Threads, NEW D \in LPs, Acts(th, D), ThreadFits(th)'
  PROVE  PlacesAre(th, D)
<1>1. HandsFit
  BY HandTypes DEF HandsFit, IInv, ThreadFits
<1>2. HandsFit'
  <2>1. \A x \in Threads : CurFits(x)'
    BY OtherThreadsFit DEF ThreadFits
  <2>2. \A x \in Threads : pc'[x] \in PCs
    BY DEF Shapes
  <2>3. QED
    BY <2>1, <2>2 DEF HandsFit
<1>3. RolesAre /\ RolesAre'
  BY <1>1, <1>2, RolesTell, RolesTellNext
<1>4. /\ \A r \in {"taken", "running", "killing"} : OthersIn(th, r)' = OthersIn(th, r)
      /\ OthersBack(th)' = OthersBack(th) /\ OthersLogged(D)' = OthersLogged(D)
  BY OthersStay
<1>5. /\ LifeTaken' = OthersIn(th, "taken")'
                          \cup IF Role(th)' = "taken" THEN {cur'[th]} ELSE {}
      /\ LifeRunning' = OthersIn(th, "running")'
                            \cup IF Role(th)' = "running" THEN {cur'[th]} ELSE {}
      /\ LifeKilling' = OthersIn(th, "killing")'
                            \cup IF Role(th)' = "killing" THEN {cur'[th]} ELSE {}
      /\ LifeBack' = OthersBack(th)' \cup IF pc'[th] = "reinsert" THEN {Touched(th)'} ELSE {}
  BY <1>3 DEF RolesAre
<1>6. LifeLogged' = OthersLogged(D)' \cup LoggedOf(D)'
  BY DEF LifeLogged, OthersLogged, LoggedOf
<1>7. QED
  BY <1>3, <1>4, <1>5, <1>6, LoggedTells DEF RolesAre, PlacesAre

\* The thread keeps its message, and does the same with it.
LEMMA HandsStay ==
  ASSUME IInv, Shapes', NEW th \in Threads, NEW D \in LPs, Acts(th, D), ThreadFits(th)',
         cur'[th] = cur[th], Role(th)' = Role(th)
  PROVE  LifeTaken' = LifeTaken /\ LifeRunning' = LifeRunning /\ LifeKilling' = LifeKilling
BY PlacesTell DEF PlacesAre

\* A step that MsgLife does not see.
LEMMA LifeStutters ==
  ASSUME IInv, Shapes', NEW th \in Threads, NEW D \in LPs, Acts(th, D), ThreadFits(th)',
         UNCHANGED <<flags, live, marked>>, Queued' = Queued, cur'[th] = cur[th],
         Role(th)' = Role(th), pc[th] # "reinsert", pc'[th] # "reinsert",
         LoggedOf(D)' = LoggedOf(D)
  PROVE  UNCHANGED Life!vars
<1>1. /\ LifeTaken' = LifeTaken /\ LifeRunning' = LifeRunning /\ LifeKilling' = LifeKilling
      /\ LifeBack' = LifeBack /\ LifeLogged' = LifeLogged
  BY PlacesTell DEF PlacesAre
<1>2. QED
  BY <1>1 DEF Life!vars
-----------------------------------------------------------------------------
(***************************************************************************)
(* The straggler: where match_straggler_msg goes back to.                  *)
(***************************************************************************)
\* A good index to go back to, for the message in hand.
GoesBackTo(D, m, i) ==
  /\ i \in {0} \cup PastIdx(D)
  /\ i \in Nat
  /\ i < Len(p_msgs[D])
  /\ logs[D][1].ref <= i
  /\ \A j \in PastIdx(D) :
       IF j <= i THEN TimeOf(D, j) <= msg[m].t /\ p_msgs[D][j].m # m
                 ELSE TimeOf(D, j) >= msg[m].t

\* The first checkpoint of a log is taken at its start or after LP_INIT.
LEMMA FirstRef ==
  ASSUME IInv, NEW D \in LPs
  PROVE  /\ logs[D][1].ref \in {0} \cup PastIdx(D)
         /\ logs[D][1].ref \in Nat
         /\ logs[D] \in Seq([ref : Nat, st : Seq(Event)])
         /\ Len(logs[D]) \in Nat /\ Len(logs[D]) >= 1
         /\ DOMAIN logs[D] = 1 .. Len(logs[D])
         /\ \A j \in 1 .. Len(logs[D]) : logs[D][j] \in [ref : Nat, st : Seq(Event)]
<1>1. logs[D] \in Seq([ref : Nat, st : Seq(Event)]) /\ CheckpointsFit(D)
  BY DEF IInv, Shapes, LpFits
<1>2. logs[D] # <<>>
  BY <1>1 DEF CheckpointsFit
<1>3. Len(logs[D]) \in Nat /\ Len(logs[D]) >= 1 /\ DOMAIN logs[D] = 1 .. Len(logs[D])
  BY <1>1, <1>2
<1>4. \A j \in 1 .. Len(logs[D]) : logs[D][j] \in [ref : Nat, st : Seq(Event)]
  BY <1>1, ElementOfSeq
<1>5. logs[D][1].ref \in Nat
  BY <1>3, <1>4
<1>6. 1 \in DOMAIN logs[D]
  BY <1>3
<1>7. logs[D][1].ref \in {0} \cup PastIdx(D)
  BY <1>1, <1>6 DEF CheckpointsFit
<1>8. QED
  BY <1>1, <1>3, <1>4, <1>5, <1>7

\* The message goes back before what it should have come before, and stays
\* after the first checkpoint.
LEMMA StragglerMatch ==
  ASSUME IInv, NEW th \in Threads, pc[th] = "check", NEW anti \in SUBSET AntiMsgs,
         IsStraggler(Dest(th), cur[th], anti)
  PROVE  GoesBackTo(Dest(th), cur[th], MatchStraggler(Dest(th), cur[th], anti))
<1> DEFINE D == Dest(th)
           m == cur[th]
           last == Len(p_msgs[D])
           S == {i \in PastIdx(D) : i < last /\ ~ Before(m, p_msgs[D][i].m, anti)}
           i == MatchStraggler(D, m, anti)
           r == logs[D][1].ref
<1>1. D \in LPs /\ m \in live /\ Shapes /\ LpFits(D) /\ ThreadFits(th)
  BY HandTypes, HandsTell DEF IInv
<1>2. /\ m \in Msgs /\ msg[m].t \in 0 .. MaxT /\ msg[m].ty \in 0 .. InitTy
      /\ msg[m].ty < InitTy
  BY <1>1, HandTypes, HandsTell DEF IInv, QueuesFit
<1>3. LogTyped(D) /\ MaxT \in Nat /\ InitTy \in Nat
  BY <1>1, LogTypes, Numbers
<1>4. bound[D] >= msg[m].t /\ Before(m, p_msgs[D][last].m, anti)
  BY DEF IsStraggler
<1>5. th \notin Running(D) /\ \A x \in Running(D) : x = th
  BY HandsTell DEF Running
<1>6. p_msgs[D] # <<>>
  <2>1. p_msgs[D] = <<>> => bound[D] = -1
    BY <1>1, <1>5 DEF LpFits, BoundFits
  <2>2. QED
    BY <1>2, <1>4, <2>1
<1>7. last \in PastIdx(D) /\ last >= 1
  BY <1>1, <1>3, <1>5, <1>6 DEF LpFits, LogInOrder
<1>8. S \in SUBSET Nat /\ \A x \in S : x <= last - 1 /\ last - 1 \in Nat
  BY <1>3, <1>7
<1>9. i \in Nat /\ i <= last - 1 /\ (S # {} => i \in S) /\ (S = {} => i = 0)
      /\ \A y \in S : y <= i
  <2>1. i = Greatest(S)
    BY DEF MatchStraggler
  <2>2. S = {} => Greatest(S) = 0
    BY DEF Greatest
  <2>3. last - 1 \in Nat
    BY <1>3, <1>7
  <2>4. S \in SUBSET Nat /\ \A x \in S : x <= last - 1
    BY <1>8
  <2>5. /\ Greatest(S) \in Nat /\ Greatest(S) <= last - 1
        /\ S # {} => Greatest(S) \in S
        /\ \A y \in S : y <= Greatest(S)
    <3> HIDE DEF S, last
    <3> QED
      BY <2>3, <2>4, GreatestTells
  <2>6. QED
    BY <2>1, <2>2, <2>5
<1>10. \A j \in PastIdx(D) : p_msgs[D][j].m # m
  BY <1>1 DEF ThreadFits, CurFits, PastMsgs
<1>11. ASSUME NEW j \in PastIdx(D), j <= i
       PROVE  TimeOf(D, j) <= msg[m].t
  <2>1. i \in S
    BY <1>3, <1>9, <1>11
  <2>2. ~ (msg[m].t < TimeOf(D, i))
    BY <2>1 DEF Before, TimeOf
  <2>3. TimeOf(D, j) <= TimeOf(D, i)
    BY <1>1, <1>11, <2>1, PastTells
  <2>4. QED
    BY <1>2, <1>3, <2>1, <2>2, <2>3
<1>12. ASSUME NEW j \in PastIdx(D), ~ (j <= i)
       PROVE  TimeOf(D, j) >= msg[m].t
  <2>1. j \notin S
    BY <1>3, <1>9, <1>12
  <2>2. j \in 1 .. last
    BY <1>3
  <2>3. Before(m, p_msgs[D][j].m, anti)
    BY <1>4, <2>1, <2>2
  <2>4. QED
    BY <1>2, <1>3, <2>2, <2>3 DEF Before, TimeOf
<1>13. r <= i
  <2>1. CASE r = 0
    BY <1>9, <2>1
  <2>2. CASE r # 0
    <3> DEFINE a == p_msgs[D][r].m
    <3>1. r \in PastIdx(D) /\ TimeOf(D, r) = 0 /\ RankOf(D, r) = InitTy
      BY <1>1, <2>2 DEF LpFits, FirstStays
    <3>2. a \in live /\ msg[a].t = 0 /\ msg[a].ty = InitTy
      BY <1>1, <3>1, PastTells DEF TimeOf, RankOf
    <3>3. a \notin anti
      BY <3>2 DEF IInv, ZeroIsKept, AntiMsgs
    <3>4. ~ Before(m, a, anti)
      <4>1. msg[m].t = 0 => m \notin anti
        BY <1>1 DEF IInv, ZeroIsKept, AntiMsgs
      <4>2. QED
        BY SMTT(30), <1>2, <1>3, <3>2, <3>3, <4>1 DEF Before
    <3>5. r # last
      BY <1>4, <3>4
    <3>6. r \in S
      BY <1>3, <3>1, <3>4, <3>5
    <3>7. QED
      BY <1>9, <3>6
  <2>3. QED
    BY <2>1, <2>2
<1>14. i \in {0} \cup PastIdx(D) /\ i < last
  BY <1>3, <1>9, <1>7
<1>15. QED
  BY <1>9, <1>10, <1>11, <1>12, <1>13, <1>14 DEF GoesBackTo
\* A rollback starts with nothing undone, so what is logged stays logged.
LEMMA RollbackStarts ==
  ASSUME IInv, Shapes', NEW th \in Threads, NEW D \in LPs, Acts(th, D), UNCHANGED <<p_msgs, msg>>,
         pc[th] \notin Rollbacks,
         pc'[th] \in Rollbacks => pc'[th] = "undo" /\ undo_i'[th] = past_i'[th] + 1
  PROVE  /\ LoggedOf(D)' = LoggedOf(D)
         /\ \A i \in SentIdx(D) : ~ IsUndone(th, i) /\ ~ IsUndone(th, i)'
         /\ PastMsgs(D)' = PastMsgs(D)
         /\ \A i \in PastIdx(D) : i \in StandingIdx(D)
<1>1. /\ past_i'[th] \in Nat /\ LogTyped(D)
  BY LogTypes DEF Shapes, IInv
<1>2. \A i \in 1 .. Len(p_msgs[D]) : ~ IsUndone(th, i) /\ ~ IsUndone(th, i)'
  BY <1>1 DEF IsUndone, Rollbacks
<1>3. PastIdx(D)' = PastIdx(D)
  BY DEF PastIdx
<1>4. PastMsgs(D)' = PastMsgs(D)
  BY <1>3 DEF PastMsgs
<1>5. \A i \in PastIdx(D) : i \notin Undone(D) /\ i \notin Undone(D)'
  BY <1>1, <1>2, HomeTells
<1>6. StandingIdx(D)' = StandingIdx(D) /\ \A i \in PastIdx(D) : i \in StandingIdx(D)
  BY <1>3, <1>5 DEF StandingIdx
<1>7. LoggedOf(D)' = LoggedOf(D)
  BY <1>6 DEF LoggedOf
<1>8. QED
  BY <1>1, <1>2, <1>4, <1>6, <1>7

\* The test for a straggler changes the position of the thread only.
LEMMA CheckStep ==
  ASSUME IInv, NEW th \in Threads, NEW D \in LPs, NEW m \in Msgs, Dest(th) = D, cur[th] = m,
         Check(th)
  PROVE  IInv' /\ [Life!Next]_(Life!vars)
<1>1. PICK anti \in SUBSET AntiMsgs :
        IF IsStraggler(D, m, anti)
        THEN /\ past_i' = [past_i EXCEPT ![th] = MatchStraggler(D, m, anti)]
             /\ undo_i' = [undo_i EXCEPT ![th] = past_i'[th] + 1]
             /\ pc' = [pc EXCEPT ![th] = "undo"]
        ELSE /\ pc' = [pc EXCEPT ![th] = "dispatch"]
             /\ UNCHANGED <<past_i, undo_i>>
  BY DEF Check, Dest
<1>2. /\ pc[th] = "check"
      /\ UNCHANGED <<msg, flags, live, marked, list, heap, p_msgs, bound, state, logs,
                     ckpt_rem, epoch, gvt, cur, outs>>
  BY DEF Check, msgVars, lpVars
<1>3. /\ D \in LPs /\ m \in live /\ Shapes /\ LpFits(D) /\ ThreadFits(th) /\ LogTyped(D)
      /\ Rid[D] = th /\ m \in InHand
  BY <1>2, HandTypes, HandsTell, LogTypes DEF IInv
<1>4. /\ pc \in [Threads -> PCs] /\ past_i \in [Threads -> Nat] /\ undo_i \in [Threads -> Nat]
      /\ msg[m].t \in 0 .. MaxT
  BY <1>3, HandTypes DEF Shapes
<1>5. CASE IsStraggler(D, m, anti)
  <2> DEFINE i == MatchStraggler(D, m, anti)
  <2>1. GoesBackTo(D, m, i)
    BY <1>2, <1>5, StragglerMatch
  <2> HIDE DEF i
  <2>2. i \in Nat /\ i < Len(p_msgs[D]) /\ logs[D][1].ref <= i
    BY <2>1 DEF GoesBackTo
  <2>3. /\ past_i' = [past_i EXCEPT ![th] = i] /\ undo_i' = [undo_i EXCEPT ![th] = i + 1]
        /\ pc' = [pc EXCEPT ![th] = "undo"]
    BY <1>1, <1>4, <1>5, <2>2 DEF i
  <2>4. past_i'[th] = i /\ undo_i'[th] = i + 1 /\ pc'[th] = "undo"
    BY <1>4, <2>3
  <2>5. Shapes'
    <3>1. i + 1 \in Nat
      BY <2>2
    <3>2. /\ pc' \in [Threads -> PCs] /\ past_i' \in [Threads -> Nat]
          /\ undo_i' \in [Threads -> Nat]
      BY <1>4, <2>2, <2>3, <3>1 DEF PCs
    <3>3. QED
      BY <1>2, <1>3, <3>2 DEF Shapes
  <2>6. Acts(th, D)
    BY <1>2, <1>3, <1>4, <2>3 DEF Acts, Dest
  <2>7. /\ PastMsgs(D)' = PastMsgs(D) /\ LoggedOf(D)' = LoggedOf(D)
        /\ \A j \in SentIdx(D) : ~ IsUndone(th, j) /\ ~ IsUndone(th, j)'
    BY <1>2, <1>3, <2>4, <2>5, <2>6, RollbackStarts DEF Rollbacks
  <2>8. m \notin PastMsgs(D) /\ Dest(th)' = D
    BY <1>2, <1>3 DEF ThreadFits, CurFits, Dest
  <2>9. ThreadFits(th)'
    <3>1. CurFits(th)' /\ OutsFit(th)' /\ TouchedFits(th)'
      BY <1>2, <1>3, <2>4, <2>8 DEF CurFits, OutsFit, TouchedFits
    <3>2. PastIdx(D)' = PastIdx(D) /\ \A j : TimeOf(D, j)' = TimeOf(D, j)
      BY <1>2 DEF PastIdx, TimeOf
    <3>3. RollbackFits(th)'
      <4>1. past_i'[th] < Len(p_msgs'[D]) /\ past_i'[th] \in {0} \cup PastIdx(D)'
        BY <1>2, <2>1, <2>4, <3>2 DEF GoesBackTo
      <4>2. undo_i'[th] \in past_i'[th] + 1 .. Len(p_msgs'[D])
        BY <1>2, <1>3, <2>2, <2>4
      <4>3. \A j \in PastIdx(D)' :
               IF j <= past_i'[th]
               THEN TimeOf(D, j)' <= msg'[cur'[th]].t /\ p_msgs'[D][j].m # cur'[th]
               ELSE TimeOf(D, j)' >= msg'[cur'[th]].t
        BY <1>2, <2>1, <2>4, <3>2 DEF GoesBackTo
      <4>4. QED
        BY <2>8, <4>1, <4>2, <4>3 DEF RollbackFits
    <3>4. QED
      BY <3>1, <3>3 DEF ThreadFits
  <2>10. MarksStay(D)
    BY <1>2 DEF MarksStay, IInv, LpFits, SentIsMarked
  <2>11. BoundFits(D)'
    <3>1. PastIdx(D)' = PastIdx(D) /\ \A j : TimeOf(D, j)' = TimeOf(D, j)
      BY <1>2 DEF PastIdx, TimeOf
    <3>2. Running(D) = {}
      BY <1>2, <2>5, <2>6, HomeTells DEF Running
    <3>3. QED
      BY <1>2, <1>3, <3>1, <3>2 DEF LpFits, BoundFits
  <2>12. PastMsgs(D) \subseteq live'
    BY <1>2, <1>3 DEF LpFits, LogInOrder
  <2>13. LpFits(D)' /\ SentOnce'
    <3>1. \A j \in SentIdx(D) : MayUndo(D, j) => p_msgs[D][j].m \in marked'
      BY <1>2, <1>3 DEF LpFits, SentIsMarked
    <3>2. QED
      BY <1>2, <1>3, <2>2, <2>4, <2>5, <2>6, <2>7, <2>10, <2>11, <2>12, <3>1, LogStays
  <2>14. Role(th) = "running" /\ Role(th)' = "running"
    BY <1>2, <2>4, <2>7, <2>8 DEF Role
  <2>15. UNCHANGED Life!vars
    <3>1. Queued' = Queued
      BY <1>2 DEF Queued
    <3>2. QED
      BY <1>2, <1>3, <2>4, <2>5, <2>6, <2>7, <2>9, <2>14, <3>1, LifeStutters
  <2>16. IInv'
    <3>1. ZeroIsKept'
      BY <1>2 DEF IInv, ZeroIsKept
    <3>2. \A x \in Threads : \A n \in list'[x] \cup heap'[x] : QueuedWell(x, n)
      BY <1>2 DEF QueuedWell
    <3>3. pc'[th] # "reinsert" /\ cur'[th] \in Queued \cup InHand
      BY <1>2, <1>3, <2>4
    <3>4. QED
      BY <1>3, <2>5, <2>6, <2>9, <2>10, <2>13, <2>15, <3>1, <3>2, <3>3, Conclude
  <2>17. QED
    BY <2>15, <2>16
<1>6. CASE ~ IsStraggler(D, m, anti)
  <2>3. /\ pc' = [pc EXCEPT ![th] = "dispatch"] /\ UNCHANGED <<past_i, undo_i>>
    BY <1>1, <1>6
  <2>4. pc'[th] = "dispatch"
    BY <1>4, <2>3
  <2>5. Shapes'
    BY <1>2, <1>3, <2>3 DEF Shapes, PCs
  <2>6. Acts(th, D)
    BY <1>2, <1>3, <1>4, <2>3 DEF Acts, Dest
  <2>7. /\ PastMsgs(D)' = PastMsgs(D) /\ LoggedOf(D)' = LoggedOf(D)
        /\ \A j \in SentIdx(D) : ~ IsUndone(th, j) /\ ~ IsUndone(th, j)'
    BY <1>2, <1>3, <2>4, <2>5, <2>6, RollbackStarts DEF Rollbacks
  <2>8. m \notin PastMsgs(D) /\ Dest(th)' = D
    BY <1>2, <1>3 DEF ThreadFits, CurFits, Dest
  <2>1. PastIdx(D)' = PastIdx(D) /\ \A j : TimeOf(D, j)' = TimeOf(D, j)
    BY <1>2 DEF PastIdx, TimeOf
  <2>2. Running(D) = {}
    BY <1>2, <2>5, <2>6, HomeTells DEF Running
  <2>9. \A j \in PastIdx(D) : TimeOf(D, j) <= msg[m].t
    <3>1. CASE ~ (bound[D] >= msg[m].t)
      <4>1. bound[D] \in -1 .. MaxT
        BY <1>3 DEF Shapes
      <4>2. \A j \in PastIdx(D) : TimeOf(D, j) <= bound[D] /\ TimeOf(D, j) \in 0 .. MaxT
        BY <1>3 DEF LpFits, BoundFits
      <4>3. QED
        BY <1>4, <3>1, <4>1, <4>2, Numbers
    <3>2. CASE ~ Before(m, p_msgs[D][Len(p_msgs[D])].m, anti)
      <4>1. SUFFICES ASSUME NEW j \in PastIdx(D) PROVE TimeOf(D, j) <= msg[m].t
        OBVIOUS
      <4> DEFINE last == Len(p_msgs[D])
      <4>2. last \in PastIdx(D) /\ j <= last
        BY <1>3, <2>2 DEF LpFits, LogInOrder
      <4>3. TimeOf(D, j) <= TimeOf(D, last)
        BY <1>3, <4>2, PastTells
      <4>4. ~ (msg[m].t < TimeOf(D, last))
        BY <3>2 DEF Before, TimeOf
      <4>5. TimeOf(D, j) \in 0 .. MaxT /\ TimeOf(D, last) \in 0 .. MaxT
        BY <1>3, <4>2
      <4>6. QED
        BY <1>4, <4>3, <4>4, <4>5, Numbers
    <3>3. QED
      BY <1>6, <3>1, <3>2 DEF IsStraggler
  <2>10. ThreadFits(th)'
    BY <1>2, <1>3, <2>1, <2>4, <2>7, <2>8, <2>9
       DEF ThreadFits, CurFits, OutsFit, TouchedFits, RollbackFits, Rollbacks
  <2>11. MarksStay(D)
    BY <1>2 DEF MarksStay, IInv, LpFits, SentIsMarked
  <2>12. BoundFits(D)'
    BY <1>2, <1>3, <2>1, <2>2 DEF LpFits, BoundFits
  <2>13. LpFits(D)' /\ SentOnce'
    <3>1. \A j \in SentIdx(D) : MayUndo(D, j) => p_msgs[D][j].m \in marked'
      BY <1>2, <1>3 DEF LpFits, SentIsMarked
    <3>2. PastMsgs(D) \subseteq live' /\ pc'[th] \notin Rollbacks
      BY <1>2, <1>3, <2>4 DEF LpFits, LogInOrder, Rollbacks
    <3>3. QED
      BY <1>2, <1>3, <2>5, <2>6, <2>7, <2>11, <2>12, <3>1, <3>2, LogStays
  <2>14. Role(th) = "running" /\ Role(th)' = "running"
    BY <1>2, <2>4, <2>7, <2>8 DEF Role
  <2>15. UNCHANGED Life!vars
    <3>1. Queued' = Queued
      BY <1>2 DEF Queued
    <3>2. QED
      BY <1>2, <1>3, <2>4, <2>5, <2>6, <2>7, <2>10, <2>14, <3>1, LifeStutters
  <2>16. IInv'
    <3>1. ZeroIsKept'
      BY <1>2 DEF IInv, ZeroIsKept
    <3>2. \A x \in Threads : \A n \in list'[x] \cup heap'[x] : QueuedWell(x, n)
      BY <1>2 DEF QueuedWell
    <3>3. pc'[th] # "reinsert" /\ cur'[th] \in Queued \cup InHand
      BY <1>2, <1>3, <2>4
    <3>4. QED
      BY <1>3, <2>5, <2>6, <2>10, <2>11, <2>13, <2>15, <3>1, <3>2, <3>3, Conclude
  <2>17. QED
    BY <2>15, <2>16
<1>7. QED
  BY <1>5, <1>6

\* A step on a message leaves the protocol where it is, in short: the log and
\* the queues stay, the thread is not at a rollback before nor after.
LEMMA QuietStep ==
  ASSUME IInv, Shapes', NEW th \in Threads, NEW D \in LPs, NEW m \in Msgs,
         Dest(th) = D, cur[th] = m, pc[th] # "idle", pc'[th] # "idle",
         pc[th] \notin {"send", "reinsert"}, pc'[th] # "reinsert",
         UNCHANGED <<msg, flags, live, marked, list, heap, p_msgs, logs, gvt, cur>>,
         Acts(th, D), ThreadFits(th)', BoundFits(D)', Role(th)' = Role(th),
         LoggedOf(D)' = LoggedOf(D),
         pc'[th] \in Rollbacks => logs[D][1].ref <= past_i'[th],
         \A i \in SentIdx(D) : IsUndone(th, i) => IsUndone(th, i)'
  PROVE  IInv' /\ UNCHANGED Life!vars
<1>1. /\ m \in live /\ LpFits(D) /\ m \in InHand
  BY HandsTell DEF IInv
<1>2. MarksStay(D)
  BY DEF MarksStay, IInv, LpFits, SentIsMarked
<1>3. \A j \in SentIdx(D) : MayUndo(D, j) => p_msgs[D][j].m \in marked'
  BY <1>1 DEF LpFits, SentIsMarked
<1>4. PastMsgs(D) \subseteq live'
  BY <1>1 DEF LpFits, LogInOrder
<1>5. LpFits(D)' /\ SentOnce'
  BY <1>2, <1>3, <1>4, LogStays
<1>6. UNCHANGED Life!vars
  <2>1. Queued' = Queued
    BY DEF Queued
  <2>2. QED
    BY <2>1, LifeStutters
<1>7. ZeroIsKept'
  BY DEF IInv, ZeroIsKept
<1>8. \A x \in Threads : \A n \in list'[x] \cup heap'[x] : QueuedWell(x, n)
  BY DEF QueuedWell
<1>9. cur'[th] \in Queued \cup InHand
  BY <1>1
<1>10. IInv'
  BY <1>2, <1>5, <1>6, <1>7, <1>8, <1>9, Conclude
<1>11. QED
  BY <1>6, <1>10

\* What the handler is called with, and what it returns.
LEMMA HandlerTells ==
  ASSUME HandlerIsCausal, Shapes, NEW D \in LPs, NEW m \in Msgs
  PROVE  /\ Content(m) \in Event
         /\ Handler(D, state[D], Content(m)) \in Seq(MsgRec)
         /\ \A k \in DOMAIN Handler(D, state[D], Content(m)) :
              LET o == Handler(D, state[D], Content(m))[k] IN
              /\ o.t >= msg[m].t /\ o.ty < InitTy
              /\ msg[m].ty < InitTy => o.t > 0
<1> DEFINE ev == Content(m)
           C == {o \in MsgRec : o.t >= ev.t /\ o.ty < InitTy /\ (ev # InitEvent => o.t > 0)}
           H == Handler(D, state[D], ev)
<1>1. msg[m].t \in 0 .. MaxT /\ msg[m].ty \in 0 .. InitTy /\ InitTy \in Nat
  BY Numbers DEF Shapes, MsgRec, Times
<1>2. ev \in Event /\ ev.t = msg[m].t /\ ev.ty = msg[m].ty
  BY <1>1 DEF Content, Event, Times
<1>3. state[D] \in Seq(Event)
  BY DEF Shapes
<1>4. H \in Seq(C)
  BY <1>2, <1>3 DEF HandlerIsCausal
<1>5. \A k \in DOMAIN H : H[k] \in C
  <2> HIDE DEF H, C
  <2> QED
    BY <1>4, ElementOfSeq
<1>6. H \in Seq(MsgRec)
  <2>1. C \subseteq MsgRec
    OBVIOUS
  <2> HIDE DEF H, C
  <2>2. QED
    BY <1>4, <2>1
<1>7. msg[m].ty < InitTy => ev # InitEvent
  BY <1>1, <1>2 DEF InitEvent
<1>8. QED
  BY <1>2, <1>5, <1>6, <1>7

\* The handler runs.
LEMMA DispatchStep ==
  ASSUME HandlerIsCausal, IInv, NEW th \in Threads, NEW D \in LPs, NEW m \in Msgs,
         Dest(th) = D, cur[th] = m, Dispatch(th)
  PROVE  IInv' /\ [Life!Next]_(Life!vars)
<1>1. /\ pc[th] = "dispatch" /\ pc' = [pc EXCEPT ![th] = "send"]
      /\ outs' = [outs EXCEPT ![th] = Handler(D, state[D], Content(m))]
      /\ state' = [state EXCEPT ![D] = Append(@, Content(m))]
      /\ UNCHANGED <<msg, flags, live, marked, list, heap, p_msgs, bound, logs, ckpt_rem, gvt,
                     epoch, cur, past_i, undo_i>>
  BY DEF Dispatch, msgVars, Dest
<1>2. /\ m \in live /\ Shapes /\ LpFits(D) /\ ThreadFits(th) /\ LogTyped(D)
      /\ Rid[D] = th /\ m \in InHand
  BY <1>1, HandTypes, HandsTell, LogTypes DEF IInv
<1>3. /\ pc \in [Threads -> PCs] /\ outs \in [Threads -> Seq(MsgRec)]
      /\ state \in [LPs -> Seq(Event)] /\ msg[m].ty < InitTy
  BY <1>2 DEF Shapes, IInv, QueuesFit
<1>4. Content(m) \in Event /\ Handler(D, state[D], Content(m)) \in Seq(MsgRec)
  BY <1>2, HandlerTells
<1>5. pc'[th] = "send" /\ outs'[th] = Handler(D, state[D], Content(m))
  BY <1>1, <1>3
<1>6. Shapes'
  <2>1. pc' \in [Threads -> PCs] /\ outs' \in [Threads -> Seq(MsgRec)]
    BY <1>1, <1>3, <1>4 DEF PCs
  <2>2. state' \in [LPs -> Seq(Event)]
    <3>1. Append(state[D], Content(m)) \in Seq(Event)
      BY <1>3, <1>4
    <3>2. QED
      BY <1>1, <1>3, <3>1
  <2>3. QED
    BY <1>1, <1>2, <2>1, <2>2 DEF Shapes
<1>7. Acts(th, D)
  BY <1>1, <1>2, <1>3 DEF Acts, Dest
<1>8. /\ PastMsgs(D)' = PastMsgs(D) /\ LoggedOf(D)' = LoggedOf(D)
      /\ \A j \in SentIdx(D) : ~ IsUndone(th, j) /\ ~ IsUndone(th, j)'
  BY <1>1, <1>5, <1>6, <1>7, RollbackStarts DEF Rollbacks
<1>9. PastIdx(D)' = PastIdx(D) /\ \A j : TimeOf(D, j)' = TimeOf(D, j)
  BY <1>1 DEF PastIdx, TimeOf
<1>10. Dest(th)' = D /\ m \notin PastMsgs(D)
  BY <1>1, <1>2 DEF Dest, ThreadFits, CurFits
<1>11. ThreadFits(th)'
  <2>1. CurFits(th)'
    BY <1>1, <1>2, <1>5, <1>8, <1>9, <1>10 DEF ThreadFits, CurFits
  <2>2. OutsFit(th)'
    BY <1>1, <1>2, <1>3, <1>5, HandlerTells DEF OutsFit
  <2>3. QED
    BY <1>5, <2>1, <2>2 DEF ThreadFits, RollbackFits, TouchedFits, Rollbacks
<1>12. Role(th) = "running" /\ Role(th)' = "running"
  BY <1>1, <1>5, <1>8, <1>10 DEF Role
<1>13. BoundFits(D)'
  <2>1. th \in Running(D)'
    BY <1>5, <1>6, <1>7, HomeTells
  <2>2. QED
    BY <1>1, <1>2, <1>9, <2>1 DEF LpFits, BoundFits
<1>14. pc'[th] \notin Rollbacks
  BY <1>5 DEF Rollbacks
<1>15. IInv' /\ UNCHANGED Life!vars
  BY <1>1, <1>5, <1>6, <1>7, <1>8, <1>11, <1>12, <1>13, <1>14, QuietStep
<1>16. QED
  BY <1>15

\* A checkpoint.
Ckpt == [ref : Nat, st : Seq(Event)]

\* An entry is appended to the log.
Grows(D, n, e) ==
  /\ Len(p_msgs'[D]) = n + 1
  /\ p_msgs'[D] # <<>>
  /\ \A i \in 1 .. n : p_msgs'[D][i] = p_msgs[D][i]
  /\ p_msgs'[D][n + 1] = e
  /\ e.k = "past" => PastIdx(D)' = PastIdx(D) \cup {n + 1} /\ SentIdx(D)' = SentIdx(D)
  /\ e.k = "sent" => PastIdx(D)' = PastIdx(D) /\ SentIdx(D)' = SentIdx(D) \cup {n + 1}

\* array_push at the end of p_msgs keeps the entries and adds one to one of the two index sets.
LEMMA LogGrows ==
  ASSUME Shapes, Shapes', NEW D \in LPs, NEW e \in Entry, NEW n \in Nat, n = Len(p_msgs[D]),
         p_msgs'[D] = Append(p_msgs[D], e)
  PROVE  Grows(D, n, e)
<1>1. LogTyped(D) /\ p_msgs[D] \in Seq(Entry)
  BY LogTypes
<1>2. /\ Len(p_msgs'[D]) = n + 1
      /\ \A i \in 1 .. n : p_msgs'[D][i] = p_msgs[D][i]
      /\ p_msgs'[D][n + 1] = e
  BY <1>1
<1>3. LogTyped(D)'
  BY LogTypesNext
<1>4. p_msgs'[D] # <<>>
  <2>1. Len(p_msgs'[D]) # Len(<<>>)
    BY <1>2
  <2>2. QED
    BY <2>1
<1>5. \A i \in 1 .. n + 1 : i \in 1 .. n \/ i = n + 1
  OBVIOUS
<1>6. \A i \in 1 .. n + 1 :
         i \in PastIdx(D)' <=> IF i = n + 1 THEN e.k = "past" ELSE i \in PastIdx(D)
  BY <1>1, <1>2, <1>3, <1>5
<1>7. \A i \in 1 .. n + 1 :
         i \in SentIdx(D)' <=> IF i = n + 1 THEN e.k = "sent" ELSE i \in SentIdx(D)
  BY <1>1, <1>2, <1>3, <1>5
<1>8. PastIdx(D) \subseteq 1 .. n /\ SentIdx(D) \subseteq 1 .. n
  BY <1>1
<1>9. PastIdx(D)' \subseteq 1 .. n + 1 /\ SentIdx(D)' \subseteq 1 .. n + 1
  BY <1>2, <1>3
<1>10. e.k \in {"past", "sent"} /\ n + 1 \notin 1 .. n /\ n + 1 \in 1 .. n + 1
       /\ 1 .. n \subseteq 1 .. n + 1
  BY DEF Entry
<1>11. PastIdx(D)' = PastIdx(D) \cup IF e.k = "past" THEN {n + 1} ELSE {}
  BY <1>6, <1>8, <1>9, <1>10
<1>12. SentIdx(D)' = SentIdx(D) \cup IF e.k = "past" THEN {} ELSE {n + 1}
  BY <1>7, <1>8, <1>9, <1>10
<1>13. QED
  BY <1>2, <1>4, <1>11, <1>12 DEF Grows

\* The message that was processed goes to the end of the log, and the LP may
\* take a checkpoint.
LEMMA FinishStep ==
  ASSUME IInv, NEW th \in Threads, NEW D \in LPs, NEW m \in Msgs, NEW n \in Nat,
         Dest(th) = D, cur[th] = m, n = Len(p_msgs[D]), Finish(th)
  PROVE  IInv' /\ [Life!Next]_(Life!vars)
<1>1. /\ pc[th] = "send" /\ pc' = [pc EXCEPT ![th] = "idle"]
      /\ p_msgs' = [p_msgs EXCEPT ![D] = Append(@, Past(m))]
      /\ bound' = [bound EXCEPT ![D] = msg[m].t]
      /\ \/ logs' = logs
         \/ logs' = [logs EXCEPT ![D] = Append(@,
                        [ref |-> Len(p_msgs'[D]), st |-> state[D]])]
      /\ UNCHANGED <<msg, flags, live, marked, list, heap, state, gvt, epoch, cur, past_i,
                     undo_i, outs>>
  BY DEF Finish, msgVars, Dest
<1>2. /\ m \in live /\ Shapes /\ LpFits(D) /\ ThreadFits(th) /\ LogTyped(D)
      /\ Rid[D] = th /\ m \in InHand
  BY <1>1, HandTypes, HandsTell, LogTypes DEF IInv
<1>3. /\ pc \in [Threads -> PCs] /\ p_msgs \in [LPs -> Seq(Entry)]
      /\ bound \in [LPs -> -1 .. MaxT] /\ logs \in [LPs -> Seq(Ckpt)]
      /\ state[D] \in Seq(Event)
      /\ msg[m].t \in 0 .. MaxT /\ msg[m].ty < InitTy /\ msg[m].dest = D
  BY <1>2, HandTypes DEF Shapes, IInv, QueuesFit, Dest, Ckpt
<1>4. Past(m) \in Entry /\ Past(m).k = "past" /\ Past(m).m = m
  BY DEF Past, Entry
<1>5. p_msgs'[D] = Append(p_msgs[D], Past(m)) /\ bound'[D] = msg[m].t /\ pc'[th] = "idle"
  BY <1>1, <1>3
<1>6. Len(p_msgs'[D]) = n + 1
  BY <1>3, <1>4, <1>5
<1> DEFINE ck == [ref |-> n + 1, st |-> state[D]]
<1>7. \/ logs' = logs
      \/ logs' = [logs EXCEPT ![D] = Append(@, ck)]
  BY <1>1, <1>6
<1>8. ck \in Ckpt /\ ck.ref = n + 1
  BY <1>3 DEF Ckpt
<1> HIDE DEF ck
<1>9. Shapes'
  <2>1. pc' \in [Threads -> PCs]
    BY <1>1, <1>3 DEF PCs
  <2>2. p_msgs' \in [LPs -> Seq(Entry)]
    <3>1. Append(p_msgs[D], Past(m)) \in Seq(Entry)
      BY <1>3, <1>4
    <3>2. QED
      BY <1>1, <1>3, <3>1
  <2>3. bound' \in [LPs -> -1 .. MaxT]
    <3>1. msg[m].t \in -1 .. MaxT
      BY <1>3, Numbers
    <3>2. QED
      BY <1>1, <1>3, <3>1
  <2>4. logs' \in [LPs -> Seq(Ckpt)]
    <3>1. Append(logs[D], ck) \in Seq(Ckpt)
      BY <1>3, <1>8
    <3>2. QED
      BY <1>3, <1>7, <3>1
  <2>5. QED
    BY <1>1, <1>2, <2>1, <2>2, <2>3, <2>4 DEF Shapes, Ckpt
<1>10. Acts(th, D)
  BY <1>1, <1>2, <1>3, <1>7 DEF Acts, Dest
<1>11. /\ \A i \in 1 .. n : p_msgs'[D][i] = p_msgs[D][i]
       /\ p_msgs'[D][n + 1].m = m /\ p_msgs'[D] # <<>>
       /\ PastIdx(D)' = PastIdx(D) \cup {n + 1}
       /\ SentIdx(D)' = SentIdx(D)
  <2> DEFINE e == Past(m)
  <2>1. e \in Entry /\ e.k = "past" /\ e.m = m /\ p_msgs'[D] = Append(p_msgs[D], e)
    BY <1>4, <1>5
  <2>4. Shapes
    BY <1>2
  <2> HIDE DEF e
  <2>2. Grows(D, n, e)
    BY <1>9, <2>1, <2>4, LogGrows
  <2>3. QED
    BY <2>1, <2>2 DEF Grows
<1>12. /\ \A i \in 1 .. n : TimeOf(D, i)' = TimeOf(D, i) /\ RankOf(D, i)' = RankOf(D, i)
       /\ TimeOf(D, n + 1)' = msg[m].t /\ RankOf(D, n + 1)' = msg[m].ty
  BY <1>1, <1>11 DEF TimeOf, RankOf
<1>13. /\ PastIdx(D) \subseteq 1 .. n /\ SentIdx(D) \subseteq 1 .. n
       /\ \A i \in 1 .. n : i < n + 1 /\ i # n + 1
  BY <1>2
<1>14. /\ m \notin PastMsgs(D)
       /\ \A i \in PastIdx(D) : TimeOf(D, i) <= msg[m].t /\ p_msgs[D][i].m # m
  BY <1>1, <1>2 DEF ThreadFits, CurFits, PastMsgs
<1>15. Undone(D) = {} /\ Undone(D)' = {}
  BY <1>1, <1>5, <1>9, <1>10, HomeTells DEF IsUndone
<1>16. LogInOrder(D)'
  <2>1. \A x \in PastMsgs(D)' : x \in PastMsgs(D) \/ x = m
    BY <1>11, <1>13 DEF PastMsgs
  <2>2. \A x \in PastMsgs(D)' : msg'[x].dest = D /\ x \in live'
    BY <1>1, <1>2, <1>3, <2>1 DEF LpFits, LogInOrder
  <2>3. ASSUME NEW i \in PastIdx(D)', NEW j \in PastIdx(D)', i < j
        PROVE  p_msgs'[D][i].m # p_msgs'[D][j].m /\ TimeOf(D, i)' <= TimeOf(D, j)'
    <3>1. i \in PastIdx(D)
      BY <1>11, <1>13, <2>3
    <3>2. CASE j \in PastIdx(D)
      BY <1>2, <1>11, <1>12, <1>13, <2>3, <3>1, <3>2 DEF LpFits, LogInOrder
    <3>3. CASE j = n + 1
      BY <1>11, <1>12, <1>13, <1>14, <3>1, <3>3
    <3>4. QED
      BY <1>11, <3>2, <3>3
  <2>4. Len(p_msgs'[D]) \in PastIdx(D)'
    BY <1>6, <1>11
  <2>5. QED
    BY <2>2, <2>3, <2>4 DEF LogInOrder
<1>17. BoundFits(D)'
  <2>1. \A i \in PastIdx(D)' : TimeOf(D, i)' <= bound'[D]
    BY <1>3, <1>5, <1>11, <1>12, <1>13, <1>14, Numbers
  <2>2. QED
    BY <1>11, <2>1 DEF BoundFits
<1>18. /\ Len(logs[D]) >= 1 /\ Len(logs[D]) \in Nat /\ logs[D][1].ref \in Nat
       /\ DOMAIN logs[D] = 1 .. Len(logs[D]) /\ logs'[D] # <<>>
       /\ logs'[D][1] = logs[D][1]
       /\ DOMAIN logs'[D] \in {1 .. Len(logs[D]), 1 .. Len(logs[D]) + 1}
       /\ \A j \in DOMAIN logs'[D] :
            \/ j \in DOMAIN logs[D] /\ logs'[D][j] = logs[D][j]
            \/ j = Len(logs[D]) + 1 /\ logs'[D][j].ref = n + 1
  <2>1. Len(logs[D]) >= 1 /\ Len(logs[D]) \in Nat /\ DOMAIN logs[D] = 1 .. Len(logs[D])
        /\ logs[D][1].ref \in Nat /\ logs[D] # <<>>
    BY FirstRef DEF IInv, LpFits, CheckpointsFit
  <2>2. CASE logs' = logs
    BY <2>1, <2>2
  <2>3. CASE logs' = [logs EXCEPT ![D] = Append(@, ck)]
    <3>1. logs'[D] = Append(logs[D], ck)
      BY <1>3, <2>3
    <3>2. Len(logs'[D]) = Len(logs[D]) + 1 /\ DOMAIN logs'[D] = 1 .. Len(logs[D]) + 1
      BY <1>3, <1>8, <3>1
    <3>3. \A j \in 1 .. Len(logs[D]) : logs'[D][j] = logs[D][j]
      BY <1>3, <1>8, <3>1
    <3>4. logs'[D][Len(logs[D]) + 1] = ck
      BY <1>3, <1>8, <3>1
    <3>5. \A j \in 1 .. Len(logs[D]) + 1 : j \in 1 .. Len(logs[D]) \/ j = Len(logs[D]) + 1
      BY <2>1
    <3>6. logs'[D] # <<>> /\ 1 \in 1 .. Len(logs[D])
      BY <2>1, <3>2
    <3>7. QED
      BY <1>8, <2>1, <3>2, <3>3, <3>4, <3>5, <3>6
  <2>4. QED
    BY <1>7, <2>2, <2>3
<1>19. CheckpointsFit(D)'
  <2>1. \A j \in DOMAIN logs[D] : logs[D][j].ref \in {0} \cup PastIdx(D)
    BY <1>2 DEF LpFits, CheckpointsFit
  <2>2. \A j \in DOMAIN logs'[D] : logs'[D][j].ref \in {0} \cup PastIdx(D)'
    BY <1>11, <1>18, <2>1
  <2>3. ASSUME NEW j \in DOMAIN logs'[D], NEW k \in DOMAIN logs'[D], j <= k
        PROVE  logs'[D][j].ref <= logs'[D][k].ref
    <3>1. CASE k \in DOMAIN logs[D] /\ logs'[D][k] = logs[D][k]
      <4>1. j \in DOMAIN logs[D] /\ logs'[D][j] = logs[D][j]
        BY <1>18, <2>3, <3>1
      <4>2. QED
        BY <1>2, <2>3, <3>1, <4>1 DEF LpFits, CheckpointsFit
    <3>2. CASE k = Len(logs[D]) + 1 /\ logs'[D][k].ref = n + 1
      <4>1. logs'[D][j].ref \in {0} \cup PastIdx(D) \/ logs'[D][j].ref = n + 1
        BY <1>18, <2>1
      <4>2. logs'[D][j].ref \in 0 .. n + 1
        BY <1>13, <4>1
      <4>3. QED
        BY <3>2, <4>2
    <3>3. QED
      BY <1>18, <3>1, <3>2
  <2>4. QED
    BY <1>18, <2>2, <2>3 DEF CheckpointsFit
<1>20. FirstStays(D)'
  <2> DEFINE r == logs[D][1].ref
  <2>1. FirstStays(D) /\ r \in {0} \cup PastIdx(D)
    BY <1>2, FirstRef DEF LpFits
  <2>2. r # 0 => r \in PastIdx(D)' /\ TimeOf(D, r)' = 0 /\ RankOf(D, r)' = InitTy
    BY <1>11, <1>12, <1>13, <1>18, <2>1 DEF FirstStays
  <2>3. ASSUME NEW i \in PastIdx(D)'
        PROVE  r <= i /\ (RankOf(D, i)' = InitTy => i = r)
    <3>1. CASE i \in PastIdx(D)
      BY <1>12, <1>13, <2>1, <3>1 DEF FirstStays
    <3>2. CASE i = n + 1
      <4>1. r \in 0 .. n
        BY <1>13, <2>1
      <4>2. RankOf(D, i)' # InitTy
        BY <1>3, <1>12, <3>2, HandTypes, <1>2, Numbers
      <4>3. QED
        BY <3>2, <4>1, <4>2
    <3>3. QED
      BY <1>11, <2>3, <3>1, <3>2
  <2>4. \A i \in SentIdx(D)' : RankOf(D, i)' < InitTy /\ (TimeOf(D, i)' = 0 => i < r)
    BY <1>11, <1>12, <1>13, <2>1 DEF FirstStays
  <2>5. RollingBack(D)' = {}
    BY <1>5, <1>9, <1>10, HomeTells DEF RollingBack
  <2>6. QED
    BY <1>18, <2>2, <2>3, <2>4, <2>5 DEF FirstStays
<1>21. ASSUME NEW i \in SentIdx(D)', MayUndo(D, i)'
       PROVE  i \in SentIdx(D) /\ MayUndo(D, i) /\ p_msgs'[D][i].m = p_msgs[D][i].m
              /\ TimeOf(D, i)' = TimeOf(D, i)
  <2>1. i \in SentIdx(D) /\ i \in 1 .. n
    BY <1>11, <1>13
  <2>2. \A j \in PastIdx(D) : TimeOf(D, j)' = TimeOf(D, j) /\ j \in PastIdx(D)'
    BY <1>11, <1>12, <1>13
  <2>3. MayUndo(D, i)
    BY <1>1, <1>15, <1>21, <2>1, <2>2 DEF MayUndo
  <2>4. QED
    BY <1>11, <1>12, <2>1, <2>3
<1>22. SentIsMarked(D)'
  <2>1. ASSUME NEW i \in SentIdx(D)', MayUndo(D, i)'
        PROVE  /\ p_msgs'[D][i].m \in marked'
               /\ \E j \in PastIdx(D)' : j > i /\ TimeOf(D, j)' <= TimeOf(D, i)'
    <3>1. /\ i \in SentIdx(D) /\ MayUndo(D, i) /\ p_msgs'[D][i].m = p_msgs[D][i].m
          /\ TimeOf(D, i)' = TimeOf(D, i) /\ i \in 1 .. n
      BY <1>13, <1>21, <2>1
    <3>2. p_msgs[D][i].m \in marked
      BY <1>2, <3>1 DEF LpFits, SentIsMarked
    <3>3. CASE \E j \in PastIdx(D) : j > i /\ TimeOf(D, j) <= TimeOf(D, i)
      <4>1. PICK j \in PastIdx(D) : j > i /\ TimeOf(D, j) <= TimeOf(D, i)
        BY <3>3
      <4>2. j \in PastIdx(D)' /\ TimeOf(D, j)' <= TimeOf(D, i)'
        BY <1>11, <1>12, <1>13, <3>1, <4>1
      <4>3. QED
        BY <3>1, <3>2, <1>1, <4>1, <4>2
    <3>4. CASE \E x \in Running(D) : pc[x] = "send" /\ msg[cur[x]].t <= TimeOf(D, i)
      <4>1. msg[m].t <= TimeOf(D, i)
        BY <1>9, <1>10, <3>4, HomeTells
      <4>2. n + 1 \in PastIdx(D)' /\ n + 1 > i
        BY <1>11, <3>1
      <4>3. TimeOf(D, n + 1)' <= TimeOf(D, i)'
        BY <1>12, <3>1, <4>1
      <4>4. QED
        BY <3>1, <3>2, <1>1, <4>2, <4>3
    <3>5. QED
      BY <1>1, <1>2, <3>1, <3>2, <3>3, <3>4 DEF LpFits, SentIsMarked
  <2>2. QED
    BY <2>1 DEF SentIsMarked
<1>23. LpFits(D)'
  BY <1>16, <1>17, <1>19, <1>20, <1>22 DEF LpFits
<1>24. MarksStay(D)
  BY <1>1 DEF MarksStay, IInv, LpFits, SentIsMarked
<1>25. SentOnce'
  <2>1. \A i \in SentIdx(D)' : i + 0 = i
    BY <1>11, <1>13
  <2>2. \A i \in SentIdx(D)' : MayUndo(D, i)' =>
            /\ i + 0 \in SentIdx(D) /\ MayUndo(D, i + 0)
            /\ p_msgs'[D][i].m = p_msgs[D][i + 0].m
    BY <1>21, <2>1
  <2>3. QED
    BY <1>9, <1>10, <1>24, <2>2, SentOnceStays
<1>26. ThreadFits(th)'
  BY <1>5 DEF ThreadFits, CurFits, RollbackFits, TouchedFits, OutsFit, Rollbacks
<1>places. PlacesAre(th, D)
  BY <1>9, <1>10, <1>26, PlacesTell
<1>27. Life!Log(m)
  <2>1. Role(th) = "running" /\ Role(th)' = "none"
    BY <1>1, <1>5, <1>14 DEF Role
  <2>2. StandingIdx(D) = PastIdx(D) /\ StandingIdx(D)' = PastIdx(D)'
    BY <1>15 DEF StandingIdx
  <2>3. LoggedOf(D)' = LoggedOf(D) \cup {m}
    <3>1. \A i \in PastIdx(D) : p_msgs'[D][i] = p_msgs[D][i]
      BY <1>11, <1>13
    <3>2. QED
      BY <1>11, <2>2, <3>1 DEF LoggedOf
  <2>4. m \notin OthersIn(th, "running") \cup OthersIn(th, "killing")
    BY <1>2, <1>3, OthersApart
  <2>5. Queued' = Queued
    BY <1>1 DEF Queued
  <2>8. /\ LifeTaken' = LifeTaken /\ LifeKilling' = LifeKilling
        /\ LifeRunning = OthersIn(th, "running") \cup {m}
        /\ LifeRunning' = OthersIn(th, "running")
    BY <1>1, <1>5, <1>9, <1>10, <1>26, <2>1, <1>places DEF PlacesAre
  <2>9. LifeBack' = LifeBack
    BY <1>1, <1>5, <1>9, <1>10, <1>26, <1>places DEF PlacesAre
  <2>10. LifeLogged' = LifeLogged \cup {m}
    BY <1>9, <1>10, <1>26, <2>3, <1>places DEF PlacesAre
  <2>6. /\ LifeTaken' = LifeTaken /\ LifeKilling' = LifeKilling /\ LifeBack' = LifeBack
        /\ m \in LifeRunning /\ LifeRunning' = LifeRunning \ {m}
        /\ LifeLogged' = LifeLogged \cup {m}
    BY <2>4, <2>8, <2>9, <2>10
  <2>7. QED
    BY <1>1, <2>5, <2>6 DEF Life!Log
<1>28. [Life!Next]_(Life!vars)
  BY <1>27 DEF Life!Next
<1>29. IInv'
  <2>1. ZeroIsKept'
    BY <1>1 DEF IInv, ZeroIsKept
  <2>2. \A x \in Threads : \A y \in list'[x] \cup heap'[x] : QueuedWell(x, y)
    BY <1>1 DEF QueuedWell
  <2>3. QED
    BY <1>2, <1>5, <1>9, <1>10, <1>23, <1>24, <1>25, <1>26, <1>28, <2>1, <2>2, Conclude
<1>30. QED
  BY <1>28, <1>29
-----------------------------------------------------------------------------
(***************************************************************************)
(* The loop of send_anti_messages.                                         *)
(***************************************************************************)
\* Where a rollback is.
LEMMA RollbackTells ==
  ASSUME IInv, NEW th \in Threads, NEW D \in LPs, NEW m \in Msgs,
         Dest(th) = D, cur[th] = m, pc[th] \in Rollbacks
  PROVE  /\ past_i[th] \in {0} \cup PastIdx(D)
         /\ past_i[th] \in Nat /\ past_i[th] < Len(p_msgs[D])
         /\ undo_i[th] \in Nat
         /\ pc[th] # "restore" => undo_i[th] \in past_i[th] + 1 .. Len(p_msgs[D])
         /\ \A i \in PastIdx(D) :
              /\ i <= past_i[th] => TimeOf(D, i) <= msg[m].t /\ p_msgs[D][i].m # m
              /\ ~ (i <= past_i[th]) => TimeOf(D, i) >= msg[m].t
         /\ logs[D][1].ref <= past_i[th]
         /\ Running(D) = {}
<1>1. RollbackFits(th) /\ past_i[th] \in Nat /\ undo_i[th] \in Nat /\ FirstStays(D)
  BY HandTypes DEF IInv, ThreadFits, LpFits
<1>2. th \in RollingBack(D)
  BY DEF RollingBack, Rollbacks
<1>3. Running(D) = {}
  BY HandsTell DEF Running, Rollbacks
<1>4. QED
  BY <1>1, <1>2, <1>3 DEF RollbackFits, FirstStays

\* The entry that the loop looks at is undone, and the loop goes on.
LEMMA UndoAdvances ==
  ASSUME IInv, NEW th \in Threads, NEW D \in LPs, NEW m \in Msgs,
         Dest(th) = D, cur[th] = m, pc[th] \in {"undo", "reinsert"},
         UNCHANGED <<msg, p_msgs, cur, past_i>>,
         \/ pc[th] = "undo" /\ pc'[th] = "reinsert" /\ undo_i'[th] = undo_i[th]
         \/ pc'[th] = NextUndo(th, undo_i[th]) /\ undo_i'[th] = undo_i[th] + 1
  PROVE  /\ pc'[th] \in Rollbacks
         /\ RollbackFits(th)'
         /\ \A j \in 1 .. Len(p_msgs[D]) :
              IsUndone(th, j)' <=> IsUndone(th, j) \/ (pc[th] = "undo" /\ j = undo_i[th])
<1> DEFINE n == Len(p_msgs[D])
           u == undo_i[th]
           p == past_i[th]
<1>1. /\ p \in {0} \cup PastIdx(D) /\ p \in Nat /\ p < n
      /\ u \in Nat /\ u \in p + 1 .. n
      /\ \A i \in PastIdx(D) :
              /\ i <= p => TimeOf(D, i) <= msg[m].t /\ p_msgs[D][i].m # m
              /\ ~ (i <= p) => TimeOf(D, i) >= msg[m].t
  BY RollbackTells DEF Rollbacks
<1>2. /\ n \in Nat
      /\ PastIdx(D)' = PastIdx(D) /\ (\A j : TimeOf(D, j)' = TimeOf(D, j)) /\ Dest(th)' = D
  BY LogTypes DEF IInv, PastIdx, TimeOf, Dest
<1>3. \/ pc[th] = "undo" /\ pc'[th] = "reinsert" /\ undo_i'[th] = u
      \/ u < n /\ pc'[th] = "undo" /\ undo_i'[th] = u + 1
      \/ u = n /\ pc'[th] = "restore" /\ undo_i'[th] = u + 1
  <2>1. NextUndo(th, u) = IF u < n THEN "undo" ELSE "restore"
    BY DEF NextUndo, Dest
  <2>2. u < n \/ u = n
    BY <1>1, <1>2
  <2>3. QED
    BY <2>1, <2>2
<1>4. pc'[th] \in Rollbacks
  BY <1>3 DEF Rollbacks
<1>5. RollbackFits(th)'
  <2>1. pc'[th] # "restore" => undo_i'[th] \in p + 1 .. n
    BY <1>1, <1>2, <1>3
  <2>2. QED
    BY <1>1, <1>2, <2>1 DEF RollbackFits
<1>6. ASSUME NEW j \in 1 .. n
      PROVE  IsUndone(th, j)' <=> IsUndone(th, j) \/ (pc[th] = "undo" /\ j = u)
  BY <1>1, <1>2, <1>3 DEF IsUndone
<1>7. QED
  BY <1>4, <1>5, <1>6

\* msg_queue_insert puts the message back in the queue of its destination.
LEMMA ReinsertStep ==
  ASSUME IInv, NEW th \in Threads, NEW D \in LPs, NEW m \in Msgs, NEW x,
         Dest(th) = D, cur[th] = m, x = Touched(th), Reinsert(th)
  PROVE  IInv' /\ [Life!Next]_(Life!vars)
<1> DEFINE dst == Rid[msg[x].dest]
<1>1. /\ pc[th] = "reinsert"
      /\ list' = [list EXCEPT ![dst] = @ \cup {x}]
      /\ pc' = [pc EXCEPT ![th] = NextUndo(th, undo_i[th])]
      /\ undo_i' = [undo_i EXCEPT ![th] = @ + 1]
      /\ UNCHANGED <<msg, flags, live, marked, heap, p_msgs, bound, state, logs, ckpt_rem, epoch,
                     gvt, cur, past_i, outs>>
  BY DEF Reinsert, msgVars, lpVars, Touched, Dest
<1>2. /\ m \in live /\ Shapes /\ LpFits(D) /\ ThreadFits(th) /\ LogTyped(D)
      /\ Rid[D] = th /\ m \in InHand
  BY <1>1, HandTypes, HandsTell, LogTypes DEF IInv
<1>3. /\ pc \in [Threads -> PCs] /\ undo_i \in [Threads -> Nat]
      /\ list \in [Threads -> SUBSET Msgs] /\ msg \in [Msgs -> MsgRec]
  BY <1>2 DEF Shapes
<1>4. /\ past_i[th] \in Nat /\ undo_i[th] \in Nat
      /\ undo_i[th] \in past_i[th] + 1 .. Len(p_msgs[D])
      /\ logs[D][1].ref <= past_i[th] /\ Running(D) = {}
  BY <1>1, RollbackTells DEF Rollbacks
<1>5. x \in Msgs /\ dst \in Threads
  <2>1. undo_i[th] \in 1 .. Len(p_msgs[D])
    BY <1>2, <1>4
  <2>2. x \in Msgs
    BY <1>2, <2>1 DEF Touched
  <2>3. msg[x].dest \in LPs
    BY <1>3, <2>2 DEF MsgRec
  <2>4. QED
    BY <2>2, <2>3, Numbers
<1>6. /\ NextUndo(th, undo_i[th]) \in {"undo", "restore"}
      /\ pc'[th] = NextUndo(th, undo_i[th]) /\ undo_i'[th] = undo_i[th] + 1
  BY <1>1, <1>3 DEF NextUndo
<1>7. Shapes'
  <2>1. pc' \in [Threads -> PCs] /\ undo_i' \in [Threads -> Nat]
    BY <1>1, <1>3, <1>4, <1>6 DEF PCs
  <2>2. list' \in [Threads -> SUBSET Msgs]
    BY <1>1, <1>3, <1>5
  <2>3. QED
    BY <1>1, <1>2, <2>1, <2>2 DEF Shapes
<1>8. Acts(th, D)
  BY <1>1, <1>2, <1>3 DEF Acts, Dest
<1>9. /\ pc'[th] \in Rollbacks /\ RollbackFits(th)'
      /\ \A j \in 1 .. Len(p_msgs[D]) : IsUndone(th, j)' <=> IsUndone(th, j)
  BY <1>1, <1>6, UndoAdvances
<1>10. /\ PastIdx(D)' = PastIdx(D) /\ PastMsgs(D)' = PastMsgs(D)
       /\ (\A j : TimeOf(D, j)' = TimeOf(D, j)) /\ Dest(th)' = D
  BY <1>1 DEF PastIdx, PastMsgs, TimeOf, Dest
<1>11. ThreadFits(th)'
  BY <1>1, <1>2, <1>6, <1>9, <1>10 DEF ThreadFits, CurFits, TouchedFits, OutsFit
<1>12. MarksStay(D)
  BY <1>1 DEF MarksStay, IInv, LpFits, SentIsMarked
<1>13. LpFits(D)' /\ SentOnce'
  <2>1. BoundFits(D)'
    BY <1>1, <1>2, <1>4, <1>10 DEF LpFits, BoundFits
  <2>2. \A j \in SentIdx(D) : MayUndo(D, j) => p_msgs[D][j].m \in marked'
    BY <1>1, <1>2 DEF LpFits, SentIsMarked
  <2>3. PastMsgs(D) \subseteq live'
    BY <1>1, <1>2 DEF LpFits, LogInOrder
  <2>4. \A j \in SentIdx(D) : IsUndone(th, j) => IsUndone(th, j)'
    BY <1>2, <1>9
  <2>5. QED
    BY <1>1, <1>4, <1>7, <1>8, <1>12, <2>1, <2>2, <2>3, <2>4, LogStays
<1>14. LoggedOf(D)' = LoggedOf(D)
  <2>1. \A i \in PastIdx(D) : i \in Undone(D)' <=> i \in Undone(D)
    BY <1>1, <1>2, <1>7, <1>8, <1>9, HomeTells
  <2>2. StandingIdx(D)' = StandingIdx(D)
    BY <1>10, <2>1 DEF StandingIdx
  <2>3. QED
    BY <1>1, <2>2 DEF LoggedOf
<1>places. PlacesAre(th, D)
  BY <1>7, <1>8, <1>11, PlacesTell
<1>15. Life!PutBack(x)
  <2>1. Role(th)' = Role(th)
    BY <1>1, <1>6, <1>10 DEF Role
  <2>2. /\ LifeTaken' = LifeTaken /\ LifeKilling' = LifeKilling /\ LifeRunning' = LifeRunning
        /\ LifeLogged' = LifeLogged
    BY <1>1, <1>7, <1>8, <1>11, <1>14, <2>1, <1>places DEF PlacesAre
  <2>3. LifeBack = OthersBack(th) \cup {x} /\ LifeBack' = OthersBack(th)
    BY <1>1, <1>6, <1>7, <1>8, <1>11, <1>places DEF PlacesAre
  <2>4. x \notin OthersBack(th)
    BY <1>1, <1>2, OthersApart
  <2>5. Queued' = Queued \cup {x}
    <3>1. list'[dst] = list[dst] \cup {x} /\ \A y \in Threads \ {dst} : list'[y] = list[y]
      BY <1>1, <1>3, <1>5
    <3>2. QED
      BY <1>1, <1>5, <3>1 DEF Queued
  <2>6. QED
    BY <1>1, <2>2, <2>3, <2>4, <2>5 DEF Life!PutBack
<1>16. [Life!Next]_(Life!vars)
  BY <1>5, <1>15 DEF Life!Next
<1>17. IInv'
  <2>1. ZeroIsKept'
    BY <1>1 DEF IInv, ZeroIsKept
  <2>2. QueuedWell(dst, x)
    <3>1. msg[x].t >= msg[m].t /\ msg[x].ty < InitTy
      BY <1>1, <1>2 DEF ThreadFits, TouchedFits
    <3>2. \A y \in Threads : gvt[y] <= msg[m].t /\ gvt[y] \in 0 .. MaxT + 1
      BY <1>1, <1>2, HandsTell, HandTypes
    <3>3. msg[x].t \in 0 .. MaxT /\ msg[m].t \in 0 .. MaxT /\ MaxT \in Nat
      BY <1>3, <1>5, Numbers DEF MsgRec, Times
    <3>4. \A y \in Threads : gvt[y] <= msg[x].t
      BY <3>1, <3>2, <3>3
    <3>5. QED
      BY <1>1, <3>1, <3>4 DEF QueuedWell
  <2>3. ASSUME NEW y \in Threads, NEW z \in list'[y] \cup heap'[y]
        PROVE  QueuedWell(y, z)
    <3>1. z \in list[y] \cup heap[y] \/ (y = dst /\ z = x)
      BY <1>1, <1>3
    <3>2. QED
      BY <2>2, <3>1 DEF QueuedWell
  <2>4. pc'[th] # "reinsert" /\ cur'[th] \in Queued \cup InHand
    BY <1>1, <1>2, <1>6
  <2>5. QED
    BY <1>2, <1>7, <1>8, <1>11, <1>12, <1>13, <1>16, <2>1, <2>3, <2>4, Conclude
<1>18. QED
  BY <1>16, <1>17

\* What one atomic add of the loop does to a log, and where the message goes.
Undoes(th, D, m, u, x) ==
  /\ Dest(th) = D /\ cur[th] = m /\ u = undo_i[th] /\ x = p_msgs[D][u].m /\ pc[th] = "undo"
  /\ UNCHANGED <<msg, live, list, heap, p_msgs, bound, state, logs, gvt, cur, past_i, outs>>
  /\ \/ /\ pc' = [pc EXCEPT ![th] = "reinsert"]
        /\ UNCHANGED undo_i
        /\ msg[x].t >= msg[m].t /\ msg[x].ty < InitTy /\ x \notin LifeBack
     \/ /\ pc' = [pc EXCEPT ![th] = NextUndo(th, u)]
        /\ undo_i' = [undo_i EXCEPT ![th] = @ + 1]
  /\ ZeroIsKept' /\ MarksStay(D)
  /\ \A i \in SentIdx(D) : MayUndo(D, i) /\ i # u => p_msgs[D][i].m \in marked'

\* One atomic add of send_anti_messages, to a sent message or to a processed one, keeps the
\* invariant when the lifecycle allows what it does to the message.
LEMMA UndoStep ==
  ASSUME IInv, NEW th \in Threads, NEW D \in LPs, NEW m \in Msgs, NEW u \in Nat, NEW x,
         Undoes(th, D, m, u, x)
  PROVE  /\ UNCHANGED <<Queued, LifeTaken, LifeRunning, LifeKilling>>
         /\ LifeBack' = IF pc'[th] = "reinsert" THEN LifeBack \cup {x} ELSE LifeBack
         /\ LifeLogged' = IF u \in PastIdx(D) THEN LifeLogged \ {x} ELSE LifeLogged
         /\ [Life!Next]_(Life!vars) => IInv'
<1> USE DEF Undoes
<1>2. /\ m \in live /\ Shapes /\ LpFits(D) /\ ThreadFits(th) /\ LogTyped(D)
      /\ Rid[D] = th /\ m \in InHand
  BY HandTypes, HandsTell, LogTypes DEF IInv
<1>3. pc \in [Threads -> PCs] /\ undo_i \in [Threads -> Nat]
  BY <1>2 DEF Shapes
<1>4. /\ past_i[th] \in Nat /\ u \in past_i[th] + 1 .. Len(p_msgs[D])
      /\ logs[D][1].ref <= past_i[th] /\ Running(D) = {}
  BY RollbackTells DEF Rollbacks
<1>5. u \in 1 .. Len(p_msgs[D])
  BY <1>2, <1>4
<1>6. /\ pc'[th] \in {"undo", "restore", "reinsert"}
      /\ \/ pc'[th] = "reinsert" /\ undo_i'[th] = undo_i[th]
         \/ pc'[th] = NextUndo(th, u) /\ undo_i'[th] = undo_i[th] + 1
  BY <1>3 DEF NextUndo
<1>7. Shapes'
  <2>1. pc' \in [Threads -> PCs]
    BY <1>3 DEF PCs, NextUndo
  <2>2. undo_i' \in [Threads -> Nat]
    BY <1>3
  <2>3. QED
    BY <1>2, <2>1, <2>2 DEF Shapes
<1>8. Acts(th, D)
  BY <1>2, <1>3 DEF Acts, Dest
<1>9. /\ pc'[th] \in Rollbacks /\ RollbackFits(th)'
      /\ \A j \in 1 .. Len(p_msgs[D]) : IsUndone(th, j)' <=> IsUndone(th, j) \/ j = u
  BY <1>6, UndoAdvances
<1>10. /\ PastIdx(D)' = PastIdx(D) /\ PastMsgs(D)' = PastMsgs(D)
       /\ (\A j : TimeOf(D, j)' = TimeOf(D, j)) /\ Dest(th)' = D
  BY DEF PastIdx, PastMsgs, TimeOf, Dest
<1>11. pc'[th] = "reinsert" =>
         Touched(th)' = x /\ msg[x].t >= msg[m].t /\ msg[x].ty < InitTy /\ x \notin LifeBack
  BY <1>3, <1>6, <1>10 DEF Touched, NextUndo
<1>12. ThreadFits(th)'
  <2>1. CurFits(th)' /\ OutsFit(th)'
    BY <1>2, <1>6, <1>10 DEF ThreadFits, CurFits, OutsFit
  <2>2. TouchedFits(th)'
    BY <1>11 DEF TouchedFits
  <2>3. QED
    BY <1>9, <2>1, <2>2 DEF ThreadFits
<1>13. LpFits(D)' /\ SentOnce'
  <2>1. BoundFits(D)'
    BY <1>2, <1>4, <1>10 DEF LpFits, BoundFits
  <2>2. ASSUME NEW i \in SentIdx(D), MayUndo(D, i), ~ IsUndone(th, i)'
        PROVE  p_msgs[D][i].m \in marked'
    BY <1>2, <1>9, <2>2
  <2>3. PastMsgs(D) \subseteq live'
    BY <1>2 DEF LpFits, LogInOrder
  <2>4. \A j \in SentIdx(D) : IsUndone(th, j) => IsUndone(th, j)'
    BY <1>2, <1>9
  <2>5. QED
    BY <1>4, <1>7, <1>8, <2>1, <2>2, <2>3, <2>4, LogStays
<1>14. Role(th)' = Role(th)
  BY <1>6, <1>10 DEF Role
<1>15. UNCHANGED <<Queued, LifeTaken, LifeRunning, LifeKilling>>
  <2>1. Queued' = Queued
    BY DEF Queued
  <2>2. LifeTaken' = LifeTaken /\ LifeRunning' = LifeRunning /\ LifeKilling' = LifeKilling
    BY <1>7, <1>8, <1>12, <1>14, HandsStay
  <2>3. QED
    BY <2>1, <2>2
<1>places. PlacesAre(th, D)
  BY <1>7, <1>8, <1>12, PlacesTell
<1>16. /\ LifeBack = OthersBack(th)
       /\ LifeBack' = OthersBack(th) \cup IF pc'[th] = "reinsert" THEN {Touched(th)'} ELSE {}
  BY <1>7, <1>8, <1>12, <1>places DEF PlacesAre
<1>17. LifeBack' = IF pc'[th] = "reinsert" THEN LifeBack \cup {x} ELSE LifeBack
  BY <1>11, <1>16
<1>18. StandingIdx(D)' = StandingIdx(D) \ {u} /\ (u \in PastIdx(D) => u \in StandingIdx(D))
  <2>1. \A i \in PastIdx(D) : i \in Undone(D)' <=> i \in Undone(D) \/ i = u
    BY <1>2, <1>7, <1>8, <1>9, HomeTells
  <2>2. u \notin Undone(D)
    BY <1>7, <1>8, HomeTells DEF IsUndone
  <2>3. QED
    BY <1>10, <2>1, <2>2 DEF StandingIdx
<1>19. LifeLogged = OthersLogged(D) \cup LoggedOf(D)
       /\ LifeLogged' = OthersLogged(D) \cup LoggedOf(D)'
  BY <1>7, <1>8, <1>12, <1>places DEF PlacesAre
<1>20. LifeLogged' = IF u \in PastIdx(D) THEN LifeLogged \ {x} ELSE LifeLogged
  <2>1. CASE u \in PastIdx(D)
    <3>1. StandingIdx(D) \subseteq PastIdx(D)
      BY DEF StandingIdx
    <3>2. ASSUME NEW j \in StandingIdx(D), j # u PROVE p_msgs[D][j].m # x
      <4>1. j \in PastIdx(D)
        BY <3>1
      <4>2. p_msgs[D][j].m # p_msgs[D][u].m
        <5> HIDE DEF Undoes
        <5>1. QED
          BY <2>1, <3>2, <4>1, PastTells
      <4>3. QED
        BY <4>2
    <3>3. LoggedOf(D)' = LoggedOf(D) \ {x}
      BY <1>18, <3>2 DEF LoggedOf
    <3>4. x \notin OthersLogged(D)
      BY <1>2, <2>1, PastTells, OthersApart
    <3>5. QED
      BY <1>19, <2>1, <3>3, <3>4
  <2>2. CASE u \notin PastIdx(D)
    <3>1. StandingIdx(D)' = StandingIdx(D)
      BY <1>18, <2>2 DEF StandingIdx
    <3>2. LoggedOf(D)' = LoggedOf(D)
      BY <3>1 DEF LoggedOf
    <3>3. QED
      BY <1>19, <2>2, <3>2
  <2>3. QED
    BY <2>1, <2>2
<1>21. ASSUME [Life!Next]_(Life!vars) PROVE IInv'
  <2>1. \A y \in Threads : \A z \in list'[y] \cup heap'[y] : QueuedWell(y, z)
    BY DEF QueuedWell
  <2>2. pc'[th] = "reinsert" => Touched(th)' \notin OthersBack(th)
    BY <1>11, <1>16
  <2>3. cur'[th] \in Queued \cup InHand
    BY <1>2
  <2>4. QED
    BY <1>2, <1>7, <1>8, <1>12, <1>13, <1>21, <2>1, <2>2, <2>3, Conclude
<1>22. QED
  BY <1>15, <1>17, <1>20, <1>21

\* An LP may still undo what the loop comes to, and nothing of it was sent at
\* time 0 or before the message that causes the rollback.
LEMMA UndoneIsMarked ==
  ASSUME IInv, NEW th \in Threads, NEW D \in LPs, NEW m \in Msgs, NEW u \in Nat, NEW x,
         Dest(th) = D, cur[th] = m, u = undo_i[th], x = p_msgs[D][u].m, pc[th] = "undo",
         u \in SentIdx(D)
  PROVE  /\ x \in Msgs /\ x \in marked /\ MayUndo(D, u)
         /\ msg[x].t >= msg[m].t /\ msg[x].t > 0 /\ msg[x].ty < InitTy
<1>1. /\ Shapes /\ LpFits(D) /\ LogTyped(D) /\ msg[m].t \in 0 .. MaxT
  BY HandTypes, LogTypes DEF IInv
<1>2. /\ past_i[th] \in Nat /\ u \in past_i[th] + 1 .. Len(p_msgs[D])
      /\ logs[D][1].ref <= past_i[th] /\ Running(D) = {} /\ logs[D][1].ref \in Nat
      /\ \A i \in PastIdx(D) : ~ (i <= past_i[th]) => TimeOf(D, i) >= msg[m].t
  BY RollbackTells, FirstRef DEF Rollbacks
<1>3. u \in 1 .. Len(p_msgs[D]) /\ x \in Msgs
  BY <1>1, <1>2
<1>4. u \notin Undone(D)
  <2>1. \A y \in RollingBack(D) : y = th
    BY HandsTell DEF RollingBack
  <2>2. QED
    BY <2>1 DEF Undone
<1>5. \A j \in PastIdx(D) : j > u => TimeOf(D, j) >= msg[m].t
  BY <1>1, <1>2
<1>6. MayUndo(D, u)
  <2>1. \A y \in Threads : gvt[y] <= msg[m].t /\ gvt[y] \in 0 .. MaxT + 1
    BY HandsTell, HandTypes, <1>1
  <2>2. ASSUME NEW j \in PastIdx(D), j > u, NEW y \in Threads
        PROVE  gvt[y] <= TimeOf(D, j)
    <3>1. TimeOf(D, j) >= msg[m].t /\ TimeOf(D, j) \in 0 .. MaxT
      BY <1>1, <1>5, <2>2
    <3>2. QED
      BY <1>1, <2>1, <3>1, Numbers
  <2>3. QED
    BY <1>4, <2>2 DEF MayUndo
<1>7. x \in marked /\ \E j \in PastIdx(D) : j > u /\ TimeOf(D, j) <= TimeOf(D, u)
  BY <1>1, <1>2, <1>6 DEF LpFits, SentIsMarked
<1>8. TimeOf(D, u) >= msg[m].t
  <2>1. PICK j \in PastIdx(D) : j > u /\ TimeOf(D, j) <= TimeOf(D, u)
    BY <1>7
  <2>2. TimeOf(D, j) \in 0 .. MaxT /\ TimeOf(D, u) \in 0 .. MaxT
    BY <1>1, <1>3, <2>1
  <2>3. QED
    BY <1>1, <1>5, <2>1, <2>2, Numbers
<1>9. RankOf(D, u) < InitTy /\ TimeOf(D, u) # 0
  <2>1. ~ (u < logs[D][1].ref)
    BY <1>2
  <2>2. QED
    BY <1>1, <2>1 DEF LpFits, FirstStays
<1>10. TimeOf(D, u) > 0
  <2>1. TimeOf(D, u) \in 0 .. MaxT
    BY <1>1, <1>3
  <2>2. QED
    BY <1>9, <2>1, Numbers
<1>11. QED
  BY <1>3, <1>6, <1>7, <1>8, <1>9, <1>10 DEF TimeOf, RankOf

\* A sent entry: the message is an anti-message now.
LEMMA UndoSentStep ==
  ASSUME IInv, NEW th \in Threads, NEW D \in LPs, NEW m \in Msgs, NEW u \in Nat, NEW x,
         Dest(th) = D, cur[th] = m, u = undo_i[th], x = p_msgs[D][u].m, UndoSent(th)
  PROVE  IInv' /\ [Life!Next]_(Life!vars)
<1>1. /\ pc[th] = "undo" /\ p_msgs[D][u].k = "sent"
      /\ flags' = [flags EXCEPT ![x] = @ + ANTI]
      /\ marked' = marked \ {x}
      /\ \/ /\ SenderQueues(flags[x])
            /\ pc' = [pc EXCEPT ![th] = "reinsert"] /\ UNCHANGED undo_i
         \/ /\ ~ SenderQueues(flags[x])
            /\ pc' = [pc EXCEPT ![th] = NextUndo(th, u)]
            /\ undo_i' = [undo_i EXCEPT ![th] = @ + 1]
      /\ UNCHANGED <<msg, live, list, heap, p_msgs, bound, state, logs, ckpt_rem, epoch, gvt,
                     cur, past_i, outs>>
  BY DEF UndoSent, lpVars, Dest
<1>2. /\ Shapes /\ LpFits(D) /\ LogTyped(D) /\ pc \in [Threads -> PCs]
  BY LogTypes DEF IInv, Shapes
<1>3. u \in SentIdx(D) /\ u \notin PastIdx(D)
  <2>1. u \in 1 .. Len(p_msgs[D])
    BY <1>1, <1>2, RollbackTells, HandTypes DEF Rollbacks
  <2>2. QED
    BY <1>1, <1>2, <2>1
<1>4. /\ x \in Msgs /\ x \in marked /\ MayUndo(D, u)
      /\ msg[x].t >= msg[m].t /\ msg[x].t > 0 /\ msg[x].ty < InitTy
  BY <1>1, <1>3, UndoneIsMarked
<1>5. /\ flags[x] \in {0, 2} /\ x \in live /\ (flags[x] = 2 => x \notin LifeBack)
      /\ flags \in [Msgs -> 0 .. 5]
  BY <1>4, LifeTells DEF IInv, Life!IInv, Life!TypeOK
<1>6. /\ SenderQueues(flags[x]) <=> flags[x] = 2
      /\ Life!IsProcessed(flags[x]) <=> flags[x] = 2
  BY <1>5, BitsTell DEF SenderQueues
<1>7. ZeroIsKept'
  BY <1>1, <1>4, <1>5 DEF IInv, ZeroIsKept
<1>8. ASSUME NEW lp \in LPs, NEW i \in SentIdx(lp), MayUndo(lp, i), ~ (lp = D /\ i = u)
      PROVE  p_msgs[lp][i].m \in marked'
  <2>1. p_msgs[lp][i].m \in marked
    BY <1>8 DEF IInv, LpFits, SentIsMarked
  <2>2. p_msgs[lp][i].m # x
    BY <1>3, <1>4, <1>8 DEF IInv, SentOnce
  <2>3. QED
    BY <1>1, <2>1, <2>2
<1>9. MarksStay(D)
  BY <1>8 DEF MarksStay
<1>10. \A i \in SentIdx(D) : MayUndo(D, i) /\ i # u => p_msgs[D][i].m \in marked'
  BY <1>8
<1>11. pc'[th] = "reinsert" <=> flags[x] = 2
  BY <1>1, <1>2, <1>6 DEF NextUndo
<1>12. /\ UNCHANGED <<Queued, LifeTaken, LifeRunning, LifeKilling>>
       /\ LifeBack' = IF pc'[th] = "reinsert" THEN LifeBack \cup {x} ELSE LifeBack
       /\ LifeLogged' = IF u \in PastIdx(D) THEN LifeLogged \ {x} ELSE LifeLogged
       /\ [Life!Next]_(Life!vars) => IInv'
  <2>1. Undoes(th, D, m, u, x)
    BY <1>1, <1>4, <1>5, <1>6, <1>7, <1>9, <1>10 DEF Undoes
  <2>2. QED
    BY <2>1, UndoStep
<1>13. Life!UndoSent(x)
  BY <1>1, <1>3, <1>4, <1>6, <1>11, <1>12 DEF Life!UndoSent, Life!ANTI, ANTI
<1>14. [Life!Next]_(Life!vars)
  BY <1>4, <1>13 DEF Life!Next
<1>15. QED
  BY <1>12, <1>14

\* A past entry: the message is not processed any more.
LEMMA UndoPastStep ==
  ASSUME IInv, NEW th \in Threads, NEW D \in LPs, NEW m \in Msgs, NEW u \in Nat, NEW x,
         Dest(th) = D, cur[th] = m, u = undo_i[th], x = p_msgs[D][u].m, UndoPast(th)
  PROVE  IInv' /\ [Life!Next]_(Life!vars)
<1>1. /\ pc[th] = "undo" /\ p_msgs[D][u].k = "past"
      /\ flags' = [flags EXCEPT ![x] = @ - PROCESSED]
      /\ \/ /\ ReceiverQueues(flags[x])
            /\ pc' = [pc EXCEPT ![th] = "reinsert"] /\ UNCHANGED undo_i
         \/ /\ ~ ReceiverQueues(flags[x])
            /\ pc' = [pc EXCEPT ![th] = NextUndo(th, u)]
            /\ undo_i' = [undo_i EXCEPT ![th] = @ + 1]
      /\ UNCHANGED <<msg, live, marked, list, heap, p_msgs, bound, state, logs, ckpt_rem, epoch,
                     gvt, cur, past_i, outs>>
  BY DEF UndoPast, lpVars, Dest
<1>2. /\ Shapes /\ LpFits(D) /\ LogTyped(D) /\ pc \in [Threads -> PCs]
  BY LogTypes DEF IInv, Shapes
<1>3. /\ past_i[th] \in Nat /\ u \in past_i[th] + 1 .. Len(p_msgs[D])
      /\ logs[D][1].ref <= past_i[th] /\ logs[D][1].ref \in Nat
      /\ \A i \in PastIdx(D) : ~ (i <= past_i[th]) => TimeOf(D, i) >= msg[m].t
  BY <1>1, RollbackTells, FirstRef DEF Rollbacks
<1>4. u \in PastIdx(D) /\ u \in 1 .. Len(p_msgs[D]) /\ x \in Msgs
  BY <1>1, <1>2, <1>3
<1>5. x \in LifeLogged
  <2>1. u \notin Undone(D)
    <3>1. \A y \in RollingBack(D) : y = th
      BY <1>1, HandsTell DEF RollingBack
    <3>2. QED
      BY <1>1, <3>1 DEF Undone
  <2>2. QED
    BY <1>4, <2>1 DEF LifeLogged, StandingIdx
<1>6. /\ flags[x] \in {2, 3, 5} /\ x \in live /\ (flags[x] = 2 => x \notin LifeBack)
      /\ flags \in [Msgs -> 0 .. 5]
  BY <1>4, <1>5, LifeTells DEF IInv, Life!IInv, Life!TypeOK
<1>7. /\ ReceiverQueues(flags[x]) <=> flags[x] = 2
      /\ Life!IsAnti(flags[x]) <=> flags[x] # 2
      /\ IsAnti(flags[x] - 2) <=> IsAnti(flags[x])
  <2>1. flags[x] - 2 \in 0 .. 5
    BY <1>6
  <2>2. QED
    BY <1>6, <2>1, BitsTell DEF ReceiverQueues
<1>8. msg[x].t >= msg[m].t /\ msg[x].ty < InitTy
  <2>1. TimeOf(D, u) >= msg[m].t
    BY <1>3, <1>4
  <2>2. RankOf(D, u) # InitTy
    BY <1>2, <1>3, <1>4 DEF LpFits, FirstStays
  <2>3. RankOf(D, u) \in 0 .. InitTy
    BY <1>2, <1>4
  <2>4. RankOf(D, u) < InitTy
    BY <2>2, <2>3, Numbers
  <2>5. QED
    BY <2>1, <2>4 DEF TimeOf, RankOf
<1>9. ZeroIsKept'
  <2>1. \A y \in Msgs : IsAnti(flags'[y]) <=> IsAnti(flags[y])
    BY <1>1, <1>4, <1>6, <1>7 DEF PROCESSED
  <2>2. live \subseteq Msgs
    BY DEF IInv, Life!IInv, Life!TypeOK
  <2>3. QED
    BY <1>1, <2>1, <2>2 DEF IInv, ZeroIsKept
<1>10. MarksStay(D)
  BY <1>1 DEF MarksStay, IInv, LpFits, SentIsMarked
<1>11. \A i \in SentIdx(D) : MayUndo(D, i) /\ i # u => p_msgs[D][i].m \in marked'
  BY <1>1, <1>2 DEF LpFits, SentIsMarked
<1>12. pc'[th] = "reinsert" <=> flags[x] = 2
  BY <1>1, <1>2, <1>7 DEF NextUndo
<1>13. /\ UNCHANGED <<Queued, LifeTaken, LifeRunning, LifeKilling>>
       /\ LifeBack' = IF pc'[th] = "reinsert" THEN LifeBack \cup {x} ELSE LifeBack
       /\ LifeLogged' = IF u \in PastIdx(D) THEN LifeLogged \ {x} ELSE LifeLogged
       /\ [Life!Next]_(Life!vars) => IInv'
  <2>1. Undoes(th, D, m, u, x)
    BY <1>1, <1>6, <1>7, <1>8, <1>9, <1>10, <1>11 DEF Undoes
  <2>2. QED
    BY <2>1, UndoStep
<1>14. Life!UndoPast(x)
  BY <1>1, <1>4, <1>5, <1>7, <1>12, <1>13 DEF Life!UndoPast, Life!PROCESSED, PROCESSED
<1>15. [Life!Next]_(Life!vars)
  BY <1>4, <1>14 DEF Life!Next
<1>16. QED
  BY <1>13, <1>15
-----------------------------------------------------------------------------
(***************************************************************************)
(* The claim of the extracted message.                                     *)
(***************************************************************************)
\* match_anti_msg finds the message in the log, and goes back before it.
LEMMA AntiMatch ==
  ASSUME IInv, NEW th \in Threads, pc[th] = "extracted", cur[th] \in PastMsgs(Dest(th))
  PROVE  GoesBackTo(Dest(th), cur[th], MatchAnti(Dest(th), cur[th]))
<1> DEFINE D == Dest(th)
           m == cur[th]
           A == {k \in PastIdx(D) : p_msgs[D][k].m = m}
           at == Greatest(A)
           B == {k \in PastIdx(D) : k < at}
           i == Greatest(B)
           r == logs[D][1].ref
           n == Len(p_msgs[D])
<1>1. D \in LPs /\ m \in live /\ Shapes /\ LpFits(D) /\ LogTyped(D)
  BY HandTypes, HandsTell, LogTypes DEF IInv
<1>2. /\ msg[m].t \in 0 .. MaxT /\ msg[m].ty < InitTy /\ MaxT \in Nat /\ InitTy \in Nat
  BY HandTypes, HandsTell, Numbers DEF IInv, QueuesFit
<1>3. n \in Nat /\ PastIdx(D) \subseteq 1 .. n
  BY <1>1
<1>4. A # {} /\ A \in SUBSET Nat /\ \A y \in A : y <= n
  BY <1>3 DEF PastMsgs
<1>5. at \in A
  <2> HIDE DEF A
  <2> QED
    BY <1>3, <1>4, GreatestTells
<1>6. at \in PastIdx(D) /\ at \in 1 .. n /\ p_msgs[D][at].m = m /\ TimeOf(D, at) = msg[m].t
      /\ RankOf(D, at) = msg[m].ty
  BY <1>3, <1>5 DEF TimeOf, RankOf
<1> HIDE DEF at
<1>7. B \in SUBSET Nat /\ \A y \in B : y <= at
  BY <1>3, <1>6
<1>8. /\ i \in Nat /\ (B # {} => i \in B) /\ \A y \in B : y <= i
  <2> HIDE DEF B
  <2> QED
    BY <1>6, <1>7, GreatestTells
<1>9. B = {} => i = 0
  BY DEF Greatest
<1> HIDE DEF i
<1>10. /\ i \in {0} \cup PastIdx(D) /\ i < at
  BY <1>6, <1>8, <1>9
<1>11. i = MatchAnti(D, m)
  BY DEF MatchAnti, at, i
<1>12. i < n
  BY <1>3, <1>6, <1>8, <1>10
<1>13. ASSUME NEW j \in PastIdx(D)
       PROVE  IF j <= i THEN TimeOf(D, j) <= msg[m].t /\ p_msgs[D][j].m # m
                        ELSE TimeOf(D, j) >= msg[m].t
  <2>1. j \in 1 .. n
    BY <1>3
  <2>2. CASE j <= i
    <3>1. j < at
      BY <1>6, <1>8, <1>10, <2>1, <2>2
    <3>2. QED
      BY <1>1, <1>6, <2>2, <3>1, PastTells
  <2>3. CASE ~ (j <= i)
    <3>1. ~ (j < at)
      BY <1>8, <2>3
    <3>2. at <= j
      BY <1>6, <2>1, <3>1
    <3>3. TimeOf(D, at) <= TimeOf(D, j)
      BY <1>1, <1>6, <3>2, PastTells
    <3>4. TimeOf(D, j) \in 0 .. MaxT
      BY <1>1, <2>1
    <3>5. QED
      BY <1>2, <1>6, <2>3, <3>3, <3>4
  <2>4. QED
    BY <2>2, <2>3
<1>14. r <= i
  <2>1. r \in {0} \cup PastIdx(D) /\ r \in Nat /\ FirstStays(D)
    BY <1>1, FirstRef DEF LpFits
  <2>2. CASE r = 0
    BY <1>8, <2>2
  <2>3. CASE r # 0
    <3>1. r \in PastIdx(D) /\ RankOf(D, r) = InitTy /\ r <= at
      BY <1>6, <2>1, <2>3 DEF FirstStays
    <3>2. r # at
      BY <1>2, <1>6, <3>1
    <3>3. r \in B
      BY <1>6, <2>1, <3>1, <3>2
    <3>4. QED
      BY <1>8, <3>3
  <2>4. QED
    BY <2>2, <2>3
<1>15. GoesBackTo(D, m, i)
  BY <1>8, <1>10, <1>12, <1>13, <1>14 DEF GoesBackTo
<1>16. QED
  BY <1>11, <1>15

\* The message that a thread has extracted.
LEMMA TakenTells ==
  ASSUME IInv, NEW th \in Threads, NEW D \in LPs, NEW m \in Msgs,
         Dest(th) = D, cur[th] = m, pc[th] = "extracted"
  PROVE  /\ flags[m] \in {0, 1, 3} /\ flags \in [Msgs -> 0 .. 5]
         /\ flags[m] = 3 <=> m \in PastMsgs(D)
         /\ flags[m] = 1 => m \notin marked
         /\ m \notin OthersIn(th, "taken") /\ m \in LifeTaken
<1>1. m \in LifeTaken
  BY DEF LifeTaken
<1>2. /\ flags[m] \in {0, 1, 3} /\ flags \in [Msgs -> 0 .. 5] /\ m \in live
      /\ flags[m] = 3 <=> m \in LifeLogged
      /\ flags[m] = 1 => m \notin marked
  BY <1>1, LifeTells DEF IInv, Life!IInv, Life!TypeOK
<1>3. msg[m].dest = D /\ Rid[D] = th
  BY HandsTell DEF Dest
<1>4. \A x \in RollingBack(D) : FALSE
  BY HandsTell DEF RollingBack
<1>5. StandingIdx(D) = PastIdx(D)
  BY <1>4 DEF StandingIdx, Undone
<1>6. LoggedOf(D) = PastMsgs(D)
  BY <1>5 DEF LoggedOf, PastMsgs
<1>7. m \notin OthersLogged(D) /\ m \notin OthersIn(th, "taken")
  BY <1>3, OthersApart
<1>8. m \in LifeLogged <=> m \in PastMsgs(D)
  BY <1>6, <1>7, LoggedTells
<1>9. QED
  BY <1>1, <1>2, <1>7, <1>8

\* The log and the queues stay; the message changes hands.
LEMMA ClaimStays ==
  ASSUME IInv, NEW th \in Threads, NEW D \in LPs, NEW m \in Msgs,
         Dest(th) = D, cur[th] = m, pc[th] = "extracted",
         pc' \in [Threads -> PCs], past_i' \in [Threads -> Nat], undo_i' \in [Threads -> Nat],
         bound' \in [LPs -> -1 .. MaxT], \A lp \in LPs \ {D} : bound'[lp] = bound[lp],
         bound'[D] = bound[D] \/ (bound'[D] = -1 /\ p_msgs[D] = <<>>),
         \A x \in Threads \ {th} :
           pc'[x] = pc[x] /\ past_i'[x] = past_i[x] /\ undo_i'[x] = undo_i[x],
         pc'[th] \in {"idle", "undo", "check"},
         pc'[th] = "undo" =>
           /\ GoesBackTo(D, m, past_i'[th]) /\ undo_i'[th] = past_i'[th] + 1
           /\ m \in PastMsgs(D),
         pc'[th] = "check" => m \notin PastMsgs(D),
         live' = live \/ (live' = live \ {m} /\ m \notin PastMsgs(D)),
         ZeroIsKept',
         UNCHANGED <<msg, marked, list, heap, p_msgs, state, logs, gvt, cur, outs>>
  PROVE  /\ UNCHANGED <<Queued, LifeBack, LifeLogged>>
         /\ LifeTaken' = LifeTaken \ {m}
         /\ LifeRunning' = IF pc'[th] = "check" THEN LifeRunning \cup {m} ELSE LifeRunning
         /\ LifeKilling' = IF pc'[th] = "undo" THEN LifeKilling \cup {m} ELSE LifeKilling
         /\ [Life!Next]_(Life!vars) => IInv'
<1>1. /\ m \in live /\ Shapes /\ LpFits(D) /\ ThreadFits(th) /\ LogTyped(D)
      /\ Rid[D] = th /\ m \in InHand /\ msg[m].dest = D
  BY HandTypes, HandsTell, LogTypes DEF IInv, Dest
<1>2. Shapes'
  BY <1>1 DEF Shapes
<1>3. Acts(th, D)
  BY <1>1 DEF Acts, Dest
<1>4. pc[th] \notin Rollbacks /\ (pc'[th] \in Rollbacks => pc'[th] = "undo")
  BY DEF Rollbacks
<1>5. /\ PastMsgs(D)' = PastMsgs(D) /\ LoggedOf(D)' = LoggedOf(D)
      /\ \A i \in SentIdx(D) : ~ IsUndone(th, i) /\ ~ IsUndone(th, i)'
  BY <1>2, <1>3, <1>4, RollbackStarts
<1>6. /\ PastIdx(D)' = PastIdx(D) /\ (\A j : TimeOf(D, j)' = TimeOf(D, j)) /\ Dest(th)' = D
  BY DEF PastIdx, TimeOf, Dest
<1>7. ThreadFits(th)'
  <2>1. CurFits(th)'
    BY <1>1, <1>5, <1>6 DEF ThreadFits, CurFits
  <2>2. RollbackFits(th)'
    <3>1. SUFFICES ASSUME pc'[th] = "undo" PROVE RollbackFits(th)'
      BY <1>4 DEF RollbackFits
    <3> DEFINE p == past_i'[th]
    <3>2. GoesBackTo(D, m, p) /\ undo_i'[th] = p + 1
      BY <3>1
    <3> HIDE DEF p
    <3>3. p \in Nat /\ p < Len(p_msgs[D]) /\ Len(p_msgs[D]) \in Nat /\ p \in {0} \cup PastIdx(D)
      BY <1>1, <3>2 DEF GoesBackTo
    <3>4. p + 1 \in p + 1 .. Len(p_msgs[D])
      BY <3>3
    <3>5. past_i'[th] = p /\ undo_i'[th] \in p + 1 .. Len(p_msgs[D])
      BY <3>2, <3>4 DEF p
    <3>6. \A j \in PastIdx(D) :
             IF j <= p THEN TimeOf(D, j) <= msg[m].t /\ p_msgs[D][j].m # m
                       ELSE TimeOf(D, j) >= msg[m].t
      BY <3>2 DEF GoesBackTo
    <3>7. QED
      BY <1>6, <3>3, <3>5, <3>6 DEF RollbackFits
  <2>3. QED
    BY <2>1, <2>2 DEF ThreadFits, OutsFit, TouchedFits
<1>8. MarksStay(D)
  BY DEF MarksStay, IInv, LpFits, SentIsMarked
<1>9. LpFits(D)' /\ SentOnce'
  <2>1. BoundFits(D)'
    <3>1. Running(D) = {}
      BY <1>2, <1>3, HomeTells DEF Running
    <3>2. p_msgs[D] = <<>> => PastIdx(D) = {}
      BY DEF PastIdx
    <3>3. QED
      BY <1>1, <1>6, <3>1, <3>2 DEF LpFits, BoundFits
  <2>2. \A j \in SentIdx(D) : MayUndo(D, j) => p_msgs[D][j].m \in marked'
    BY <1>1 DEF LpFits, SentIsMarked
  <2>3. PastMsgs(D) \subseteq live'
    BY <1>1 DEF LpFits, LogInOrder
  <2>4. pc'[th] \in Rollbacks => logs[D][1].ref <= past_i'[th]
    BY <1>4 DEF GoesBackTo
  <2>5. QED
    BY <1>2, <1>3, <1>5, <1>8, <2>1, <2>2, <2>3, <2>4, LogStays
<1>10. /\ Role(th) = "taken"
       /\ Role(th)' = CASE pc'[th] = "idle" -> "none"
                        [] pc'[th] = "undo" -> "killing"
                        [] pc'[th] = "check" -> "running"
  BY <1>5, <1>6 DEF Role
<1>11. m \notin OthersIn(th, "taken")
  BY TakenTells
<1>places. PlacesAre(th, D)
  BY <1>2, <1>3, <1>7, PlacesTell
<1>12. /\ LifeTaken = OthersIn(th, "taken") \cup {m}
       /\ LifeTaken' = OthersIn(th, "taken")
  BY <1>2, <1>3, <1>7, <1>10, <1>places DEF PlacesAre
<1>13. /\ LifeRunning' = IF pc'[th] = "check" THEN LifeRunning \cup {m} ELSE LifeRunning
       /\ LifeKilling' = IF pc'[th] = "undo" THEN LifeKilling \cup {m} ELSE LifeKilling
  <2>1. LifeRunning = OthersIn(th, "running") /\ LifeKilling = OthersIn(th, "killing")
    BY <1>2, <1>3, <1>7, <1>10, <1>places DEF PlacesAre
  <2>2. LifeRunning' = OthersIn(th, "running")
                            \cup IF Role(th)' = "running" THEN {cur'[th]} ELSE {}
    BY <1>2, <1>3, <1>7, <1>places DEF PlacesAre
  <2>3. LifeKilling' = OthersIn(th, "killing")
                            \cup IF Role(th)' = "killing" THEN {cur'[th]} ELSE {}
    BY <1>2, <1>3, <1>7, <1>places DEF PlacesAre
  <2>4. QED
    BY <1>10, <2>1, <2>2, <2>3
<1>14. LifeBack' = LifeBack /\ LifeLogged' = LifeLogged /\ Queued' = Queued
  <2>1. Queued' = Queued
    BY DEF Queued
  <2>2. LifeBack' = LifeBack
    BY <1>2, <1>3, <1>7, <1>places DEF PlacesAre
  <2>3. LifeLogged' = LifeLogged
    BY <1>2, <1>3, <1>5, <1>7, <1>places DEF PlacesAre
  <2>4. QED
    BY <2>1, <2>2, <2>3
<1>15. ASSUME [Life!Next]_(Life!vars) PROVE IInv'
  <2>1. \A y \in Threads : \A z \in list'[y] \cup heap'[y] : QueuedWell(y, z)
    BY DEF QueuedWell
  <2>2. pc'[th] # "reinsert" /\ cur'[th] \in Queued \cup InHand
    BY <1>1
  <2>3. QED
    BY <1>2, <1>3, <1>7, <1>8, <1>9, <1>15, <2>1, <2>2, Conclude
<1>16. QED
  BY <1>11, <1>12, <1>13, <1>14, <1>15

\* The thread drops, kills or processes the message.
LEMMA ClaimStep ==
  ASSUME IInv, NEW th \in Threads, NEW D \in LPs, NEW m \in Msgs,
         Dest(th) = D, cur[th] = m, Claim(th)
  PROVE  IInv' /\ [Life!Next]_(Life!vars)
<1>1. /\ pc[th] = "extracted"
      /\ flags' = [flags EXCEPT ![m] = flags[m] + PROCESSED]
      /\ UNCHANGED <<msg, marked, list, heap, p_msgs, state, logs, ckpt_rem, gvt, epoch, cur, outs>>
  BY DEF Claim
<1>2. /\ Shapes /\ pc \in [Threads -> PCs] /\ past_i \in [Threads -> Nat]
      /\ undo_i \in [Threads -> Nat] /\ bound \in [LPs -> -1 .. MaxT] /\ MaxT \in Nat
  BY Numbers DEF IInv, Shapes
<1>3. /\ flags[m] \in {0, 1, 3} /\ flags \in [Msgs -> 0 .. 5]
      /\ flags[m] = 3 <=> m \in PastMsgs(D)
      /\ flags[m] = 1 => m \notin marked
      /\ m \in LifeTaken
  BY <1>1, TakenTells
<1>4. ASSUME NEW y \in live, y # m, msg'[y].t = 0
      PROVE  ~ IsAnti(flags'[y])
  <2>1. y \in Msgs
    BY DEF IInv, Life!IInv, Life!TypeOK
  <2>2. flags'[y] = flags[y]
    BY <1>1, <1>3, <1>4, <2>1
  <2>3. QED
    BY <1>1, <1>4, <2>2 DEF IInv, ZeroIsKept
<1>5. CASE /\ flags[m] = ANTI
           /\ live' = live \ {m}
           /\ bound' = [bound EXCEPT ![D] = IF p_msgs[D] = <<>> THEN -1 ELSE @]
           /\ pc' = [pc EXCEPT ![th] = "idle"]
           /\ UNCHANGED <<past_i, undo_i>>
  <2>1. m \notin PastMsgs(D)
    BY <1>3, <1>5 DEF ANTI
  <2>2. ZeroIsKept'
    BY <1>4, <1>5 DEF ZeroIsKept
  <2>3. -1 \in -1 .. MaxT
    BY <1>2
  <2>4. /\ pc' \in [Threads -> PCs] /\ bound' \in [LPs -> -1 .. MaxT] /\ pc'[th] = "idle"
        /\ bound'[D] = bound[D] \/ (bound'[D] = -1 /\ p_msgs[D] = <<>>)
        /\ \A x \in Threads \ {th} : pc'[x] = pc[x]
        /\ \A lp \in LPs \ {D} : bound'[lp] = bound[lp]
    BY <1>2, <1>5, <2>3 DEF PCs
  <2>5. /\ UNCHANGED <<Queued, LifeBack, LifeLogged, LifeRunning, LifeKilling>>
        /\ LifeTaken' = LifeTaken \ {m}
        /\ [Life!Next]_(Life!vars) => IInv'
    BY <1>1, <1>2, <1>5, <2>1, <2>2, <2>4, ClaimStays
  <2>6. Life!Drop(m)
    BY <1>1, <1>3, <1>5, <2>5 DEF Life!Drop, Life!ANTI, Life!PROCESSED, ANTI, PROCESSED
  <2>7. [Life!Next]_(Life!vars)
    BY <2>6 DEF Life!Next
  <2>8. QED
    BY <2>5, <2>7
<1>6. CASE /\ flags[m] = ANTI + PROCESSED
           /\ past_i' = [past_i EXCEPT ![th] = MatchAnti(D, m)]
           /\ undo_i' = [undo_i EXCEPT ![th] = past_i'[th] + 1]
           /\ pc' = [pc EXCEPT ![th] = "undo"]
           /\ UNCHANGED <<live, bound>>
  <2>1. m \in PastMsgs(D) /\ flags[m] = 3
    BY <1>3, <1>6 DEF ANTI, PROCESSED
  <2>2. ZeroIsKept'
    <3>1. m \in live
      BY <1>1, HandsTell
    <3>2. IsAnti(flags[m])
      BY <2>1, BitsTell
    <3>3. msg[m].t # 0
      BY <3>1, <3>2 DEF IInv, ZeroIsKept
    <3>4. QED
      BY <1>1, <1>4, <1>6, <3>3 DEF ZeroIsKept
  <2> DEFINE i == MatchAnti(D, m)
  <2>3. GoesBackTo(D, m, i)
    BY <1>1, <2>1, AntiMatch
  <2> HIDE DEF i
  <2>4. i \in Nat /\ i + 1 \in Nat
    BY <2>3 DEF GoesBackTo
  <2>5. /\ past_i' = [past_i EXCEPT ![th] = i] /\ undo_i' = [undo_i EXCEPT ![th] = i + 1]
        /\ past_i'[th] = i /\ undo_i'[th] = i + 1
    BY <1>2, <1>6 DEF i
  <2>6. /\ pc' \in [Threads -> PCs] /\ pc'[th] = "undo"
        /\ past_i' \in [Threads -> Nat] /\ undo_i' \in [Threads -> Nat]
        /\ \A x \in Threads \ {th} :
             pc'[x] = pc[x] /\ past_i'[x] = past_i[x] /\ undo_i'[x] = undo_i[x]
    BY <1>2, <1>6, <2>4, <2>5 DEF PCs
  <2>7. GoesBackTo(D, m, past_i'[th]) /\ undo_i'[th] = past_i'[th] + 1
    BY <2>3, <2>5
  <2>8. /\ UNCHANGED <<Queued, LifeBack, LifeLogged, LifeRunning>>
        /\ LifeTaken' = LifeTaken \ {m} /\ LifeKilling' = LifeKilling \cup {m}
        /\ [Life!Next]_(Life!vars) => IInv'
    BY <1>1, <1>2, <1>6, <2>1, <2>2, <2>6, <2>7, ClaimStays
  <2>9. Life!Kill(m)
    BY <1>1, <1>3, <1>6, <2>8 DEF Life!Kill, Life!ANTI, Life!PROCESSED, ANTI, PROCESSED
  <2>10. [Life!Next]_(Life!vars)
    BY <2>9 DEF Life!Next
  <2>11. QED
    BY <2>8, <2>10
<1>7. CASE /\ ~ IsAnti(flags[m])
           /\ pc' = [pc EXCEPT ![th] = "check"]
           /\ UNCHANGED <<live, bound, past_i, undo_i>>
  <2>1. flags[m] = 0 /\ m \notin PastMsgs(D) /\ ~ Life!IsAnti(flags[m])
    BY <1>3, <1>7, BitsTell
  <2>2. ZeroIsKept'
    <3>1. ~ IsAnti(flags'[m])
      BY <1>1, <1>3, <2>1, BitsTell DEF PROCESSED
    <3>2. QED
      BY <1>4, <1>7, <3>1 DEF ZeroIsKept
  <2>3. /\ pc' \in [Threads -> PCs] /\ pc'[th] = "check"
        /\ \A x \in Threads \ {th} : pc'[x] = pc[x]
    BY <1>2, <1>7 DEF PCs
  <2>4. /\ UNCHANGED <<Queued, LifeBack, LifeLogged, LifeKilling>>
        /\ LifeTaken' = LifeTaken \ {m} /\ LifeRunning' = LifeRunning \cup {m}
        /\ [Life!Next]_(Life!vars) => IInv'
    BY <1>1, <1>2, <1>7, <2>1, <2>2, <2>3, ClaimStays
  <2>5. Life!Run(m)
    BY <1>1, <1>3, <1>7, <2>1, <2>4 DEF Life!Run, Life!PROCESSED, PROCESSED
  <2>6. [Life!Next]_(Life!vars)
    BY <2>5 DEF Life!Next
  <2>7. QED
    BY <2>4, <2>6
<1>8. QED
  BY <1>5, <1>6, <1>7 DEF Claim, Dest
-----------------------------------------------------------------------------
(***************************************************************************)
(* The events of a log.                                                    *)
(***************************************************************************)
\* The events of a log are collected from its start.
IsEvents(s, E) ==
  E = [i \in 0 .. Len(s) |->
         IF i = 0 THEN <<>>
         ELSE IF s[i].k = "past" THEN Append(E[i - 1], Content(s[i].m)) ELSE E[i - 1]]

\* They are defined for every log,
LEMMA EventsAreThere ==
  ASSUME NEW s, Len(s) \in Nat
  PROVE  \E E : IsEvents(s, E) /\ Events(s) = E[Len(s)]
<1> DEFINE n == Len(s)
           F(f, i) == IF i = 0 THEN <<>>
                      ELSE IF s[i].k = "past" THEN Append(f[i - 1], Content(s[i].m)) ELSE f[i - 1]
           Is(k, f) == f = [i \in 0 .. k |-> F(f, i)]
           Bad == {k \in 0 .. n : ~ \E f : Is(k, f)}
<1>1. ASSUME Bad # {} PROVE FALSE
  <2>1. Bad \in SUBSET Nat
    OBVIOUS
  <2>2. PICK k \in Bad : \A y \in Bad : k <= y
    <3> HIDE DEF Bad
    <3> QED
      BY <1>1, <2>1, LeastIsThere
  <2>3. CASE k = 0
    <3> DEFINE f == [i \in 0 .. 0 |-> <<>>]
    <3>1. f = [i \in 0 .. 0 |-> F(f, i)]
      OBVIOUS
    <3>2. Is(0, f)
      BY <3>1
    <3>3. QED
      BY <2>2, <2>3, <3>2
  <2>4. CASE k # 0
    <3>1. k \in 0 .. n /\ k \in Nat /\ k - 1 \in 0 .. n /\ k - 1 \in Nat
      <4>1. k \in 0 .. n
        BY <2>2
      <4> HIDE DEF Bad
      <4>2. QED
        BY <2>4, <4>1
    <3>7. k - 1 \notin Bad
      <4>1. ~ (k <= k - 1)
        BY <3>1
      <4> HIDE DEF Bad
      <4>2. QED
        BY <2>2, <4>1
    <3>2. PICK f : Is(k - 1, f)
      BY <3>1, <3>7
    <3> DEFINE g == [i \in 0 .. k |-> IF i = k THEN F(f, k) ELSE f[i]]
    <3>3. \A i \in 0 .. k - 1 : f[i] = F(f, i) /\ g[i] = f[i]
      <4> HIDE DEF F
      <4>1. f = [i \in 0 .. k - 1 |-> F(f, i)]
        BY <3>2
      <4>2. ASSUME NEW i \in 0 .. k - 1
            PROVE  f[i] = F(f, i)
        BY <4>1
      <4>3. ASSUME NEW i \in 0 .. k - 1
            PROVE  g[i] = f[i]
        <5>1. i \in 0 .. k /\ i # k
          BY <3>1
        <5>2. QED
          BY <5>1
      <4>4. QED
        BY <4>2, <4>3
    <3>4. \A i \in 0 .. k : g[i] = F(g, i)
      <4>1. g[k] = F(f, k)
        BY <3>1
      <4>2. \A i \in 0 .. k : i = k \/ i \in 0 .. k - 1
        BY <3>1
      <4>3. \A i \in 0 .. k : i = 0 \/ i - 1 \in 0 .. k - 1
        BY <3>1
      <4> HIDE DEF g
      <4>4. \A i \in 0 .. k : F(g, i) = F(f, i)
        BY <3>3, <4>3
      <4> HIDE DEF F
      <4>5. QED
        BY <3>3, <4>1, <4>2, <4>4
    <3>5. g = [i \in 0 .. k |-> F(g, i)]
      <4>1. g = [i \in 0 .. k |-> g[i]]
        OBVIOUS
      <4> HIDE DEF g
      <4>2. QED
        BY <3>4, <4>1
    <3>6. QED
      BY <2>2, <3>5
  <2>5. QED
    BY <2>3, <2>4
<1>2. \E f : Is(n, f)
  BY <1>1
<1>3. \E f : IsEvents(s, f)
  BY <1>2 DEF IsEvents
<1>4. Events(s) = (CHOOSE E : IsEvents(s, E))[Len(s)]
  BY DEF Events, IsEvents
<1>5. QED
  BY <1>3, <1>4

\* and are events.
LEMMA EventsAreTyped ==
  ASSUME Shapes, NEW s \in Seq(Entry)
  PROVE  Events(s) \in Seq(Event)
<1>1. Len(s) \in Nat /\ \A i \in 1 .. Len(s) : s[i] \in Entry
  BY ElementOfSeq
<1>2. PICK E : IsEvents(s, E) /\ Events(s) = E[Len(s)]
  BY <1>1, EventsAreThere
<1> DEFINE n == Len(s)
           Bad == {k \in 0 .. n : E[k] \notin Seq(Event)}
<1>3. E[0] = <<>>
  BY <1>1, <1>2 DEF IsEvents
<1>4. ASSUME NEW k \in 1 .. n, E[k - 1] \in Seq(Event)
      PROVE  E[k] \in Seq(Event)
  <2>1. E[k] = IF s[k].k = "past" THEN Append(E[k - 1], Content(s[k].m)) ELSE E[k - 1]
    <3>1. k \in 0 .. Len(s) /\ k # 0
      BY <1>1
    <3>2. QED
      BY <1>2, <3>1 DEF IsEvents
  <2>2. s[k].m \in Msgs
    BY <1>1 DEF Entry
  <2>3. Content(s[k].m) \in Event
    BY <2>2 DEF Shapes, MsgRec, Content, Event
  <2>4. Append(E[k - 1], Content(s[k].m)) \in Seq(Event)
    BY <1>4, <2>3
  <2>5. QED
    BY <1>4, <2>1, <2>4
<1>5. ASSUME Bad # {} PROVE FALSE
  <2>1. Bad \in SUBSET Nat
    OBVIOUS
  <2>2. PICK k \in Bad : \A y \in Bad : k <= y
    <3> HIDE DEF Bad
    <3> QED
      BY <1>5, <2>1, LeastIsThere
  <2>3. k \in 0 .. n /\ k # 0
    <3>1. k \in 0 .. n /\ E[k] \notin Seq(Event)
      BY <2>2
    <3>2. E[0] \in Seq(Event)
      BY <1>3
    <3>3. QED
      BY <3>1, <3>2
  <2>4. k \in 1 .. n /\ k - 1 \in 0 .. n /\ ~ (k <= k - 1)
    BY <1>1, <2>3
  <2>5. k - 1 \notin Bad
    <3> HIDE DEF Bad
    <3> QED
      BY <2>2, <2>4
  <2>6. E[k - 1] \in Seq(Event)
    BY <2>4, <2>5
  <2>7. QED
    BY <1>4, <2>2, <2>4, <2>6
<1>6. n \in 0 .. n
  BY <1>1
<1>7. QED
  BY <1>2, <1>5, <1>6

\* A piece of a log: what is left of it is what was at a + 1 .. b.
IsCut(D, a, b) ==
  /\ Len(p_msgs'[D]) = b - a
  /\ p_msgs'[D] = <<>> <=> a = b
  /\ PastIdx(D)' \subseteq 1 .. b - a /\ SentIdx(D)' \subseteq 1 .. b - a
  /\ \A i \in 1 .. b - a :
       /\ p_msgs'[D][i] = p_msgs[D][i + a]
       /\ i \in PastIdx(D)' <=> i + a \in PastIdx(D)
       /\ i \in SentIdx(D)' <=> i + a \in SentIdx(D)

\* Truncating a log (process.c) or dropping its head (fossil.c) leaves a piece of it.
LEMMA LogIsCut ==
  ASSUME Shapes, Shapes', NEW D \in LPs, NEW a \in Nat, NEW b \in Nat, a <= b,
         b <= Len(p_msgs[D]), p_msgs'[D] = SubSeq(p_msgs[D], a + 1, b)
  PROVE  IsCut(D, a, b)
<1>1. LogTyped(D) /\ LogTyped(D)'
  BY LogTypes, LogTypesNext
<1>2. \A i \in a + 1 .. b : p_msgs[D][i] \in Entry
  BY <1>1
<1>3. /\ Len(p_msgs'[D]) = IF a + 1 <= b THEN b - (a + 1) + 1 ELSE 0
      /\ \A i \in 1 .. b - (a + 1) + 1 : p_msgs'[D][i] = p_msgs[D][a + 1 + i - 1]
  BY <1>2, SubSeqProperties
<1>4. Len(p_msgs'[D]) = b - a
  BY <1>3
<1>5. \A i \in 1 .. b - a : p_msgs'[D][i] = p_msgs[D][i + a]
  <2>1. ASSUME NEW i \in 1 .. b - a
        PROVE  i \in 1 .. b - (a + 1) + 1 /\ a + 1 + i - 1 = i + a
    OBVIOUS
  <2>2. QED
    BY <1>3, <2>1
<1>6. p_msgs'[D] = <<>> <=> a = b
  <2>1. p_msgs'[D] = <<>> <=> Len(p_msgs'[D]) = 0
    <3>1. p_msgs'[D] \in Seq(Entry)
      BY <1>1
    <3>2. QED
      BY <3>1, EmptySeq
  <2>2. QED
    BY <1>4, <2>1
<1>7. ASSUME NEW i \in 1 .. b - a PROVE i + a \in 1 .. Len(p_msgs[D])
  <2>1. Len(p_msgs[D]) \in Nat
    BY <1>1
  <2> HIDE DEF LogTyped
  <2>2. QED
    BY <2>1
<1>8. \A i \in 1 .. b - a :
        /\ i \in PastIdx(D)' <=> i + a \in PastIdx(D)
        /\ i \in SentIdx(D)' <=> i + a \in SentIdx(D)
  BY ZenonT(30), <1>1, <1>4, <1>5, <1>7
<1>9. QED
  BY <1>1, <1>4, <1>5, <1>6, <1>8 DEF IsCut

\* The last checkpoint at or before an index of the log.
LEMMA LogAtTells ==
  ASSUME IInv, NEW D \in LPs, NEW i \in Nat, logs[D][1].ref <= i, NEW j, j = LogAt(logs[D], i)
  PROVE  /\ j \in 1 .. Len(logs[D]) /\ j \in Nat
         /\ logs[D][j].ref <= i /\ logs[D][j].ref \in Nat
         /\ logs[D][j].ref \in {0} \cup PastIdx(D)
         /\ \A k, l \in 1 .. Len(logs[D]) : k <= l => logs[D][k].ref <= logs[D][l].ref
         /\ \A k \in 1 .. Len(logs[D]) :
              logs[D][k].ref \in {0} \cup PastIdx(D) /\ logs[D][k].ref \in Nat
<1> DEFINE S == {k \in DOMAIN logs[D] : logs[D][k].ref <= i}
           n == Len(logs[D])
<1>1. n \in Nat /\ n >= 1 /\ DOMAIN logs[D] = 1 .. n
      /\ \A k \in 1 .. n : logs[D][k] \in [ref : Nat, st : Seq(Event)]
  BY FirstRef
<1>2. S \in SUBSET Nat /\ (\A k \in S : k <= n) /\ 1 \in S
  BY <1>1
<1>3. j = Greatest(S)
  BY DEF LogAt
<1>4. j \in S
  <2> HIDE DEF S
  <2> QED
    BY <1>1, <1>2, <1>3, GreatestTells
<1>5. /\ \A k \in 1 .. n : logs[D][k].ref \in {0} \cup PastIdx(D)
      /\ \A k, l \in 1 .. n : k <= l => logs[D][k].ref <= logs[D][l].ref
  BY <1>1 DEF IInv, LpFits, CheckpointsFit
<1>6. \A k \in 1 .. n : logs[D][k].ref \in Nat
  BY <1>1
<1>7. j \in 1 .. n /\ logs[D][j].ref <= i
  BY <1>1, <1>4
<1> HIDE DEF n
<1>8. j \in Nat
  BY <1>1, <1>7
<1>9. QED
  BY <1>5, <1>6, <1>7, <1>8 DEF n

\* The log is cut and the state restored from a checkpoint; then the message
\* is freed, or it goes on to be processed.
LEMMA RestoreStep ==
  ASSUME IInv, NEW th \in Threads, NEW D \in LPs, NEW m \in Msgs, NEW i \in Nat, NEW j,
         Dest(th) = D, cur[th] = m, i = past_i[th], j = LogAt(logs[D], i), Restore(th)
  PROVE  IInv' /\ [Life!Next]_(Life!vars)
<1>1. /\ pc[th] = "restore"
      /\ p_msgs' = [p_msgs EXCEPT ![D] = SubSeq(@, 1, i)]
      /\ logs' = [logs EXCEPT ![D] = SubSeq(@, 1, j)]
      /\ state' = [state EXCEPT ![D] = SilentExecution(logs[D][j].st, p_msgs[D], logs[D][j].ref, i)]
      /\ \/ /\ m \in PastMsgs(D)
            /\ live' = live \ {m}
            /\ bound' = [bound EXCEPT ![D] = IF i = 0 THEN -1 ELSE @]
            /\ pc' = [pc EXCEPT ![th] = "idle"]
         \/ /\ m \notin PastMsgs(D)
            /\ pc' = [pc EXCEPT ![th] = "dispatch"]
            /\ UNCHANGED <<live, bound>>
      /\ UNCHANGED <<msg, flags, marked, list, heap, ckpt_rem, gvt, epoch, cur, past_i, undo_i, outs>>
  BY DEF Restore, Rollback, Dest
<1>2. /\ m \in live /\ Shapes /\ LpFits(D) /\ ThreadFits(th) /\ LogTyped(D)
      /\ Rid[D] = th /\ m \in InHand /\ msg[m].dest = D /\ Dest(th)' = D
  BY <1>1, HandTypes, HandsTell, LogTypes DEF IInv, Dest
<1>3. /\ pc \in [Threads -> PCs] /\ p_msgs \in [LPs -> Seq(Entry)]
      /\ bound \in [LPs -> -1 .. MaxT] /\ logs \in [LPs -> Seq([ref : Nat, st : Seq(Event)])]
      /\ state \in [LPs -> Seq(Event)] /\ MaxT \in Nat
  BY <1>2, Numbers DEF Shapes
<1> DEFINE n == Len(p_msgs[D])
<1>4. /\ i \in {0} \cup PastIdx(D) /\ i < n /\ n \in Nat
      /\ \A k \in PastIdx(D) :
              /\ k <= i => TimeOf(D, k) <= msg[m].t /\ p_msgs[D][k].m # m
              /\ ~ (k <= i) => TimeOf(D, k) >= msg[m].t
      /\ logs[D][1].ref <= i
      /\ Running(D) = {}
  BY <1>1, <1>2, RollbackTells DEF Rollbacks
<1>5. /\ j \in 1 .. Len(logs[D]) /\ j \in Nat
      /\ logs[D][j].ref <= i /\ logs[D][j].ref \in Nat
      /\ \A k, l \in 1 .. Len(logs[D]) : k <= l => logs[D][k].ref <= logs[D][l].ref
      /\ \A k \in 1 .. Len(logs[D]) :
           logs[D][k].ref \in {0} \cup PastIdx(D) /\ logs[D][k].ref \in Nat
  BY <1>4, LogAtTells
<1>6. /\ logs[D] \in Seq([ref : Nat, st : Seq(Event)]) /\ Len(logs[D]) \in Nat
      /\ \A k \in 1 .. Len(logs[D]) : logs[D][k] \in [ref : Nat, st : Seq(Event)]
  BY FirstRef
<1>7. /\ p_msgs'[D] = SubSeq(p_msgs[D], 1, i) /\ logs'[D] = SubSeq(logs[D], 1, j)
      /\ pc'[th] = IF m \in PastMsgs(D) THEN "idle" ELSE "dispatch"
  BY <1>1, <1>3
<1>8. /\ logs'[D] \in Seq([ref : Nat, st : Seq(Event)]) /\ Len(logs'[D]) = j
      /\ DOMAIN logs'[D] = 1 .. j
      /\ \A k \in 1 .. j : k \in 1 .. Len(logs[D]) /\ logs'[D][k] = logs[D][k]
  <2> DEFINE C == [ref : Nat, st : Seq(Event)]
  <2>1. \A k \in 1 .. j : k \in 1 .. Len(logs[D]) /\ logs[D][k] \in C
    <3>1. ASSUME NEW k \in 1 .. j PROVE k \in 1 .. Len(logs[D])
      <4>1. j \in 1 .. Len(logs[D]) /\ Len(logs[D]) \in Nat
        BY <1>5, <1>6
      <4>2. QED
        BY <4>1
    <3>2. \A k \in 1 .. Len(logs[D]) : logs[D][k] \in C
      BY <1>6
    <3>3. QED
      BY <3>1, <3>2
  <2>2. j >= 1 /\ j \in Int
    BY <1>5
  <2> HIDE DEF C
  <2>3. /\ SubSeq(logs[D], 1, j) \in Seq(C)
        /\ Len(SubSeq(logs[D], 1, j)) = IF 1 <= j THEN j - 1 + 1 ELSE 0
        /\ \A k \in 1 .. j - 1 + 1 : SubSeq(logs[D], 1, j)[k] = logs[D][1 + k - 1]
    BY <2>1, <2>2, SubSeqProperties
  <2>4. /\ logs'[D] \in Seq(C) /\ Len(logs'[D]) = j
    BY <1>7, <2>2, <2>3
  <2>5. ASSUME NEW k \in 1 .. j PROVE logs'[D][k] = logs[D][k]
    <3>1. k \in 1 .. j - 1 + 1 /\ 1 + k - 1 = k
      BY <2>2
    <3>2. QED
      BY <1>7, <2>3, <3>1
  <2>6. DOMAIN logs'[D] = 1 .. j
    BY <2>4
  <2>7. QED
    BY <2>1, <2>4, <2>5, <2>6 DEF C
<1>9. Shapes'
  <2>1. pc' \in [Threads -> PCs]
    BY <1>1, <1>3 DEF PCs
  <2>2. p_msgs' \in [LPs -> Seq(Entry)]
    <3>1. SubSeq(p_msgs[D], 1, i) \in Seq(Entry)
      <4>1. \A k \in 1 .. i : p_msgs[D][k] \in Entry
        BY <1>2, <1>4
      <4>2. QED
        BY <4>1, SubSeqProperties
    <3>2. QED
      BY <1>1, <1>3, <3>1
  <2>3. bound' \in [LPs -> -1 .. MaxT]
    <3>1. -1 \in -1 .. MaxT
      BY <1>3
    <3>2. QED
      BY <1>1, <1>3, <3>1
  <2>4. logs' \in [LPs -> Seq([ref : Nat, st : Seq(Event)])]
    <3> DEFINE C == [ref : Nat, st : Seq(Event)]
    <3>1. SubSeq(logs[D], 1, j) \in Seq(C) /\ logs \in [LPs -> Seq(C)]
      BY <1>3, <1>7, <1>8
    <3> HIDE DEF C
    <3>2. logs' \in [LPs -> Seq(C)]
      BY <1>1, <3>1
    <3>3. QED
      BY <3>2 DEF C
  <2>5. state' \in [LPs -> Seq(Event)]
    <3>1. logs[D][j].st \in Seq(Event)
      BY <1>5, <1>6
    <3>2. SubSeq(p_msgs[D], logs[D][j].ref + 1, i) \in Seq(Entry)
      <4>1. \A k \in logs[D][j].ref + 1 .. i : p_msgs[D][k] \in Entry
        BY <1>2, <1>4, <1>5
      <4>2. QED
        BY <1>5, <4>1, SubSeqProperties
    <3>3. Events(SubSeq(p_msgs[D], logs[D][j].ref + 1, i)) \in Seq(Event)
      BY <1>2, <3>2, EventsAreTyped
    <3>4. SilentExecution(logs[D][j].st, p_msgs[D], logs[D][j].ref, i) \in Seq(Event)
      BY <3>1, <3>3, ConcatProperties DEF SilentExecution
    <3>5. QED
      BY <1>1, <1>3, <3>4
  <2>6. QED
    BY <1>1, <1>2, <2>1, <2>2, <2>3, <2>4, <2>5 DEF Shapes
<1>10. Acts(th, D)
  BY <1>1, <1>2, <1>3 DEF Acts, Dest
<1>11. /\ Len(p_msgs'[D]) = i
       /\ p_msgs'[D] = <<>> <=> i = 0
       /\ PastIdx(D)' \subseteq 1 .. i /\ SentIdx(D)' \subseteq 1 .. i
       /\ \A k \in 1 .. i :
            /\ p_msgs'[D][k] = p_msgs[D][k]
            /\ k \in PastIdx(D)' <=> k \in PastIdx(D)
            /\ k \in SentIdx(D)' <=> k \in SentIdx(D)
  <2> DEFINE a == 0
  <2>1. /\ p_msgs'[D] = SubSeq(p_msgs[D], a + 1, i) /\ a \in Nat /\ a <= i
        /\ i <= Len(p_msgs[D]) /\ Shapes
    BY <1>2, <1>4, <1>7
  <2>3. i - a = i /\ (\A k \in 1 .. i : k \in 1 .. i - a /\ k + a = k) /\ (a = i <=> i = 0)
    OBVIOUS
  <2> HIDE DEF a
  <2>2. IsCut(D, a, i)
    BY <1>9, <2>1, LogIsCut
  <2>4. ASSUME NEW k \in 1 .. i
        PROVE  /\ p_msgs'[D][k] = p_msgs[D][k]
               /\ k \in PastIdx(D)' <=> k \in PastIdx(D)
               /\ k \in SentIdx(D)' <=> k \in SentIdx(D)
    <3>1. k \in 1 .. i - a /\ k + a = k
      BY <2>3
    <3>2. QED
      BY <2>2, <3>1 DEF IsCut
  <2>5. /\ Len(p_msgs'[D]) = i
        /\ p_msgs'[D] = <<>> <=> i = 0
        /\ PastIdx(D)' \subseteq 1 .. i /\ SentIdx(D)' \subseteq 1 .. i
    BY <2>2, <2>3 DEF IsCut
  <2>6. QED
    BY <2>4, <2>5
<1>12. \A k \in 1 .. i : TimeOf(D, k)' = TimeOf(D, k) /\ RankOf(D, k)' = RankOf(D, k)
  BY <1>1, <1>11 DEF TimeOf, RankOf
<1>13. /\ PastIdx(D) \subseteq 1 .. n /\ SentIdx(D) \subseteq 1 .. n
       /\ \A k \in 1 .. i : k \in Nat /\ k <= i
  BY <1>2
<1>14. /\ \A y \in PastMsgs(D)' : y \in PastMsgs(D) /\ y # m
       /\ \A k \in PastIdx(D)' : TimeOf(D, k)' <= msg[m].t
  <2>1. \A k \in PastIdx(D)' : k \in PastIdx(D) /\ k <= i /\ p_msgs'[D][k] = p_msgs[D][k]
                               /\ TimeOf(D, k)' = TimeOf(D, k)
    BY <1>11, <1>12, <1>13
  <2>2. QED
    BY <1>4, <2>1 DEF PastMsgs
<1>15. LogInOrder(D)'
  <2>1. \A y \in PastMsgs(D)' : msg'[y].dest = D /\ y \in live'
    BY <1>1, <1>2, <1>14 DEF LpFits, LogInOrder
  <2>2. ASSUME NEW k \in PastIdx(D)', NEW l \in PastIdx(D)', k < l
        PROVE  p_msgs'[D][k].m # p_msgs'[D][l].m /\ TimeOf(D, k)' <= TimeOf(D, l)'
    <3>1. k \in PastIdx(D) /\ l \in PastIdx(D) /\ k \in 1 .. i /\ l \in 1 .. i
      BY <1>11
    <3>2. p_msgs[D][k].m # p_msgs[D][l].m /\ TimeOf(D, k) <= TimeOf(D, l)
      BY <1>2, <2>2, <3>1 DEF LpFits, LogInOrder
    <3>3. /\ p_msgs'[D][k] = p_msgs[D][k] /\ p_msgs'[D][l] = p_msgs[D][l]
          /\ TimeOf(D, k)' = TimeOf(D, k) /\ TimeOf(D, l)' = TimeOf(D, l)
      BY <1>11, <1>12, <3>1
    <3>4. QED
      BY <3>2, <3>3
  <2>3. i = 0 \/ i \in PastIdx(D)'
    BY <1>4, <1>11, <1>13
  <2>4. QED
    BY <1>11, <2>1, <2>2, <2>3 DEF LogInOrder
<1>16. BoundFits(D)'
  <2>1. i # 0 => bound' = bound
    BY <1>1, <1>3
  <2>2. \A k \in PastIdx(D)' : TimeOf(D, k)' <= bound'[D]
    <3>1. SUFFICES ASSUME NEW k \in PastIdx(D)' PROVE TimeOf(D, k)' <= bound'[D]
      OBVIOUS
    <3>2. k \in 1 .. i /\ k \in PastIdx(D) /\ i # 0
      BY <1>11
    <3>3. QED
      BY <1>2, <1>12, <2>1, <3>2 DEF LpFits, BoundFits
  <2>3. p_msgs'[D] = <<>> => bound'[D] = -1 \/ Running(D)' # {}
    <3>1. pc'[th] = "dispatch" => th \in Running(D)'
      BY <1>9, <1>10, HomeTells
    <3>2. pc'[th] = "idle" /\ i = 0 => bound'[D] = -1
      BY <1>1, <1>3, <1>7
    <3>3. QED
      BY <1>7, <1>11, <3>1, <3>2
  <2>4. QED
    BY <2>2, <2>3 DEF BoundFits
<1>17. CheckpointsFit(D)'
  <2>1. logs'[D] # <<>>
    BY <1>5, <1>8
  <2>2. ASSUME NEW k \in 1 .. j PROVE logs'[D][k].ref \in {0} \cup PastIdx(D)'
    <3>1. k \in 1 .. Len(logs[D]) /\ k <= j /\ logs'[D][k] = logs[D][k]
      BY <1>5, <1>8
    <3>2. /\ logs[D][k].ref <= logs[D][j].ref /\ logs[D][k].ref \in Nat
          /\ logs[D][k].ref \in {0} \cup PastIdx(D)
      BY <1>5, <3>1
    <3>3. logs[D][k].ref = 0 \/ logs[D][k].ref \in 1 .. i
      BY <1>5, <3>2
    <3>4. QED
      BY <1>11, <3>1, <3>2, <3>3
  <2>3. \A k, l \in 1 .. j : k <= l => logs'[D][k].ref <= logs'[D][l].ref
    BY <1>5, <1>8
  <2>4. QED
    BY <1>8, <2>1, <2>2, <2>3 DEF CheckpointsFit
<1>18. Undone(D)' = {} /\ \A k \in 1 .. i : k \notin Undone(D)
  <2>1. Undone(D)' = {}
    BY <1>7, <1>9, <1>10, HomeTells DEF IsUndone
  <2>2. \A k \in 1 .. i : ~ IsUndone(th, k)
    BY <1>13 DEF IsUndone
  <2>3. QED
    BY <1>9, <1>10, <2>1, <2>2, HomeTells
<1>19. FirstStays(D)'
  <2> DEFINE r == logs[D][1].ref
  <2>1. FirstStays(D) /\ r \in {0} \cup PastIdx(D) /\ r \in Nat /\ logs'[D][1].ref = r
    <3>1. 1 \in 1 .. j
      BY <1>5
    <3>2. QED
      BY <1>2, <1>8, <3>1, FirstRef DEF LpFits
  <2> HIDE DEF r
  <2>2. r # 0 => r \in PastIdx(D) /\ TimeOf(D, r) = 0 /\ RankOf(D, r) = InitTy
    BY <2>1 DEF FirstStays, r
  <2>3. r # 0 => r \in 1 .. i
    BY <1>4, <2>1 DEF r
  <2>4. ASSUME NEW k \in 1 .. i, k = r
        PROVE  k \in PastIdx(D)' /\ TimeOf(D, k)' = 0 /\ RankOf(D, k)' = InitTy
    BY <1>11, <1>12, <1>13, <2>2, <2>4
  <2>5. \A k \in PastIdx(D)' : r <= k /\ (RankOf(D, k)' = InitTy => k = r)
    BY <1>11, <1>12, <2>1 DEF FirstStays, r
  <2>6. \A k \in SentIdx(D)' : RankOf(D, k)' < InitTy /\ (TimeOf(D, k)' = 0 => k < r)
    BY <1>11, <1>12, <2>1 DEF FirstStays, r
  <2>7. RollingBack(D)' = {}
    BY <1>7, <1>9, <1>10, HomeTells DEF Rollbacks
  <2> DEFINE s == logs'[D][1].ref
  <2>8. s = r
    BY <2>1
  <2> HIDE DEF s
  <2>9. s # 0 => s \in PastIdx(D)' /\ msg'[p_msgs'[D][s].m].t = 0 /\ msg'[p_msgs'[D][s].m].ty = InitTy
    BY <2>3, <2>4, <2>8 DEF TimeOf, RankOf
  <2>10. QED
    BY <2>5, <2>6, <2>7, <2>8, <2>9 DEF FirstStays, s, TimeOf, RankOf
<1>20. ASSUME NEW k \in SentIdx(D)', MayUndo(D, k)'
       PROVE  k \in SentIdx(D) /\ MayUndo(D, k) /\ p_msgs'[D][k].m = p_msgs[D][k].m
              /\ k \in 1 .. i
  <2>1. k \in 1 .. i /\ k \in SentIdx(D) /\ k \notin Undone(D)
    BY <1>11, <1>18
  <2>2. ASSUME NEW l \in PastIdx(D), l > k, NEW y \in Threads
        PROVE  gvt[y] <= TimeOf(D, l)
    <3>1. CASE l <= i
      <4>1. l \in PastIdx(D)' /\ TimeOf(D, l)' = TimeOf(D, l)
        BY <1>11, <1>12, <1>13, <3>1
      <4>2. QED
        BY <1>1, <1>20, <2>2, <4>1 DEF MayUndo
    <3>2. CASE ~ (l <= i)
      <4>1. gvt[y] <= msg[m].t /\ gvt[y] \in 0 .. MaxT + 1 /\ msg[m].t \in 0 .. MaxT
        BY <1>1, <1>2, HandsTell, HandTypes
      <4>2. TimeOf(D, l) >= msg[m].t /\ TimeOf(D, l) \in 0 .. MaxT
        BY <1>2, <1>4, <1>13, <3>2
      <4>3. QED
        BY <1>3, <4>1, <4>2
    <3>3. QED
      BY <3>1, <3>2
  <2>3. QED
    BY <1>11, <2>1, <2>2 DEF MayUndo
<1>21. SentIsMarked(D)'
  <2>1. ASSUME NEW k \in SentIdx(D)', MayUndo(D, k)'
        PROVE  /\ p_msgs'[D][k].m \in marked'
               /\ \E l \in PastIdx(D)' : l > k /\ TimeOf(D, l)' <= TimeOf(D, k)'
    <3>1. k \in SentIdx(D) /\ MayUndo(D, k) /\ p_msgs'[D][k].m = p_msgs[D][k].m /\ k \in 1 .. i
      BY <1>20, <2>1
    <3>2. /\ p_msgs[D][k].m \in marked
          /\ \E l \in PastIdx(D) : l > k /\ TimeOf(D, l) <= TimeOf(D, k)
      BY <1>2, <1>4, <3>1 DEF LpFits, SentIsMarked
    <3>3. PICK l \in PastIdx(D) : l > k /\ TimeOf(D, l) <= TimeOf(D, k)
      BY <3>2
    <3>4. CASE l <= i
      <4>1. l \in PastIdx(D)' /\ TimeOf(D, l)' = TimeOf(D, l)
        BY <1>11, <1>12, <1>13, <3>4
      <4>2. QED
        BY <1>1, <1>12, <3>1, <3>2, <3>3, <4>1
    <3>5. CASE ~ (l <= i)
      <4>1. i \in PastIdx(D) /\ i \in 1 .. i /\ i <= l /\ l \in Nat
        BY <1>4, <1>13, <3>1, <3>5
      <4>2. TimeOf(D, i) <= TimeOf(D, l)
        BY <4>1, PastTells
      <4>3. TimeOf(D, i) \in 0 .. MaxT /\ TimeOf(D, l) \in 0 .. MaxT /\ TimeOf(D, k) \in 0 .. MaxT
        BY <1>2, <1>13, <3>1, <4>1
      <4>4. TimeOf(D, i) <= TimeOf(D, k)
        BY <1>3, <3>3, <4>2, <4>3
      <4>5. i # k
        BY <1>2, <1>13, <3>1, <4>1 DEF SentIdx
      <4>6. i > k
        BY <1>13, <3>1, <4>5
      <4>7. i \in PastIdx(D)' /\ TimeOf(D, i)' <= TimeOf(D, k)'
        BY <1>11, <1>12, <3>1, <4>1, <4>4
      <4>8. QED
        BY <1>1, <3>1, <3>2, <4>6, <4>7
    <3>6. QED
      BY <3>4, <3>5
  <2>2. QED
    BY <2>1 DEF SentIsMarked
<1>22. LpFits(D)'
  BY <1>15, <1>16, <1>17, <1>19, <1>21 DEF LpFits
<1>23. MarksStay(D)
  BY <1>1 DEF MarksStay, IInv, LpFits, SentIsMarked
<1>24. SentOnce'
  <2>1. \A k \in SentIdx(D)' : k + 0 = k
    BY <1>11, <1>13
  <2>2. \A k \in SentIdx(D)' : MayUndo(D, k)' =>
            /\ k + 0 \in SentIdx(D) /\ MayUndo(D, k + 0)
            /\ p_msgs'[D][k].m = p_msgs[D][k + 0].m
    BY <1>20, <2>1
  <2>3. QED
    BY <1>9, <1>10, <1>23, <2>2, SentOnceStays
<1>25. ThreadFits(th)'
  <2>1. CurFits(th)'
    BY <1>1, <1>2, <1>7, <1>14 DEF CurFits
  <2>2. QED
    BY <1>7, <2>1 DEF ThreadFits, RollbackFits, TouchedFits, OutsFit, Rollbacks
<1>26. LoggedOf(D)' = LoggedOf(D) /\ m \notin LoggedOf(D)
  <2>1. \A k \in PastIdx(D) : k \in Undone(D) <=> ~ (k <= i)
    <3>1. \A k \in PastIdx(D) : k \in DOMAIN p_msgs[D] /\ k \in Nat
      BY <1>2, <1>13
    <3>2. \A k \in PastIdx(D) : IsUndone(th, k) <=> ~ (k <= i)
      BY <1>1, <3>1 DEF IsUndone
    <3>3. QED
      BY <1>9, <1>10, <3>1, <3>2, HomeTells
  <2>2. \A k : k \in StandingIdx(D) <=> k \in PastIdx(D) /\ k <= i
    BY <2>1 DEF StandingIdx
  <2>3. \A k \in PastIdx(D)' : k \in StandingIdx(D) /\ p_msgs'[D][k] = p_msgs[D][k]
    BY <1>11, <1>13, <2>2
  <2>4. \A k \in StandingIdx(D) : k \in PastIdx(D)' /\ p_msgs'[D][k] = p_msgs[D][k]
                                  /\ p_msgs[D][k].m # m
    BY <1>4, <1>11, <1>13, <2>2
  <2>5. StandingIdx(D)' = PastIdx(D)'
    BY <1>18 DEF StandingIdx
  <2>6. QED
    BY <2>3, <2>4, <2>5 DEF LoggedOf
<1>27. Role(th) = IF m \in PastMsgs(D) THEN "killing" ELSE "running"
  BY <1>1, <1>2 DEF Role
<1>28. m \notin PastMsgs(D)'
  BY <1>14
<1>places. PlacesAre(th, D)
  BY <1>9, <1>10, <1>25, PlacesTell
<1>29. [Life!Next]_(Life!vars)
  <2>1. CASE m \in PastMsgs(D)
    <3>1. Role(th) = "killing" /\ Role(th)' = "none" /\ live' = live \ {m}
      BY <1>1, <1>7, <1>27, <2>1 DEF Role
    <3>2. LifeKilling = OthersIn(th, "killing") \cup {m} /\ LifeKilling' = OthersIn(th, "killing")
      BY <1>9, <1>10, <1>25, <3>1, <1>places DEF PlacesAre
    <3>3. LifeRunning' = LifeRunning /\ LifeTaken' = LifeTaken
      BY <1>9, <1>10, <1>25, <3>1, <1>places DEF PlacesAre
    <3>4. LifeBack' = LifeBack
      BY <1>1, <1>7, <1>9, <1>10, <1>25, <1>places DEF PlacesAre
    <3>5. LifeLogged' = LifeLogged /\ m \notin LifeLogged
      <4>1. m \notin OthersLogged(D)
        BY <1>2, OthersApart
      <4>2. QED
        BY <1>9, <1>10, <1>25, <1>26, <4>1, <1>places DEF PlacesAre
    <3>6. m \notin OthersIn(th, "killing")
      BY <1>2, OthersApart
    <3>7. Queued' = Queued
      BY <1>1 DEF Queued
    <3>8. Life!FreeKilled(m)
      BY <1>1, <3>1, <3>2, <3>3, <3>4, <3>5, <3>6, <3>7 DEF Life!FreeKilled
    <3>9. QED
      BY <3>8 DEF Life!Next
  <2>2. CASE m \notin PastMsgs(D)
    <3>1. Role(th)' = Role(th) /\ UNCHANGED <<flags, live, marked>> /\ cur'[th] = cur[th]
      BY <1>1, <1>2, <1>7, <1>27, <1>28, <2>2 DEF Role
    <3>2. Queued' = Queued /\ pc[th] # "reinsert" /\ pc'[th] # "reinsert"
      BY <1>1, <1>7 DEF Queued
    <3>3. UNCHANGED Life!vars
      BY <1>9, <1>10, <1>25, <1>26, <3>1, <3>2, LifeStutters
    <3>4. QED
      BY <3>3
  <2>3. QED
    BY <2>1, <2>2
<1>30. IInv'
  <2>1. ZeroIsKept'
    BY <1>1 DEF IInv, ZeroIsKept
  <2>2. \A y \in Threads : \A z \in list'[y] \cup heap'[y] : QueuedWell(y, z)
    BY <1>1 DEF QueuedWell
  <2>3. pc'[th] # "reinsert" /\ cur'[th] \in Queued \cup InHand
    BY <1>1, <1>2, <1>7
  <2>4. QED
    BY <1>2, <1>9, <1>10, <1>22, <1>23, <1>24, <1>25, <1>29, <2>1, <2>2, <2>3, Conclude
<1>31. QED
  BY <1>29, <1>30

-----------------------------------------------------------------------------
(***************************************************************************)
(* Extraction and fossil collection.                                       *)
(***************************************************************************)
\* What an LP may take back is not older than any GVT.
LEMMA MayUndoIsRecent ==
  ASSUME IInv, NEW lp \in LPs, NEW k \in SentIdx(lp), MayUndo(lp, k)
  PROVE  /\ p_msgs[lp][k].m \in marked
         /\ \A y \in Threads : gvt[y] <= TimeOf(lp, k)
<1>1. LogTyped(lp) /\ Shapes /\ SentIsMarked(lp) /\ MaxT \in Nat
  BY LogTypes, Numbers DEF IInv, LpFits
<1>2. ASSUME NEW y \in Threads PROVE gvt[y] <= TimeOf(lp, k)
  <2>1. gvt[y] \in Nat /\ TimeOf(lp, k) \in Nat
    BY <1>1, HandTypes
  <2>2. CASE \E l \in PastIdx(lp) : l > k /\ TimeOf(lp, l) <= TimeOf(lp, k)
    <3>1. PICK l \in PastIdx(lp) : l > k /\ TimeOf(lp, l) <= TimeOf(lp, k)
      BY <2>2
    <3>2. gvt[y] <= TimeOf(lp, l) /\ TimeOf(lp, l) \in Nat
      BY <1>1, <3>1 DEF MayUndo
    <3>3. QED
      BY <2>1, <3>1, <3>2
  <2>3. CASE \E x \in Running(lp) : pc[x] = "send" /\ msg[cur[x]].t <= TimeOf(lp, k)
    <3>1. PICK x \in Running(lp) : pc[x] = "send" /\ msg[cur[x]].t <= TimeOf(lp, k)
      BY <2>3
    <3>2. x \in Threads /\ pc[x] # "idle"
      BY <3>1 DEF Running
    <3>3. gvt[y] <= msg[cur[x]].t /\ msg[cur[x]].t \in Nat
      BY <1>1, <3>2, HandsTell, HandTypes
    <3>4. QED
      BY <2>1, <3>1, <3>3
  <2>4. QED
    BY <1>1, <2>2, <2>3 DEF SentIsMarked
<1>3. QED
  BY <1>1, <1>2 DEF SentIsMarked

\* A thread takes a message m out of its queue, and frees the messages old of
\* the log of its destination D.
Takes(th, D, m, old) ==
  /\ pc[th] = "idle" /\ m \in heap[th] \cup list[th] /\ msg[m].dest = D
  /\ list' = [list EXCEPT ![th] = {}]
  /\ heap' = [heap EXCEPT ![th] = (heap[th] \cup list[th]) \ {m}]
  /\ cur' = [cur EXCEPT ![th] = m]
  /\ pc' = [pc EXCEPT ![th] = "extracted"]
  /\ UNCHANGED <<msg, flags, state, gvt, past_i, undo_i, outs>>
  /\ p_msgs' \in [LPs -> Seq(Entry)]
  /\ logs' \in [LPs -> Seq(Ckpt)]
  /\ bound' \in [LPs -> -1 .. MaxT]
  /\ \A lp \in LPs \ {D} :
       p_msgs'[lp] = p_msgs[lp] /\ logs'[lp] = logs[lp] /\ bound'[lp] = bound[lp]
  /\ old \subseteq LoggedOf(D)
  /\ \A y \in old : flags[y] = PROCESSED
  /\ live' = live \ old
  /\ marked' = marked \ old

\* A thread that took message m is of the right shape and acts at the LP of m only.
LEMMA TakesTells ==
  ASSUME IInv, NEW th \in Threads, NEW D \in LPs, NEW m \in Msgs, NEW old,
         Takes(th, D, m, old)
  PROVE  /\ Shapes' /\ Acts(th, D) /\ ThreadFits(th)' /\ Rid[D] = th
         /\ pc'[th] = "extracted" /\ cur'[th] = m
<1>1. Shapes /\ pc \in [Threads -> PCs] /\ cur \in [Threads -> Msgs]
      /\ list \in [Threads -> SUBSET Msgs] /\ heap \in [Threads -> SUBSET Msgs]
  BY DEF IInv, Shapes
<1>2. Rid[D] = th
  BY DEF Takes, IInv, QueuesFit
<1>3. /\ pc' \in [Threads -> PCs] /\ cur' \in [Threads -> Msgs]
      /\ list' \in [Threads -> SUBSET Msgs] /\ heap' \in [Threads -> SUBSET Msgs]
      /\ pc'[th] = "extracted" /\ cur'[th] = m
      /\ \A x \in Threads \ {th} : pc'[x] = pc[x] /\ cur'[x] = cur[x]
  BY <1>1 DEF Takes, PCs
<1>4. Shapes'
  BY <1>1, <1>3 DEF Takes, Shapes, Ckpt
<1>5. Dest(th)' = D
  BY <1>3 DEF Dest, Takes
<1>6. \A y \in live \ live' : msg[y].dest = D
  BY <1>2, OthersApart DEF Takes
<1>7. Acts(th, D)
  BY <1>2, <1>3, <1>5, <1>6 DEF Acts, Takes
<1>8. ThreadFits(th)'
  BY <1>2, <1>3, <1>5 DEF ThreadFits, CurFits, RollbackFits, TouchedFits, OutsFit, Rollbacks
<1>9. QED
  BY <1>2, <1>3, <1>4, <1>7, <1>8

\* Taking a message keeps the invariant, also when a fossil collection that comes before it
\* frees dead messages, provided the log of the LP is still right.
LEMMA TakesStep ==
  ASSUME IInv, NEW th \in Threads, NEW D \in LPs, NEW m \in Msgs, NEW old,
         Takes(th, D, m, old), LpFits(D)', SentOnce', MarksStay(D),
         LoggedOf(D)' = LoggedOf(D) \ old
  PROVE  IInv' /\ [Life!Next]_(Life!vars)
<1>1. /\ Shapes' /\ Acts(th, D) /\ ThreadFits(th)' /\ Rid[D] = th
      /\ pc'[th] = "extracted" /\ cur'[th] = m
  BY TakesTells
<1>2. /\ pc[th] = "idle" /\ Role(th) = "none" /\ Role(th)' = "taken"
  BY <1>1 DEF Takes, Role
<1>3. m \in Queued
  BY DEF Takes, Queued
<1>4. Queued' = Queued \ {m}
  <2>1. \A x \in Threads : m \in heap[x] \cup list[x] => x = th
    BY <1>1 DEF Takes, IInv, QueuesFit
  <2>2. /\ \A x \in Threads \ {th} : list'[x] \cup heap'[x] = list[x] \cup heap[x]
        /\ list'[th] \cup heap'[th] = (list[th] \cup heap[th]) \ {m}
    BY DEF Takes, IInv, Shapes
  <2>3. QED
    BY <2>1, <2>2 DEF Queued
<1>places. PlacesAre(th, D)
  BY <1>1, PlacesTell
<1>5. /\ LifeTaken' = LifeTaken \cup {m}
      /\ LifeRunning = OthersIn(th, "running") /\ LifeRunning' = LifeRunning
      /\ LifeKilling' = LifeKilling
  BY <1>1, <1>2, <1>places DEF PlacesAre
<1>6. LifeBack' = LifeBack
  BY <1>1, <1>2, <1>places DEF PlacesAre
<1>7. m \notin LifeRunning
  BY <1>1, <1>5, OthersApart DEF Takes
<1>8. LifeLogged = OthersLogged(D) \cup LoggedOf(D)
      /\ LifeLogged' = OthersLogged(D) \cup LoggedOf(D)'
  BY <1>1, <1>places DEF PlacesAre
<1>9. LifeLogged' = LifeLogged \ old
  <2>1. \A y \in OthersLogged(D) : msg[y].dest # D
    BY <1>1, OthersApart
  <2>2. \A y \in old : y \in LoggedOf(D) /\ msg[y].dest = D
    BY <1>1, OthersApart DEF Takes
  <2>3. QED
    BY <1>8, <2>1, <2>2
<1>10. Life!Extract(m, old) /\ old \in SUBSET LifeLogged
  BY <1>3, <1>4, <1>5, <1>6, <1>7, <1>8, <1>9
     DEF Life!Extract, Takes, Life!PROCESSED, PROCESSED
<1>11. [Life!Next]_(Life!vars)
  BY <1>10 DEF Life!Next
<1>12. ZeroIsKept'
  BY DEF Takes, IInv, ZeroIsKept
<1>13. \A x \in Threads : \A y \in list'[x] \cup heap'[x] : QueuedWell(x, y)
  BY DEF Takes, QueuedWell, IInv, Shapes
<1>14. IInv'
  BY <1>1, <1>3, <1>11, <1>12, <1>13, Conclude
<1>15. QED
  BY <1>11, <1>14

\* Nothing to collect.
LEMMA TakesQuietly ==
  ASSUME IInv, NEW th \in Threads, NEW D \in LPs, NEW m \in Msgs,
         Takes(th, D, m, {}), UNCHANGED <<p_msgs, logs>>,
         bound'[D] = bound[D] \/ (bound'[D] = -1 /\ p_msgs[D] = <<>>)
  PROVE  IInv' /\ [Life!Next]_(Life!vars)
<1>1. /\ Shapes' /\ Acts(th, D) /\ ThreadFits(th)' /\ Rid[D] = th
      /\ pc'[th] = "extracted" /\ cur'[th] = m
  BY TakesTells
<1>2. /\ pc[th] = "idle" /\ UNCHANGED <<msg, live, marked>> /\ LpFits(D) /\ Shapes /\ LogTyped(D)
  BY LogTypes DEF Takes, IInv
<1>3. /\ LoggedOf(D)' = LoggedOf(D)
      /\ \A i \in SentIdx(D) : ~ IsUndone(th, i) /\ ~ IsUndone(th, i)'
  BY <1>1, <1>2, RollbackStarts DEF Rollbacks
<1>4. MarksStay(D) /\ \A i \in SentIdx(D) : MayUndo(D, i) => p_msgs[D][i].m \in marked'
  BY <1>2 DEF MarksStay, IInv, LpFits, SentIsMarked
<1>5. BoundFits(D)'
  <2>1. \A i \in PastIdx(D)' : TimeOf(D, i)' <= bound'[D]
    <3>1. PastIdx(D)' = PastIdx(D) /\ \A i : TimeOf(D, i)' = TimeOf(D, i)
      BY <1>2 DEF PastIdx, TimeOf
    <3>2. p_msgs[D] = <<>> => PastIdx(D) = {}
      BY <1>2
    <3>3. QED
      BY <1>2, <3>1, <3>2 DEF LpFits, BoundFits
  <2>2. p_msgs'[D] = <<>> => bound'[D] = -1
    <3>1. Running(D) = {}
      BY <1>1, <1>2, HomeTells
    <3>2. QED
      BY <1>2, <3>1 DEF LpFits, BoundFits
  <2>3. QED
    BY <2>1, <2>2 DEF BoundFits
<1>6. LpFits(D)' /\ SentOnce'
  <2>1. PastMsgs(D) \subseteq live' /\ pc[th] # "send" /\ pc'[th] \notin Rollbacks
    BY <1>1, <1>2 DEF LpFits, LogInOrder, Rollbacks
  <2>2. QED
    BY <1>1, <1>2, <1>3, <1>4, <1>5, <2>1, LogStays
<1>7. QED
  BY <1>3, <1>4, <1>6, TakesStep

\* The messages up to a checkpoint, the last one before the GVT of a thread.
DeadMsgs(D, a) == {p_msgs[D][k].m : k \in {l \in PastIdx(D) : l <= a}}

\* When a thread is between two messages the log of its LP stands, and ends
\* with a message.
LEMMA IdleTells ==
  ASSUME IInv, NEW th \in Threads, NEW D \in LPs, Rid[D] = th, pc[th] = "idle"
  PROVE  /\ RollingBack(D) = {} /\ Running(D) = {} /\ Undone(D) = {}
         /\ LoggedOf(D) = PastMsgs(D)
         /\ p_msgs[D] = <<>> \/ Len(p_msgs[D]) \in PastIdx(D)
<1>1. \A x \in Threads : pc[x] # "idle" => Dest(x) # D
  BY HandsTell
<1>2. RollingBack(D) = {} /\ Running(D) = {}
  BY <1>1 DEF RollingBack, Running
<1>3. Undone(D) = {}
  BY <1>2 DEF Undone
<1>4. QED
  BY <1>2, <1>3 DEF LoggedOf, PastMsgs, StandingIdx, IInv, LpFits, LogInOrder

\* These are committed: nobody has them in hand, and no sender may take them
\* back.
LEMMA DeadAreCommitted ==
  ASSUME IInv, NEW th \in Threads, NEW D \in LPs, Rid[D] = th, pc[th] = "idle",
         NEW i \in PastIdx(D), TimeOf(D, i) < gvt[th], NEW a \in Nat, a <= i
  PROVE  /\ DeadMsgs(D, a) \subseteq LoggedOf(D)
         /\ \A y \in DeadMsgs(D, a) : flags[y] = PROCESSED
         /\ \A lp \in LPs : \A k \in SentIdx(lp) :
              MayUndo(lp, k) => p_msgs[lp][k].m \notin DeadMsgs(D, a)
<1>1. LogTyped(D) /\ Shapes /\ MaxT \in Nat /\ gvt[th] \in Nat
  BY LogTypes, Numbers, HandTypes DEF IInv
<1>2. ASSUME NEW y \in DeadMsgs(D, a)
      PROVE  y \in LoggedOf(D) /\ y \in Msgs /\ msg[y].t \in Nat /\ msg[y].t < gvt[th]
  <2>1. PICK k \in PastIdx(D) : k <= a /\ y = p_msgs[D][k].m
    BY DEF DeadMsgs
  <2>2. y \in LoggedOf(D) /\ y \in Msgs
    <3>1. LoggedOf(D) = PastMsgs(D)
      <4> HIDE DEF LogTyped
      <4>1. QED
        BY <1>1, IdleTells
    <3>2. y \in PastMsgs(D) /\ y \in Msgs
      BY <1>1, <2>1 DEF PastMsgs
    <3>3. QED
      BY <3>1, <3>2
  <2>3. k <= i /\ i \in Nat /\ TimeOf(D, k) \in Nat /\ TimeOf(D, i) \in Nat /\ TimeOf(D, k) = msg[y].t
    BY <1>1, <2>1 DEF TimeOf
  <2>4. TimeOf(D, k) <= TimeOf(D, i)
    BY <2>1, <2>3, PastTells
  <2>5. QED
    BY <1>1, <2>2, <2>3, <2>4
<1>3. ASSUME NEW y \in DeadMsgs(D, a) PROVE flags[y] = PROCESSED
  <2>1. y \in LifeLogged
    BY <1>2, LoggedTells
  <2>2. y \notin Queued \cup InHand
    <3>1. \A z \in Queued \cup InHand : gvt[th] <= msg[z].t
      BY DEF IInv, GvtIsSafe, IsGvt
    <3>2. QED
      BY <1>1, <1>2, <3>1
  <2>3. y \notin LifeTaken \cup LifeKilling
    <3>1. LifeTaken \subseteq InHand /\ LifeKilling \subseteq InHand
      BY DEF LifeTaken, LifeKilling, InHand
    <3>2. QED
      BY <2>2, <3>1
  <2>4. y \notin LifeBack
    <3>1. SUFFICES ASSUME NEW x \in Threads, pc[x] = "reinsert" PROVE Touched(x) # y
      BY DEF LifeBack
    <3>2. msg[Touched(x)].t >= msg[cur[x]].t
      BY <3>1 DEF IInv, ThreadFits, TouchedFits
    <3>3. gvt[th] <= msg[cur[x]].t /\ msg[cur[x]].t \in Nat
      BY <1>1, <3>1, HandsTell, HandTypes
    <3>4. QED
      BY <1>1, <1>2, <3>2, <3>3
  <2>5. QED
    BY <1>2, <2>1, <2>2, <2>3, <2>4, LifeTells DEF PROCESSED, IInv
<1>4. ASSUME NEW lp \in LPs, NEW k \in SentIdx(lp), MayUndo(lp, k)
      PROVE  p_msgs[lp][k].m \notin DeadMsgs(D, a)
  <2>1. gvt[th] <= msg[p_msgs[lp][k].m].t
    BY <1>4, MayUndoIsRecent DEF TimeOf
  <2>2. QED
    BY <1>1, <1>2, <2>1
<1>5. QED
  BY <1>2, <1>3, <1>4

\* Where the log is cut.
LEMMA FossilTells ==
  ASSUME IInv, NEW D \in LPs, NEW g \in Nat, NEW i, i = FossilIdx(D, g), i # 0
  PROVE  i \in PastIdx(D) /\ i \in Nat /\ TimeOf(D, i) < g /\ logs[D][1].ref <= i
<1> DEFINE S == {k \in PastIdx(D) : msg[p_msgs[D][k].m].t < g}
           n == Len(p_msgs[D])
<1>1. LogTyped(D) /\ FirstStays(D)
  BY LogTypes DEF IInv, LpFits
<1>2. S \in SUBSET Nat /\ (\A k \in S : k <= n) /\ n \in Nat
  BY <1>1
<1>3. i = Greatest(S)
  BY DEF FossilIdx
<1>4. i \in S
  <2>1. S # {}
    BY <1>3 DEF Greatest
  <2> HIDE DEF S, n
  <2>2. QED
    BY <1>2, <1>3, <2>1, GreatestTells
<1>5. QED
  BY <1>1, <1>4 DEF TimeOf, FirstStays

\* The checkpoints from one on, renumbered.
LEMMA RebaseTells ==
  ASSUME NEW log \in Seq(Ckpt), NEW j \in 1 .. Len(log),
         \A k, l \in 1 .. Len(log) : k <= l => log[k].ref <= log[l].ref
  PROVE  /\ Rebase(log, j) \in Seq(Ckpt)
         /\ Len(Rebase(log, j)) = Len(log) - j + 1
         /\ DOMAIN Rebase(log, j) = 1 .. Len(log) - j + 1
         /\ \A k \in 1 .. Len(log) - j + 1 :
              k + j - 1 \in 1 .. Len(log) /\ k + j - 1 >= j
              /\ Rebase(log, j)[k].ref = log[k + j - 1].ref - log[j].ref
<1> DEFINE n == Len(log) - j + 1
           R == Rebase(log, j)
<1>1. Len(log) \in Nat /\ n \in Nat /\ n >= 1
  OBVIOUS
<1>2. \A k \in 1 .. Len(log) : log[k] \in Ckpt /\ log[k].ref \in Nat
  <2>1. \A k \in 1 .. Len(log) : log[k] \in Ckpt
    BY ElementOfSeq
  <2>2. QED
    BY <2>1 DEF Ckpt
<1>3. \A k \in 1 .. n : k + j - 1 \in 1 .. Len(log) /\ k + j - 1 >= j /\ k + j - 1 \in Nat
  BY <1>1
<1>4. DOMAIN R = 1 .. n
      /\ \A k \in 1 .. n : R[k] = [log[k + j - 1] EXCEPT !.ref = @ - log[j].ref]
  BY DEF Rebase
<1>5. ASSUME NEW k \in 1 .. n
      PROVE  R[k] \in Ckpt /\ R[k].ref = log[k + j - 1].ref - log[j].ref
  <2> DEFINE p == k + j - 1
  <2>1. p \in 1 .. Len(log) /\ j <= p /\ R[k] = [log[p] EXCEPT !.ref = @ - log[j].ref]
    BY <1>3, <1>4
  <2> HIDE DEF p
  <2>2. log[j].ref <= log[p].ref /\ log[p] \in Ckpt /\ log[p].ref \in Nat /\ log[j].ref \in Nat
    BY <1>2, <2>1
  <2>3. log[p].ref - log[j].ref \in Nat
    BY <2>2
  <2>4. R[k] \in Ckpt /\ R[k].ref = log[p].ref - log[j].ref
    BY <2>1, <2>2, <2>3 DEF Ckpt
  <2>5. QED
    BY <2>4 DEF p
<1>6. R = [k \in 1 .. n |-> R[k]]
  BY <1>4 DEF Rebase
<1> HIDE DEF R
<1>7. R \in Seq(Ckpt) /\ Len(R) = n
  <2>1. R \in [1 .. n -> Ckpt]
    <3> HIDE DEF n
    <3>1. QED
      BY <1>5, <1>6
  <2>2. QED
    BY <1>1, <2>1
<1>8. QED
  BY <1>3, <1>4, <1>5, <1>7 DEF R

\* An index of what is left of a log is an index of the log before it was cut.
LEMMA ShiftTells ==
  ASSUME NEW n \in Nat, NEW a \in Nat, NEW k \in 1 .. n - a
  PROVE  k + a \in 1 .. n /\ k + a > a
OBVIOUS

\* The log of an LP is cut at its last checkpoint before the GVT.
Collects(th, D, m, i, j, a, n) ==
  /\ i = FossilIdx(D, gvt[th]) /\ i # 0 /\ j = LogAt(logs[D], i) /\ a = logs[D][j].ref
  /\ n = Len(p_msgs[D])
  /\ Takes(th, D, m, DeadMsgs(D, a))
  /\ p_msgs'[D] = SubSeq(p_msgs[D], a + 1, n)
  /\ logs'[D] = Rebase(logs[D], j)
  /\ bound'[D] = IF p_msgs'[D] = <<>> THEN -1 ELSE bound[D]

\* fossil_lp_collect keeps the invariant: it frees messages that no rollback will need, and
\* the first checkpoint left is where the log now begins.
LEMMA FossilStep ==
  ASSUME IInv, NEW th \in Threads, NEW D \in LPs, NEW m \in Msgs, NEW i \in Nat,
         NEW j \in Nat, NEW a \in Nat, NEW n \in Nat,
         Collects(th, D, m, i, j, a, n)
  PROVE  IInv' /\ [Life!Next]_(Life!vars)
<1>0. /\ i = FossilIdx(D, gvt[th]) /\ i # 0 /\ j = LogAt(logs[D], i) /\ a = logs[D][j].ref
      /\ n = Len(p_msgs[D])
      /\ Takes(th, D, m, DeadMsgs(D, a))
      /\ p_msgs'[D] = SubSeq(p_msgs[D], a + 1, n)
      /\ logs'[D] = Rebase(logs[D], j)
      /\ bound'[D] = IF p_msgs'[D] = <<>> THEN -1 ELSE bound[D]
  BY DEF Collects
<1>1. /\ Shapes' /\ Acts(th, D) /\ ThreadFits(th)' /\ Rid[D] = th
      /\ pc'[th] = "extracted" /\ cur'[th] = m
  BY <1>0, TakesTells
<1>2. /\ pc[th] = "idle" /\ UNCHANGED <<msg, gvt>> /\ LpFits(D) /\ Shapes /\ LogTyped(D)
      /\ live' = live \ DeadMsgs(D, a) /\ marked' = marked \ DeadMsgs(D, a)
      /\ gvt[th] \in Nat /\ MaxT \in Nat
  <2>1. /\ pc[th] = "idle" /\ UNCHANGED <<msg, gvt>>
        /\ live' = live \ DeadMsgs(D, a) /\ marked' = marked \ DeadMsgs(D, a)
    BY <1>0 DEF Takes
  <2>2. LpFits(D) /\ Shapes
    BY DEF IInv
  <2>3. LogTyped(D) /\ gvt[th] \in 0 .. MaxT + 1
    <3> HIDE DEF LogTyped
    <3>1. QED
      BY <2>2, LogTypes, HandTypes
  <2>4. QED
    BY <2>1, <2>2, <2>3, Numbers
<1>3. i \in PastIdx(D) /\ i \in Nat /\ TimeOf(D, i) < gvt[th] /\ logs[D][1].ref <= i
  BY <1>0, <1>2, FossilTells
<1>4. /\ j \in 1 .. Len(logs[D]) /\ a <= i /\ a \in Nat /\ a \in {0} \cup PastIdx(D)
      /\ \A k, l \in 1 .. Len(logs[D]) : k <= l => logs[D][k].ref <= logs[D][l].ref
      /\ \A k \in 1 .. Len(logs[D]) :
           logs[D][k].ref \in {0} \cup PastIdx(D) /\ logs[D][k].ref \in Nat
  BY <1>0, <1>3, LogAtTells
<1>5. logs[D] \in Seq(Ckpt) /\ Len(logs[D]) \in Nat
  BY FirstRef DEF Ckpt
<1>6. n \in Nat /\ i <= n /\ a <= n /\ i \in 1 .. n /\ \A l \in PastIdx(D) : l \in 1 .. n
  BY SMTT(30), <1>0, <1>2, <1>3, <1>4
<1>7. IsCut(D, a, n)
  <2>1. Shapes /\ n <= Len(p_msgs[D])
    BY <1>0, <1>2, <1>6
  <2>2. QED
    BY <1>0, <1>1, <1>6, <2>1, LogIsCut
<1>8. /\ PastIdx(D)' \subseteq 1 .. n - a /\ SentIdx(D)' \subseteq 1 .. n - a
      /\ Len(p_msgs'[D]) = n - a
      /\ p_msgs'[D] = <<>> <=> a = n
      /\ \A k \in 1 .. n - a :
           /\ p_msgs'[D][k] = p_msgs[D][k + a] /\ k + a \in 1 .. n /\ k + a > a
           /\ k \in PastIdx(D)' <=> k + a \in PastIdx(D)
           /\ k \in SentIdx(D)' <=> k + a \in SentIdx(D)
           /\ TimeOf(D, k)' = TimeOf(D, k + a) /\ RankOf(D, k)' = RankOf(D, k + a)
  <2>1. ASSUME NEW k \in 1 .. n - a PROVE k + a \in 1 .. n /\ k + a > a
    BY ShiftTells
  <2>2. \A k \in 1 .. n - a : p_msgs'[D][k] = p_msgs[D][k + a]
    BY <1>7 DEF IsCut
  <2>3. \A k \in 1 .. n - a : TimeOf(D, k)' = TimeOf(D, k + a) /\ RankOf(D, k)' = RankOf(D, k + a)
    BY <1>2, <2>2 DEF TimeOf, RankOf
  <2>4. QED
    BY <1>7, <2>1, <2>2, <2>3 DEF IsCut
<1>9. /\ RollingBack(D) = {} /\ Running(D) = {} /\ Undone(D) = {}
      /\ LoggedOf(D) = PastMsgs(D)
      /\ n \in PastIdx(D)
  <2>1. p_msgs[D] # <<>>
    BY <1>0, <1>2, <1>6
  <2>2. QED
    BY <1>0, <1>1, <1>2, <2>1, IdleTells
<1>10. RollingBack(D)' = {} /\ Running(D)' = {} /\ Undone(D)' = {}
  BY <1>1, HomeTells DEF IsUndone, Rollbacks
<1>11. /\ \A lp \in LPs : \A k \in SentIdx(lp) :
            MayUndo(lp, k) => p_msgs[lp][k].m \notin DeadMsgs(D, a)
       /\ DeadMsgs(D, a) \subseteq LoggedOf(D)
  BY <1>1, <1>2, <1>3, <1>4, DeadAreCommitted
<1>12. \A lp \in LPs : \A k \in SentIdx(lp) : MayUndo(lp, k) => p_msgs[lp][k].m \in marked'
  BY <1>2, <1>11, MayUndoIsRecent
<1>13. \A k \in 1 .. n - a : k \in PastIdx(D)' =>
         p_msgs'[D][k].m \in PastMsgs(D) /\ p_msgs'[D][k].m \notin DeadMsgs(D, a)
  <2>1. ASSUME NEW k \in 1 .. n - a, k \in PastIdx(D)', NEW l \in PastIdx(D), l <= a
        PROVE  p_msgs[D][k + a].m # p_msgs[D][l].m
    <3> DEFINE p == k + a
    <3>1. p \in PastIdx(D) /\ l # p
      BY <1>6, <1>8, <2>1
    <3> HIDE DEF p
    <3>2. p_msgs[D][p].m # p_msgs[D][l].m
      BY <3>1, PastTells
    <3>3. QED
      BY <3>2 DEF p
  <2>2. ASSUME NEW k \in 1 .. n - a, k \in PastIdx(D)'
        PROVE  p_msgs'[D][k].m \in PastMsgs(D) /\ p_msgs'[D][k].m \notin DeadMsgs(D, a)
    <3> DEFINE p == k + a
    <3>1. p \in PastIdx(D) /\ p_msgs'[D][k] = p_msgs[D][p]
      BY <1>8, <2>2
    <3>2. \A l \in PastIdx(D) : l <= a => p_msgs[D][p].m # p_msgs[D][l].m
      BY <2>1, <2>2
    <3> HIDE DEF p
    <3>3. QED
      BY <3>1, <3>2 DEF DeadMsgs, PastMsgs
  <2>3. QED
    BY <2>2
<1>14. \A y \in PastMsgs(D)' : y \in PastMsgs(D) /\ y \notin DeadMsgs(D, a)
  BY <1>8, <1>13 DEF PastMsgs
<1>15. \A k \in PastIdx(D) : k > a => k - a \in PastIdx(D)' /\ k - a \in 1 .. n - a
                                    /\ k - a + a = k /\ k \in Nat
  <2>1. SUFFICES ASSUME NEW k \in PastIdx(D), k > a
                 PROVE  k - a \in PastIdx(D)' /\ k - a \in 1 .. n - a /\ k - a + a = k /\ k \in Nat
    OBVIOUS
  <2>2. k \in 1 .. n
    BY <1>6
  <2>3. k - a \in 1 .. n - a /\ k - a + a = k /\ k \in Nat
    BY <2>1, <2>2
  <2>4. k - a \in PastIdx(D)' <=> k - a + a \in PastIdx(D)
    BY <1>8, <2>3
  <2>5. QED
    BY <2>3, <2>4
<1>16. LogInOrder(D)'
  <2>1. \A y \in PastMsgs(D)' : msg'[y].dest = D /\ y \in live'
    BY <1>2, <1>14 DEF LpFits, LogInOrder
  <2>2. ASSUME NEW k \in PastIdx(D)', NEW l \in PastIdx(D)', k < l
        PROVE  p_msgs'[D][k].m # p_msgs'[D][l].m /\ TimeOf(D, k)' <= TimeOf(D, l)'
    <3>1. k \in 1 .. n - a /\ l \in 1 .. n - a
      BY <1>8
    <3>3. k + a < l + a
      BY <2>2, <3>1
    <3>4. k + a \in PastIdx(D) /\ l + a \in PastIdx(D)
      BY <1>8, <3>1
    <3>5. /\ p_msgs[D][k + a].m # p_msgs[D][l + a].m /\ TimeOf(D, k + a) <= TimeOf(D, l + a)
      BY <1>2, <3>3, <3>4 DEF LpFits, LogInOrder
    <3>2. QED
      BY <1>8, <3>1, <3>5
  <2>3. a = n \/ n - a \in PastIdx(D)'
    <3>1. a # n => n > a
      BY <1>4, <1>6
    <3>2. QED
      BY <1>9, <1>15, <3>1
  <2>4. QED
    BY <1>8, <2>1, <2>2, <2>3 DEF LogInOrder
<1>17. BoundFits(D)'
  <2>1. p_msgs'[D] = <<>> => bound'[D] = -1 /\ PastIdx(D)' = {}
    <3>1. a = n => 1 .. n - a = {}
      OBVIOUS
    <3>2. QED
      BY <1>0, <1>8, <3>1
  <2>2. ASSUME NEW k \in PastIdx(D)', p_msgs'[D] # <<>>
        PROVE  TimeOf(D, k)' <= bound'[D]
    <3>1. k + a \in PastIdx(D) /\ TimeOf(D, k)' = TimeOf(D, k + a) /\ bound'[D] = bound[D]
      BY <1>0, <1>8, <2>2
    <3>2. QED
      BY <1>2, <3>1 DEF LpFits, BoundFits
  <2>3. QED
    BY <2>1, <2>2 DEF BoundFits
<1>18. /\ Len(logs'[D]) = Len(logs[D]) - j + 1 /\ Len(logs'[D]) >= 1
       /\ DOMAIN logs'[D] = 1 .. Len(logs[D]) - j + 1
       /\ \A k \in 1 .. Len(logs[D]) - j + 1 :
            /\ k + j - 1 \in 1 .. Len(logs[D]) /\ k + j - 1 >= j
            /\ logs'[D][k].ref = logs[D][k + j - 1].ref - a
  <2> DEFINE log == logs[D]
             R == Rebase(log, j)
  <2>1. log \in Seq(Ckpt) /\ j \in 1 .. Len(log)
        /\ \A k, l \in 1 .. Len(log) : k <= l => log[k].ref <= log[l].ref
    BY <1>4, <1>5
  <2>2. logs'[D] = R /\ a = log[j].ref /\ log = logs[D]
    BY <1>0
  <2> HIDE DEF log
  <2>3. /\ Len(R) = Len(log) - j + 1 /\ R \in Seq(Ckpt)
        /\ DOMAIN R = 1 .. Len(log) - j + 1
        /\ \A k \in 1 .. Len(log) - j + 1 :
             k + j - 1 \in 1 .. Len(log) /\ k + j - 1 >= j
             /\ R[k].ref = log[k + j - 1].ref - log[j].ref
    BY <2>1, RebaseTells
  <2> HIDE DEF R
  <2>4. Len(R) >= 1
    BY <1>5, <2>1, <2>2, <2>3
  <2>5. QED
    BY <2>2, <2>3, <2>4 DEF log
<1>19. CheckpointsFit(D)'
  <2>1. logs'[D] # <<>>
    BY <1>18
  <2>2. ASSUME NEW k \in 1 .. Len(logs[D]) - j + 1
        PROVE  logs'[D][k].ref \in {0} \cup PastIdx(D)'
    <3> DEFINE p == k + j - 1
               b == logs[D][p].ref
    <3>1. p \in 1 .. Len(logs[D]) /\ j <= p /\ logs'[D][k].ref = b - a
      BY <1>18
    <3>2. b \in {0} \cup PastIdx(D) /\ b \in Nat /\ a <= b
      BY <1>0, <1>4, <3>1
    <3> HIDE DEF p, b
    <3>3. CASE b = a
      BY <3>1, <3>3
    <3>4. CASE b > a
      <4>1. b \in PastIdx(D)
        BY <1>4, <3>2, <3>4
      <4>2. QED
        BY <1>15, <3>1, <3>4, <4>1
    <3>5. QED
      BY <1>4, <3>2, <3>3, <3>4
  <2>3. ASSUME NEW k \in 1 .. Len(logs[D]) - j + 1, NEW l \in 1 .. Len(logs[D]) - j + 1, k <= l
        PROVE  logs'[D][k].ref <= logs'[D][l].ref
    <3> DEFINE p == k + j - 1
               q == l + j - 1
    <3>1. /\ p \in 1 .. Len(logs[D]) /\ logs'[D][k].ref = logs[D][p].ref - a
          /\ q \in 1 .. Len(logs[D]) /\ logs'[D][l].ref = logs[D][q].ref - a
      BY <1>18
    <3>2. p <= q
      BY <1>4, <1>5, <2>3
    <3> HIDE DEF p, q
    <3> DEFINE x == logs[D][p].ref
               y == logs[D][q].ref
    <3>3. x <= y /\ x \in Nat /\ y \in Nat
      BY <1>4, <3>1, <3>2
    <3>4. logs'[D][k].ref = x - a /\ logs'[D][l].ref = y - a
      BY <3>1
    <3> HIDE DEF x, y
    <3>5. x - a <= y - a
      BY <3>3
    <3>6. QED
      BY <3>4, <3>5
  <2>4. QED
    BY <1>18, <2>1, <2>2, <2>3 DEF CheckpointsFit
<1>20. FirstStays(D)'
  <2>1. logs[D][1].ref <= a /\ logs[D][1].ref \in Nat
    <3>1. 1 \in 1 .. Len(logs[D]) /\ 1 <= j
      BY <1>4, <1>5
    <3>2. QED
      BY <1>0, <1>4, <3>1
  <2>2. logs'[D][1].ref = 0
    <3>1. 1 \in 1 .. Len(logs[D]) - j + 1 /\ 1 + j - 1 = j
      BY <1>4, <1>5
    <3>2. logs'[D][1].ref = logs[D][1 + j - 1].ref - a
      BY <1>18, <3>1
    <3>3. logs'[D][1].ref = a - a
      BY <1>0, <3>1, <3>2
    <3>4. QED
      BY <3>3
  <2>3. ASSUME NEW k \in PastIdx(D)' PROVE RankOf(D, k)' # InitTy /\ 0 <= k
    <3>1. k + a \in PastIdx(D) /\ k + a > a /\ RankOf(D, k)' = RankOf(D, k + a) /\ k \in 1 .. n - a
      BY <1>8
    <3>2. k + a # logs[D][1].ref
      BY <1>4, <2>1, <3>1
    <3>3. QED
      BY <1>2, <3>1, <3>2 DEF LpFits, FirstStays
  <2>4. ASSUME NEW k \in SentIdx(D)' PROVE RankOf(D, k)' < InitTy /\ TimeOf(D, k)' # 0
    <3>1. /\ k + a \in SentIdx(D) /\ k + a > a /\ k \in 1 .. n - a
          /\ RankOf(D, k)' = RankOf(D, k + a) /\ TimeOf(D, k)' = TimeOf(D, k + a)
      BY <1>8
    <3>2. ~ (k + a < logs[D][1].ref)
      BY <1>4, <2>1, <3>1
    <3>3. QED
      BY <1>2, <3>1, <3>2 DEF LpFits, FirstStays
  <2>5. QED
    BY <1>10, <2>2, <2>3, <2>4 DEF FirstStays
<1>21. ASSUME NEW k \in SentIdx(D)', MayUndo(D, k)'
       PROVE  /\ k + a \in SentIdx(D) /\ MayUndo(D, k + a)
              /\ p_msgs'[D][k].m = p_msgs[D][k + a].m
              /\ TimeOf(D, k)' = TimeOf(D, k + a) /\ k \in 1 .. n - a
  <2>1. /\ k + a \in SentIdx(D) /\ k \in 1 .. n - a /\ p_msgs'[D][k] = p_msgs[D][k + a]
        /\ TimeOf(D, k)' = TimeOf(D, k + a)
    BY <1>8
  <2>2. ASSUME NEW l \in PastIdx(D), l > k + a, NEW y \in Threads
        PROVE  gvt[y] <= TimeOf(D, l)
    <3>1. l > a /\ l \in Nat
      BY <1>6, <2>1, <2>2
    <3>2. l - a \in PastIdx(D)' /\ l - a \in 1 .. n - a /\ l - a + a = l
      BY <1>15, <3>1
    <3>3. l - a > k
      BY <1>4, <2>1, <2>2, <3>1
    <3>4. TimeOf(D, l - a)' = TimeOf(D, l)
      BY <1>8, <3>2
    <3>5. gvt'[y] <= TimeOf(D, l - a)'
      BY <1>21, <3>2, <3>3 DEF MayUndo
    <3>6. QED
      BY <1>2, <3>4, <3>5
  <2>3. QED
    BY <1>9, <2>1, <2>2 DEF MayUndo
<1>22. SentIsMarked(D)'
  <2>1. ASSUME NEW k \in SentIdx(D)', MayUndo(D, k)'
        PROVE  /\ p_msgs'[D][k].m \in marked'
               /\ \E l \in PastIdx(D)' : l > k /\ TimeOf(D, l)' <= TimeOf(D, k)'
    <3>1. /\ k + a \in SentIdx(D) /\ MayUndo(D, k + a) /\ p_msgs'[D][k].m = p_msgs[D][k + a].m
          /\ TimeOf(D, k)' = TimeOf(D, k + a) /\ k \in 1 .. n - a
      BY <1>21, <2>1
    <3>2. PICK l \in PastIdx(D) : l > k + a /\ TimeOf(D, l) <= TimeOf(D, k + a)
      BY <1>2, <1>9, <3>1 DEF LpFits, SentIsMarked
    <3>3. l > a /\ l \in Nat
      BY <1>6, <3>1, <3>2
    <3>4. l - a \in PastIdx(D)' /\ l - a \in 1 .. n - a /\ l - a + a = l
      BY <1>15, <3>3
    <3>5. l - a > k
      BY <1>4, <3>1, <3>2, <3>3
    <3>6. TimeOf(D, l - a)' = TimeOf(D, l)
      BY <1>8, <3>4
    <3>7. TimeOf(D, l - a)' <= TimeOf(D, k)'
      BY <3>1, <3>2, <3>6
    <3>8. QED
      BY <1>12, <3>1, <3>4, <3>5, <3>7
  <2>2. QED
    BY <2>1 DEF SentIsMarked
<1>23. LpFits(D)'
  BY <1>16, <1>17, <1>19, <1>20, <1>22 DEF LpFits
<1>24. MarksStay(D)
  BY <1>12 DEF MarksStay
<1>25. SentOnce'
  <2>1. \A k \in SentIdx(D)' : MayUndo(D, k)' =>
            /\ k + a \in SentIdx(D) /\ MayUndo(D, k + a)
            /\ p_msgs'[D][k].m = p_msgs[D][k + a].m
    BY <1>21
  <2>2. QED
    BY <1>1, <1>4, <1>24, <2>1, SentOnceStays
<1>26. LoggedOf(D)' = LoggedOf(D) \ DeadMsgs(D, a)
  <2>1. LoggedOf(D)' = PastMsgs(D)'
    BY <1>10 DEF LoggedOf, PastMsgs, StandingIdx
  <2>2. ASSUME NEW y \in PastMsgs(D), y \notin DeadMsgs(D, a) PROVE y \in PastMsgs(D)'
    <3>1. PICK k \in PastIdx(D) : y = p_msgs[D][k].m
      BY DEF PastMsgs
    <3>2. ~ (k <= a)
      BY <2>2, <3>1 DEF DeadMsgs
    <3>3. k > a
      BY <1>2, <1>4, <3>2
    <3>4. k - a \in PastIdx(D)' /\ k - a \in 1 .. n - a /\ k - a + a = k
      BY <1>15, <3>3
    <3>5. p_msgs'[D][k - a] = p_msgs[D][k]
      BY <1>8, <3>4
    <3>6. QED
      BY <3>1, <3>4, <3>5 DEF PastMsgs
  <2>3. QED
    BY <1>9, <1>14, <2>1, <2>2
<1>27. QED
  BY <1>0, <1>23, <1>24, <1>25, <1>26, TakesStep

\* msg_queue_extract, and the collection of fossils that follows it.
LEMMA ExtractStep ==
  ASSUME IInv, NEW th \in Threads, NEW D \in LPs, NEW m \in Msgs,
         cur'[th] = m, msg[m].dest = D, Extract(th)
  PROVE  IInv' /\ [Life!Next]_(Life!vars)
<1>1. /\ Shapes /\ LogTyped(D) /\ gvt[th] \in Nat /\ MaxT \in Nat
      /\ cur \in [Threads -> Msgs] /\ p_msgs \in [LPs -> Seq(Entry)]
      /\ logs \in [LPs -> Seq(Ckpt)] /\ bound \in [LPs -> -1 .. MaxT]
  <2>1. Shapes /\ MaxT \in Nat
    BY Numbers DEF IInv
  <2>2. LogTyped(D)
    BY <2>1, LogTypes
  <2>3. gvt[th] \in Nat
    BY <2>1, HandTypes
  <2>4. QED
    BY <2>1, <2>2, <2>3 DEF Shapes, Ckpt
<1>2. /\ pc[th] = "idle" /\ m \in heap[th] \cup list[th]
      /\ list' = [list EXCEPT ![th] = {}]
      /\ heap' = [heap EXCEPT ![th] = (heap[th] \cup list[th]) \ {m}]
      /\ cur' = [cur EXCEPT ![th] = m]
      /\ pc' = [pc EXCEPT ![th] = "extracted"]
      /\ \/ UNCHANGED <<p_msgs, logs, live, marked, bound>>
         \/ /\ FossilCollect(D, gvt[th])
            /\ bound' = [bound EXCEPT ![D] = IF p_msgs'[D] = <<>> THEN -1 ELSE @]
      /\ UNCHANGED <<msg, flags, state, gvt, past_i, undo_i, outs>>
  <2>1. PICK x \in First(heap[th] \cup list[th]) :
           /\ list' = [list EXCEPT ![th] = {}]
           /\ heap' = [heap EXCEPT ![th] = (heap[th] \cup list[th]) \ {x}]
           /\ cur' = [cur EXCEPT ![th] = x]
           /\ pc' = [pc EXCEPT ![th] = "extracted"]
           /\ IF epoch[msg[x].dest] # gvt[th]
              THEN /\ FossilCollect(msg[x].dest, gvt[th])
                   /\ bound' = [bound EXCEPT ![msg[x].dest] =
                                  IF p_msgs'[msg[x].dest] = <<>> THEN -1 ELSE @]
              ELSE UNCHANGED <<p_msgs, logs, epoch, live, marked, bound>>
    BY DEF Extract
  <2>2. x = m
    BY <1>1, <2>1
  <2>3. m \in heap[th] \cup list[th]
    BY <2>2 DEF First
  <2>4. pc[th] = "idle" /\ UNCHANGED <<msg, flags, state, gvt, past_i, undo_i, outs>>
    BY DEF Extract
  <2>5. QED
    BY <2>1, <2>2, <2>3, <2>4
<1>3. Rid[D] = th
  BY <1>2 DEF IInv, QueuesFit
<1>4. ASSUME UNCHANGED <<p_msgs, logs, live, marked>>, bound' \in [LPs -> -1 .. MaxT],
             \A lp \in LPs \ {D} : bound'[lp] = bound[lp],
             bound'[D] = bound[D] \/ (bound'[D] = -1 /\ p_msgs[D] = <<>>)
      PROVE  IInv' /\ [Life!Next]_(Life!vars)
  <2>1. Takes(th, D, m, {})
    BY <1>1, <1>2, <1>4 DEF Takes
  <2>2. QED
    BY <1>4, <2>1, TakesQuietly
<1>5. CASE UNCHANGED <<p_msgs, logs, live, marked, bound>>
  BY <1>1, <1>4, <1>5
<1>6. ASSUME FossilCollect(D, gvt[th]),
             bound' = [bound EXCEPT ![D] = IF p_msgs'[D] = <<>> THEN -1 ELSE @]
      PROVE  IInv' /\ [Life!Next]_(Life!vars)
  <2> DEFINE i == FossilIdx(D, gvt[th])
             j == LogAt(logs[D], i)
             a == logs[D][j].ref
             n == Len(p_msgs[D])
  <2>1. /\ bound' \in [LPs -> -1 .. MaxT]
        /\ \A lp \in LPs \ {D} : bound'[lp] = bound[lp]
        /\ bound'[D] = IF p_msgs'[D] = <<>> THEN -1 ELSE bound[D]
    <3>1. -1 \in -1 .. MaxT
      BY <1>1
    <3>2. QED
      BY <1>1, <1>6, <3>1
  <2>2. CASE i = 0
    <3>1. UNCHANGED <<p_msgs, logs, live, marked>>
      BY <1>6, <2>2 DEF FossilCollect
    <3>2. QED
      BY <1>4, <2>1, <3>1
  <2>3. CASE i # 0
    <3>1. /\ p_msgs' = [p_msgs EXCEPT ![D] = SubSeq(p_msgs[D], a + 1, n)]
          /\ logs' = [logs EXCEPT ![D] = Rebase(@, j)]
          /\ live' = live \ DeadMsgs(D, a)
          /\ marked' = marked \ DeadMsgs(D, a)
      BY <1>6, <2>3 DEF FossilCollect, DeadMsgs
    <3>2. i \in PastIdx(D) /\ i \in Nat /\ TimeOf(D, i) < gvt[th] /\ logs[D][1].ref <= i
      BY <1>1, <2>3, FossilTells
    <3> HIDE DEF i
    <3>3. /\ j \in 1 .. Len(logs[D]) /\ a <= i /\ a \in Nat /\ j \in Nat
          /\ \A k, l \in 1 .. Len(logs[D]) : k <= l => logs[D][k].ref <= logs[D][l].ref
      BY <3>2, LogAtTells
    <3> HIDE DEF j
    <3> HIDE DEF a
    <3>4. n \in Nat /\ a <= n
      BY <1>1, <3>2, <3>3
    <3>5. SubSeq(p_msgs[D], a + 1, n) \in Seq(Entry)
      <4>1. \A k \in a + 1 .. n : p_msgs[D][k] \in Entry
        BY <1>1, <3>3
      <4> HIDE DEF n
      <4>2. QED
        BY <3>3, <3>4, <4>1, SubSeqProperties
    <3>6. Rebase(logs[D], j) \in Seq(Ckpt)
      <4>1. logs[D] \in Seq(Ckpt)
        BY <1>1
      <4>2. QED
        BY <3>3, <4>1, RebaseTells
    <3>7. /\ p_msgs' \in [LPs -> Seq(Entry)] /\ logs' \in [LPs -> Seq(Ckpt)]
          /\ p_msgs'[D] = SubSeq(p_msgs[D], a + 1, n) /\ logs'[D] = Rebase(logs[D], j)
          /\ \A lp \in LPs \ {D} : p_msgs'[lp] = p_msgs[lp] /\ logs'[lp] = logs[lp]
      BY <1>1, <3>1, <3>5, <3>6
    <3>8. /\ DeadMsgs(D, a) \subseteq LoggedOf(D)
          /\ \A y \in DeadMsgs(D, a) : flags[y] = PROCESSED
      BY <1>2, <1>3, <3>2, <3>3, DeadAreCommitted
    <3>9. Takes(th, D, m, DeadMsgs(D, a))
      BY <1>2, <2>1, <3>1, <3>7, <3>8 DEF Takes
    <3>10. /\ i = FossilIdx(D, gvt[th]) /\ j = LogAt(logs[D], i) /\ a = logs[D][j].ref
           /\ n = Len(p_msgs[D])
      BY DEF i, j, a
    <3> HIDE DEF n
    <3>11. /\ i \in Nat /\ j \in Nat /\ a \in Nat /\ n \in Nat /\ i # 0
           /\ p_msgs'[D] = SubSeq(p_msgs[D], a + 1, n) /\ logs'[D] = Rebase(logs[D], j)
           /\ bound'[D] = IF p_msgs'[D] = <<>> THEN -1 ELSE bound[D]
      BY <2>1, <2>3, <3>2, <3>3, <3>4, <3>7
    <3>12. Collects(th, D, m, i, j, a, n)
      BY <3>9, <3>10, <3>11 DEF Collects
    <3>13. QED
      BY <3>11, <3>12, FossilStep
  <2>4. QED
    BY <2>2, <2>3
<1>7. QED
  BY <1>2, <1>5, <1>6

-----------------------------------------------------------------------------
(***************************************************************************)
(* ScheduleNewEvent: a message is allocated, queued and logged as sent.    *)
(***************************************************************************)
\* The address it gets, and what it holds.
LEMMA FreshTells ==
  ASSUME IInv, NEW th \in Threads, NEW m \in Msgs, NEW x, NEW o,
         cur[th] = m, pc[th] = "send", outs[th] # <<>>, Msgs \ live # {},
         x = Fresh, o = Head(outs[th])
  PROVE  /\ x \in Msgs /\ x \notin live /\ x # m
         /\ o \in MsgRec /\ o.t >= msg[m].t /\ o.t > 0 /\ o.ty < InitTy
         /\ Tail(outs[th]) \in Seq(MsgRec)
         /\ \A k \in DOMAIN Tail(outs[th]) :
              LET p == Tail(outs[th])[k] IN
              p.t >= msg[m].t /\ p.t > 0 /\ p.ty < InitTy
<1>1. x \in Msgs \ live
  <2>1. Msgs \ live \in SUBSET Nat
    BY ConstAssumption
  <2>2. \E z \in Msgs \ live : \A y \in Msgs \ live : z <= y
    BY <2>1, LeastIsThere
  <2>3. QED
    BY <2>2 DEF Fresh
<1>2. m \in live
  BY HandsTell
<1>3. outs[th] \in Seq(MsgRec) /\ OutsFit(th)
  BY DEF IInv, Shapes, ThreadFits
<1> DEFINE s == outs[th]
           C == {p \in MsgRec : p.t >= msg[m].t /\ p.t > 0 /\ p.ty < InitTy}
<1>4. \A k \in 1 .. Len(s) : s[k] \in C
  <2>1. \A k \in 1 .. Len(s) : s[k] \in MsgRec
    BY <1>3, ElementOfSeq
  <2>2. QED
    BY <1>3, <2>1 DEF OutsFit
<1>5. s \in Seq(C) /\ s # <<>>
  <2>1. Len(s) \in Nat /\ s = [k \in 1 .. Len(s) |-> s[k]]
    BY <1>3
  <2> HIDE DEF C
  <2>2. QED
    BY <1>3, <1>4, <2>1
<1>6. Head(s) \in C /\ Tail(s) \in Seq(C)
  <2> HIDE DEF C, s
  <2>1. QED
    BY <1>5, HeadTailProperties
<1>7. \A k \in DOMAIN Tail(s) : Tail(s)[k] \in C
  <2> HIDE DEF C
  <2>1. QED
    BY <1>6, ElementOfSeq
<1>8. Tail(s) \in Seq(MsgRec)
  <2>1. C \subseteq MsgRec
    OBVIOUS
  <2> HIDE DEF C
  <2>2. QED
    BY <1>6, <2>1
<1>9. QED
  BY <1>1, <1>2, <1>6, <1>7, <1>8

\* ScheduleNewEvent keeps the invariant: the message is not before the event that sends it,
\* so neither the GVT nor a rollback bound is overtaken.
LEMMA ScheduleStep ==
  ASSUME IInv, NEW th \in Threads, NEW D \in LPs, NEW m \in Msgs, NEW x, NEW o, NEW n \in Nat,
         Dest(th) = D, cur[th] = m, x = Fresh, o = Head(outs[th]), n = Len(p_msgs[D]),
         ScheduleNewEvent(th)
  PROVE  IInv' /\ [Life!Next]_(Life!vars)
<1>1. /\ pc[th] = "send" /\ outs[th] # <<>> /\ Msgs \ live # {}
      /\ live' = live \cup {x} /\ marked' = marked \cup {x}
      /\ msg' = [msg EXCEPT ![x] = o]
      /\ flags' = [flags EXCEPT ![x] = 0]
      /\ list' = [list EXCEPT ![Rid[o.dest]] = @ \cup {x}]
      /\ p_msgs' = [p_msgs EXCEPT ![D] = Append(@, Sent(x))]
      /\ outs' = [outs EXCEPT ![th] = Tail(@)]
      /\ UNCHANGED <<heap, bound, state, logs, gvt, pc, cur, past_i, undo_i>>
  BY DEF ScheduleNewEvent, Dest
<1>2. /\ x \in Msgs /\ x \notin live /\ x # m
      /\ o \in MsgRec /\ o.t >= msg[m].t /\ o.t > 0 /\ o.ty < InitTy
      /\ Tail(outs[th]) \in Seq(MsgRec)
      /\ \A k \in DOMAIN Tail(outs[th]) :
           LET p == Tail(outs[th])[k] IN
           p.t >= msg[m].t /\ p.t > 0 /\ p.ty < InitTy
  BY <1>1, FreshTells
<1>3. /\ m \in live /\ Shapes /\ LpFits(D) /\ ThreadFits(th) /\ Rid[D] = th /\ m \in InHand
      /\ \A y \in Threads : gvt[y] <= msg[m].t /\ gvt[y] \in 0 .. MaxT + 1
  BY <1>1, HandsTell, HandTypes DEF IInv
<1>4. LogTyped(D)
  BY <1>3, LogTypes
<1>5. /\ msg \in [Msgs -> MsgRec] /\ list \in [Threads -> SUBSET Msgs]
      /\ p_msgs \in [LPs -> Seq(Entry)] /\ outs \in [Threads -> Seq(MsgRec)]
      /\ flags \in [Msgs -> 0 .. 5]
  BY <1>3 DEF Shapes, IInv, Life!IInv, Life!TypeOK
<1>6. /\ msg'[x] = o /\ flags'[x] = 0
      /\ \A y \in Msgs \ {x} : msg'[y] = msg[y] /\ flags'[y] = flags[y]
      /\ \A y \in live : y \in Msgs => msg'[y] = msg[y] /\ y # x
      /\ p_msgs'[D] = Append(p_msgs[D], Sent(x))
      /\ outs'[th] = Tail(outs[th])
  BY <1>1, <1>2, <1>5
<1>7. o.dest \in LPs /\ Rid[o.dest] \in Threads /\ o.t \in 0 .. MaxT /\ MaxT \in Nat
  BY <1>2, Numbers DEF MsgRec, Times
<1>8. Sent(x) \in Entry /\ Sent(x).k = "sent" /\ Sent(x).m = x
  BY <1>2 DEF Sent, Entry
<1>9. Shapes'
  <2>1. msg' \in [Msgs -> MsgRec]
    BY <1>1, <1>2, <1>5
  <2>2. list' \in [Threads -> SUBSET Msgs]
    BY <1>1, <1>2, <1>5, <1>7
  <2>3. p_msgs' \in [LPs -> Seq(Entry)]
    <3>1. Append(p_msgs[D], Sent(x)) \in Seq(Entry)
      BY <1>5, <1>8
    <3>2. QED
      BY <1>1, <1>5, <3>1
  <2>4. outs' \in [Threads -> Seq(MsgRec)]
    BY <1>1, <1>2, <1>5
  <2>5. QED
    BY <1>1, <1>3, <2>1, <2>2, <2>3, <2>4 DEF Shapes
<1>10. Dest(th)' = D
  BY <1>1, <1>2, <1>6 DEF Dest
<1>11. Acts(th, D)
  <2>1. \A y \in Threads \ {th} : outs'[y] = outs[y]
    BY <1>1, <1>5
  <2>2. \A lp \in LPs \ {D} : p_msgs'[lp] = p_msgs[lp]
    BY <1>1, <1>5
  <2>3. \A y \in Msgs : \/ msg'[y] = msg[y]
                        \/ y \notin live /\ msg'[y].ty < InitTy /\ msg'[y].t > 0
    BY <1>2, <1>6
  <2>4. QED
    BY <1>1, <1>3, <1>10, <2>1, <2>2, <2>3 DEF Acts
<1>12. /\ Len(p_msgs'[D]) = n + 1 /\ p_msgs'[D] # <<>>
       /\ \A k \in 1 .. n : p_msgs'[D][k] = p_msgs[D][k]
       /\ p_msgs'[D][n + 1].m = x
       /\ PastIdx(D)' = PastIdx(D)
       /\ SentIdx(D)' = SentIdx(D) \cup {n + 1}
  <2> DEFINE e == Sent(x)
  <2>1. e \in Entry /\ e.k = "sent" /\ e.m = x /\ p_msgs'[D] = Append(p_msgs[D], e)
    BY <1>6, <1>8
  <2>2. Shapes
    BY <1>3
  <2> HIDE DEF e
  <2>3. Grows(D, n, e)
    BY <1>9, <2>1, <2>2, LogGrows
  <2>4. QED
    BY <2>1, <2>3 DEF Grows
<1>13. /\ \A k \in PastIdx(D) \cup SentIdx(D) : k \in 1 .. n
       /\ \A k \in PastIdx(D) : p_msgs[D][k].m \in live /\ p_msgs[D][k].m \in Msgs
       /\ \A k \in SentIdx(D) : p_msgs[D][k].m \in Msgs
  BY <1>3, <1>4, PastTells
<1>14. /\ \A k \in PastIdx(D) : TimeOf(D, k)' = TimeOf(D, k) /\ RankOf(D, k)' = RankOf(D, k)
                                /\ p_msgs'[D][k] = p_msgs[D][k]
       /\ \A k \in SentIdx(D) :
            /\ p_msgs'[D][k] = p_msgs[D][k]
            /\ \/ TimeOf(D, k)' = TimeOf(D, k) /\ RankOf(D, k)' = RankOf(D, k)
               \/ TimeOf(D, k)' > 0 /\ RankOf(D, k)' < InitTy
            /\ p_msgs[D][k].m # x => TimeOf(D, k)' = TimeOf(D, k)
       /\ TimeOf(D, n + 1)' = o.t /\ RankOf(D, n + 1)' = o.ty
  <2>1. /\ \A k \in PastIdx(D) : p_msgs'[D][k] = p_msgs[D][k]
        /\ \A k \in SentIdx(D) : p_msgs'[D][k] = p_msgs[D][k]
    BY <1>12, <1>13
  <2>2. \A k \in PastIdx(D) : TimeOf(D, k)' = TimeOf(D, k) /\ RankOf(D, k)' = RankOf(D, k)
    BY <1>6, <1>13, <2>1 DEF TimeOf, RankOf
  <2>3. ASSUME NEW k \in SentIdx(D)
        PROVE  /\ \/ TimeOf(D, k)' = TimeOf(D, k) /\ RankOf(D, k)' = RankOf(D, k)
                  \/ TimeOf(D, k)' > 0 /\ RankOf(D, k)' < InitTy
               /\ p_msgs[D][k].m # x => TimeOf(D, k)' = TimeOf(D, k)
    <3>1. p_msgs'[D][k].m = p_msgs[D][k].m /\ p_msgs[D][k].m \in Msgs
      BY <1>13, <2>1
    <3>2. CASE p_msgs[D][k].m = x
      BY <1>2, <1>6, <3>1, <3>2 DEF TimeOf, RankOf
    <3>3. CASE p_msgs[D][k].m # x
      BY <1>6, <3>1, <3>3 DEF TimeOf, RankOf
    <3>4. QED
      BY <3>2, <3>3
  <2>4. TimeOf(D, n + 1)' = o.t /\ RankOf(D, n + 1)' = o.ty
    BY <1>6, <1>12 DEF TimeOf, RankOf
  <2>5. QED
    BY <2>1, <2>2, <2>3, <2>4
<1>15. PastMsgs(D)' = PastMsgs(D)
  BY <1>12, <1>14 DEF PastMsgs
<1>16. /\ Undone(D) = {} /\ Undone(D)' = {} /\ RollingBack(D)' = {} /\ th \in Running(D)'
       /\ \A y \in Running(D) : y = th
  BY <1>1, <1>9, <1>11, HomeTells DEF IsUndone, Rollbacks
<1>17. LogInOrder(D)'
  <2>1. \A y \in PastMsgs(D)' : msg'[y].dest = D /\ y \in live'
    <3>1. \A y \in PastMsgs(D) : msg[y].dest = D /\ y \in live /\ y \in Msgs
      BY <1>3, <1>13 DEF LpFits, LogInOrder, PastMsgs
    <3>2. QED
      BY <1>1, <1>6, <1>15, <3>1
  <2>2. ASSUME NEW k \in PastIdx(D)', NEW l \in PastIdx(D)', k < l
        PROVE  p_msgs'[D][k].m # p_msgs'[D][l].m /\ TimeOf(D, k)' <= TimeOf(D, l)'
    BY <1>3, <1>12, <1>14, <2>2 DEF LpFits, LogInOrder
  <2>3. \E y \in Running(D)' : pc'[y] = "send"
    BY <1>1, <1>16
  <2>4. QED
    BY <2>1, <2>2, <2>3 DEF LogInOrder
<1>18. BoundFits(D)'
  <2>1. \A k \in PastIdx(D) : TimeOf(D, k) <= bound[D]
    BY <1>3 DEF LpFits, BoundFits
  <2>2. \A k \in PastIdx(D)' : TimeOf(D, k)' <= bound'[D]
    BY <1>1, <1>12, <1>14, <2>1
  <2>3. QED
    BY <1>12, <2>2 DEF BoundFits
<1>19. CheckpointsFit(D)'
  BY <1>1, <1>3, <1>12 DEF LpFits, CheckpointsFit
<1>20. FirstStays(D)'
  <2> DEFINE r == logs[D][1].ref
  <2>1. FirstStays(D) /\ logs'[D][1].ref = r
    BY <1>1, <1>3 DEF LpFits
  <2>2. r # 0 => r \in PastIdx(D)' /\ TimeOf(D, r)' = 0 /\ RankOf(D, r)' = InitTy
    BY <1>12, <1>14, <2>1 DEF FirstStays
  <2>3. \A k \in PastIdx(D)' : r <= k /\ (RankOf(D, k)' = InitTy => k = r)
    BY <1>12, <1>14, <2>1 DEF FirstStays
  <2>4. ASSUME NEW k \in SentIdx(D)'
        PROVE  RankOf(D, k)' < InitTy /\ (TimeOf(D, k)' = 0 => k < r)
    <3>1. CASE k \in SentIdx(D)
      BY <1>14, <2>1, <3>1 DEF FirstStays
    <3>2. CASE k = n + 1
      BY <1>2, <1>14, <3>2
    <3>3. QED
      BY <1>12, <3>1, <3>2
  <2>5. QED
    BY <1>1, <1>16, <2>1, <2>2, <2>3, <2>4 DEF FirstStays, TimeOf, RankOf
<1>21. ASSUME NEW k \in SentIdx(D)', MayUndo(D, k)', k # n + 1
       PROVE  /\ k \in SentIdx(D) /\ MayUndo(D, k) /\ p_msgs'[D][k].m = p_msgs[D][k].m
              /\ p_msgs[D][k].m \in marked /\ p_msgs[D][k].m # x
              /\ TimeOf(D, k)' = TimeOf(D, k)
  <2>1. k \in SentIdx(D) /\ k \in 1 .. n
    BY <1>12, <1>13, <1>21
  <2>2. MayUndo(D, k)
    BY <1>1, <1>12, <1>14, <1>16, <1>21, <2>1 DEF MayUndo
  <2>3. p_msgs[D][k].m \in marked
    BY <2>1, <2>2, MayUndoIsRecent
  <2>4. p_msgs[D][k].m # x
    BY <1>2, <1>13, <2>1, <2>3, LifeTells DEF IInv
  <2>5. QED
    BY <1>14, <2>1, <2>2, <2>3, <2>4
<1>22. SentIsMarked(D)'
  <2>1. ASSUME NEW k \in SentIdx(D)', MayUndo(D, k)'
        PROVE  /\ p_msgs'[D][k].m \in marked'
               /\ \/ \E l \in PastIdx(D)' : l > k /\ TimeOf(D, l)' <= TimeOf(D, k)'
                  \/ \E y \in Running(D)' : pc'[y] = "send" /\ msg'[cur'[y]].t <= TimeOf(D, k)'
    <3>1. /\ pc'[th] = "send" /\ msg'[cur'[th]] = msg[m]
      BY <1>1, <1>2, <1>6
    <3>2. CASE k = n + 1
      <4>1. p_msgs'[D][k].m \in marked'
        BY <1>1, <1>12, <3>2
      <4>2. msg'[cur'[th]].t <= TimeOf(D, k)'
        BY <1>2, <1>7, <1>14, <3>1, <3>2
      <4>3. QED
        BY <1>16, <3>1, <4>1, <4>2
    <3>3. CASE k # n + 1
      <4>1. /\ k \in SentIdx(D) /\ MayUndo(D, k) /\ p_msgs'[D][k].m = p_msgs[D][k].m
            /\ p_msgs[D][k].m \in marked /\ TimeOf(D, k)' = TimeOf(D, k)
        BY <1>21, <2>1, <3>3
      <4>2. \/ \E l \in PastIdx(D) : l > k /\ TimeOf(D, l) <= TimeOf(D, k)
            \/ \E y \in Running(D) : pc[y] = "send" /\ msg[cur[y]].t <= TimeOf(D, k)
        <5>1. SentIsMarked(D)
          BY <1>3 DEF LpFits
        <5>2. k \in SentIdx(D) /\ MayUndo(D, k)
          BY <4>1
        <5>3. QED
          BY <5>1, <5>2 DEF SentIsMarked
      <4>6. p_msgs'[D][k].m \in marked'
        <5>1. p_msgs[D][k].m \in marked'
          BY <1>1, <4>1
        <5>2. QED
          BY <4>1, <5>1
      <4>3. CASE \E l \in PastIdx(D) : l > k /\ TimeOf(D, l) <= TimeOf(D, k)
        <5>1. PICK l \in PastIdx(D) : l > k /\ TimeOf(D, l) <= TimeOf(D, k)
          BY <4>3
        <5>2. l \in PastIdx(D)' /\ TimeOf(D, l)' <= TimeOf(D, k)'
          BY <1>12, <1>14, <4>1, <5>1
        <5>3. QED
          BY <4>6, <5>1, <5>2
      <4>4. CASE \E y \in Running(D) : pc[y] = "send" /\ msg[cur[y]].t <= TimeOf(D, k)
        <5>1. msg[m].t <= TimeOf(D, k)
          BY <1>16, <4>4
        <5>2. msg'[cur'[th]].t <= TimeOf(D, k)'
          BY <3>1, <4>1, <5>1
        <5>3. QED
          BY <1>16, <3>1, <4>6, <5>2
      <4>5. QED
        BY <4>2, <4>3, <4>4
    <3>4. QED
      BY <3>2, <3>3
  <2>2. QED
    BY <2>1 DEF SentIsMarked
<1>23. LpFits(D)'
  BY <1>17, <1>18, <1>19, <1>20, <1>22 DEF LpFits
<1>24. MarksStay(D)
  BY <1>1 DEF MarksStay, IInv, LpFits, SentIsMarked
<1>25. SentOnce'
  <2>1. ASSUME NEW lp \in LPs, NEW k \in SentIdx(lp)', MayUndo(lp, k)', lp # D \/ k # n + 1
        PROVE  /\ k \in SentIdx(lp) /\ MayUndo(lp, k) /\ p_msgs'[lp][k].m = p_msgs[lp][k].m
               /\ p_msgs[lp][k].m # x
    <3>1. CASE lp = D
      BY <1>21, <2>1, <3>1
    <3>2. CASE lp # D
      <4>1. k \in SentIdx(lp) /\ p_msgs'[lp] = p_msgs[lp] /\ MayUndo(lp, k)
        BY <1>9, <1>11, <1>24, <2>1, <3>2, OtherLogsStand, OtherLpsFit DEF MarksStay
      <4>2. p_msgs[lp][k].m \in marked
        BY <4>1, MayUndoIsRecent
      <4>3. p_msgs[lp][k].m # x
        BY <1>2, <4>2, LifeTells DEF IInv
      <4>4. QED
        BY <4>1, <4>3
    <3>3. QED
      BY <3>1, <3>2
  <2>2. ASSUME NEW a \in LPs, NEW b \in LPs, NEW k \in SentIdx(a)', NEW l \in SentIdx(b)',
               MayUndo(a, k)', MayUndo(b, l)', p_msgs'[a][k].m = p_msgs'[b][l].m
        PROVE  a = b /\ k = l
    <3>1. CASE a = D /\ k = n + 1
      <4>1. p_msgs'[a][k].m = x
        BY <1>12, <3>1
      <4>2. b = D /\ l = n + 1
        BY <2>1, <2>2, <4>1
      <4>3. QED
        BY <3>1, <4>2
    <3>2. CASE b = D /\ l = n + 1
      <4>1. p_msgs'[b][l].m = x
        BY <1>12, <3>2
      <4>2. a = D /\ k = n + 1
        BY <2>1, <2>2, <4>1
      <4>3. QED
        BY <3>2, <4>2
    <3>3. CASE (a # D \/ k # n + 1) /\ (b # D \/ l # n + 1)
      <4>1. /\ k \in SentIdx(a) /\ MayUndo(a, k) /\ p_msgs'[a][k].m = p_msgs[a][k].m
            /\ l \in SentIdx(b) /\ MayUndo(b, l) /\ p_msgs'[b][l].m = p_msgs[b][l].m
        BY <2>1, <2>2, <3>3
      <4>2. QED
        BY <2>2, <4>1 DEF IInv, SentOnce
    <3>4. QED
      BY <3>1, <3>2, <3>3
  <2>3. QED
    BY <2>2 DEF SentOnce
<1>26. ThreadFits(th)'
  <2>1. CurFits(th)'
    <3>1. \A k \in PastIdx(D)' : TimeOf(D, k)' <= msg[m].t
      BY <1>1, <1>3, <1>12, <1>14 DEF ThreadFits, CurFits
    <3>2. m \notin PastMsgs(D)'
      BY <1>1, <1>3, <1>15 DEF ThreadFits, CurFits
    <3>3. cur'[th] = m /\ msg'[m] = msg[m]
      BY <1>1, <1>2, <1>6
    <3>4. QED
      BY <1>3, <1>10, <3>1, <3>2, <3>3 DEF CurFits
  <2>2. OutsFit(th)'
    <3>1. cur'[th] = m /\ msg'[m] = msg[m]
      BY <1>1, <1>2, <1>6
    <3>2. QED
      BY <1>2, <1>6, <3>1 DEF OutsFit
  <2>3. pc'[th] = "send"
    BY <1>1
  <2>4. QED
    BY <2>1, <2>2, <2>3 DEF ThreadFits, RollbackFits, TouchedFits, Rollbacks
<1>27. Queued' = Queued \cup {x}
  BY <1>1, <1>5, <1>7 DEF Queued
<1>28. Role(th)' = Role(th)
  BY <1>1, <1>10, <1>15 DEF Role
<1>29. LifeTaken' = LifeTaken /\ LifeRunning' = LifeRunning /\ LifeKilling' = LifeKilling
  BY <1>1, <1>9, <1>11, <1>26, <1>28, HandsStay
<1>places. PlacesAre(th, D)
  BY <1>9, <1>11, <1>26, PlacesTell
<1>30. LifeBack' = LifeBack
  BY <1>1, <1>9, <1>11, <1>26, <1>places DEF PlacesAre
<1>31. LifeLogged' = LifeLogged
  <2>1. LoggedOf(D)' = PastMsgs(D)' /\ LoggedOf(D) = PastMsgs(D)
    BY <1>16 DEF LoggedOf, PastMsgs, StandingIdx
  <2>2. QED
    BY <1>9, <1>11, <1>15, <1>26, <2>1, <1>places DEF PlacesAre
<1>32. [Life!Next]_(Life!vars)
  <2>1. Life!Send(x)
    BY <1>1, <1>2, <1>27, <1>29, <1>30, <1>31 DEF Life!Send
  <2>2. QED
    BY <1>2, <2>1 DEF Life!Next
<1>33. ZeroIsKept'
  <2>1. ASSUME NEW y \in live', msg'[y].t = 0 PROVE ~ IsAnti(flags'[y])
    <3>1. y # x
      BY <1>2, <1>6, <2>1
    <3>2. y \in live /\ y \in Msgs
      BY <1>1, <3>1 DEF IInv, Life!IInv, Life!TypeOK
    <3>3. QED
      BY <1>6, <2>1, <3>1, <3>2 DEF IInv, ZeroIsKept
  <2>2. QED
    BY <2>1 DEF ZeroIsKept
<1>34. \A y \in Threads : \A z \in list'[y] \cup heap'[y] : QueuedWell(y, z)
  <2>1. Rid[msg'[x].dest] = Rid[o.dest] /\ msg'[x].ty < InitTy
    BY <1>2, <1>6
  <2>2. \A y \in Threads : gvt[y] <= msg'[x].t
    BY <1>2, <1>3, <1>6, <1>7, HandTypes
  <2>3. ASSUME NEW y \in Threads, NEW z \in list'[y] \cup heap'[y]
        PROVE  z \in list[y] \cup heap[y] \/ (z = x /\ y = Rid[o.dest])
    BY <1>1, <1>5, <1>7
  <2>4. QED
    BY <2>1, <2>2, <2>3 DEF QueuedWell
<1>35. IInv'
  <2>1. pc'[th] # "reinsert" /\ cur'[th] \in Queued \cup InHand
    BY <1>1, <1>3
  <2>2. QED
    BY <1>9, <1>11, <1>23, <1>24, <1>25, <1>26, <1>32, <1>33, <1>34, <2>1, Conclude
<1>36. QED
  BY <1>32, <1>35

-----------------------------------------------------------------------------
(***************************************************************************)
(* A thread learns a GVT, or finds nothing to do.                          *)
(***************************************************************************)
\* What is kept in memory stays; the GVT of a thread may grow.
StaysPut ==
  UNCHANGED <<msg, flags, live, marked, list, heap, p_msgs, bound, state, logs, pc, cur, past_i,
              undo_i, outs>>

\* What is read off the logs and the hands stays when only the GVT changes.
LEMMA PutTells ==
  ASSUME StaysPut, NEW lp
  PROVE  /\ UNCHANGED <<PastIdx(lp), PastMsgs(lp), SentIdx(lp), RollingBack(lp), Running(lp)>>
         /\ UNCHANGED <<Undone(lp), StandingIdx(lp)>>
         /\ \A i : UNCHANGED <<TimeOf(lp, i), RankOf(lp, i)>>
<1> USE DEF StaysPut
<1>1. UNCHANGED <<PastIdx(lp), PastMsgs(lp), SentIdx(lp)>>
  BY DEF PastIdx, PastMsgs, SentIdx
<1>2. UNCHANGED <<RollingBack(lp), Running(lp)>>
  BY DEF RollingBack, Running, Dest
<1>3. \A i : UNCHANGED <<TimeOf(lp, i), RankOf(lp, i)>>
  BY DEF TimeOf, RankOf
<1>4. UNCHANGED Undone(lp)
  BY <1>2 DEF Undone
<1>5. UNCHANGED StandingIdx(lp)
  BY <1>1, <1>4 DEF StandingIdx
<1>6. QED
  BY <1>1, <1>2, <1>3, <1>4, <1>5

\* A greater GVT, still below everything in flight, keeps the invariant.
LEMMA GvtStep ==
  ASSUME IInv, StaysPut, gvt' \in [Threads -> 0 .. MaxT + 1],
         \A y \in Threads : gvt[y] <= gvt'[y] /\ IsGvt(gvt'[y])
  PROVE  IInv' /\ [Life!Next]_(Life!vars)
<1>1. Shapes'
  BY DEF IInv, Shapes, StaysPut
<1>2. UNCHANGED <<Queued, InHand>>
  BY DEF StaysPut, Queued, InHand
<1>3. \A x \in Threads : UNCHANGED <<pc[x], cur[x], Dest(x)>>
  BY DEF StaysPut, Dest
<1>4. UNCHANGED <<LifeTaken, LifeBack>>
  BY DEF StaysPut, LifeTaken, LifeBack, Touched, Dest
<1>5. UNCHANGED <<LifeRunning, LifeKilling>>
  <2>1. \A x \in Threads : UNCHANGED PastMsgs(Dest(x))
    BY DEF StaysPut, PastMsgs, PastIdx, Dest
  <2>2. QED
    BY <1>3, <2>1 DEF LifeRunning, LifeKilling
<1>6. UNCHANGED LifeLogged
  BY PutTells DEF StaysPut, LifeLogged
<1>7. UNCHANGED Life!vars
  BY <1>2, <1>4, <1>5, <1>6 DEF StaysPut, Life!vars
<1>8. Life!IInv'
  BY <1>7, LifeStep DEF IInv
<1>9. GvtIsSafe'
  <2>1. \A y \in Threads : \A m \in Queued \cup InHand : gvt'[y] <= msg[m].t
    BY DEF IsGvt
  <2>2. QED
    BY <1>2, <2>1 DEF GvtIsSafe, IsGvt, StaysPut
<1>10. QueuesFit' /\ ZeroIsKept'
  BY <1>2 DEF IInv, QueuesFit, ZeroIsKept, StaysPut
<1>11. ASSUME NEW lp \in LPs, NEW i, MayUndo(lp, i)' PROVE MayUndo(lp, i)
  <2>1. i \in SentIdx(lp) \ Undone(lp)
    BY <1>11, PutTells DEF MayUndo
  <2>2. ASSUME NEW j \in PastIdx(lp), j > i, NEW y \in Threads PROVE gvt[y] <= TimeOf(lp, j)
    <3>1. gvt'[y] <= TimeOf(lp, j)
      BY <1>11, <2>2, PutTells DEF MayUndo
    <3>2. gvt[y] \in 0 .. MaxT + 1 /\ gvt'[y] \in 0 .. MaxT + 1 /\ MaxT \in Nat
      BY Numbers DEF IInv, Shapes
    <3>3. TimeOf(lp, j) \in 0 .. MaxT
      BY LogTypes DEF IInv
    <3>4. QED
      BY <3>1, <3>2, <3>3
  <2>3. QED
    BY <2>1, <2>2 DEF MayUndo
<1>12. SentOnce'
  <2>1. \A lp \in LPs : UNCHANGED SentIdx(lp)
    BY PutTells
  <2>2. QED
    BY <1>11, <2>1 DEF IInv, SentOnce, StaysPut
<1>13. ASSUME NEW lp \in LPs PROVE LpFits(lp)'
  <2>1. LpFits(lp)
    BY DEF IInv
  <2>2. /\ UNCHANGED <<PastIdx(lp), PastMsgs(lp), SentIdx(lp), RollingBack(lp), Running(lp)>>
        /\ UNCHANGED <<msg, live, marked, p_msgs, bound, logs, pc, cur, past_i>>
        /\ \A i : UNCHANGED <<TimeOf(lp, i), RankOf(lp, i)>>
    BY PutTells DEF StaysPut
  <2>3. LogInOrder(lp)'
    BY <2>1, <2>2 DEF LpFits, LogInOrder
  <2>4. BoundFits(lp)'
    BY <2>1, <2>2 DEF LpFits, BoundFits
  <2>5. CheckpointsFit(lp)'
    BY <2>1, <2>2 DEF LpFits, CheckpointsFit
  <2>6. FirstStays(lp)'
    BY <2>1, <2>2 DEF LpFits, FirstStays
  <2>7. SentIsMarked(lp)'
    BY <1>11, <2>1, <2>2 DEF LpFits, SentIsMarked
  <2>8. QED
    BY <2>3, <2>4, <2>5, <2>6, <2>7 DEF LpFits
<1>14. ASSUME NEW x \in Threads PROVE ThreadFits(x)'
  <2>1. ThreadFits(x)
    BY DEF IInv
  <2>2. /\ UNCHANGED <<PastIdx(Dest(x)), PastMsgs(Dest(x)), Dest(x)>>
        /\ \A i : UNCHANGED TimeOf(Dest(x), i)
        /\ UNCHANGED <<msg, p_msgs, pc, cur, past_i, undo_i, outs>>
    BY DEF StaysPut, PastMsgs, PastIdx, Dest, TimeOf
  <2>3. CurFits(x)' /\ OutsFit(x)'
    BY <2>1, <2>2 DEF ThreadFits, CurFits, OutsFit
  <2>4. TouchedFits(x)'
    BY <2>1, <2>2 DEF ThreadFits, TouchedFits, Touched
  <2>5. RollbackFits(x)'
    BY <2>1, <2>2 DEF ThreadFits, RollbackFits
  <2>6. QED
    BY <2>3, <2>4, <2>5 DEF ThreadFits
<1>15. TouchedOnce'
  BY DEF IInv, TouchedOnce, StaysPut, Touched, Dest
<1>16. QED
  BY <1>1, <1>7, <1>8, <1>9, <1>10, <1>12, <1>13, <1>14, <1>15 DEF IInv

\* A poll that finds nothing, and on_gvt, keep the invariant.
LEMMA IdleStep ==
  ASSUME IInv, NEW th \in Threads, Poll(th) \/ OnGvt(th)
  PROVE  IInv' /\ [Life!Next]_(Life!vars)
<1>1. gvt \in [Threads -> 0 .. MaxT + 1] /\ MaxT \in Nat /\ GvtValues \subseteq 1 .. MaxT + 1
  BY ConstAssumption DEF IInv, Shapes
<1>2. \A y \in Threads : gvt[y] <= gvt[y] /\ IsGvt(gvt[y])
  BY <1>1 DEF IInv, GvtIsSafe
<1>3. CASE Poll(th)
  <2>1. StaysPut /\ gvt' = gvt
    BY <1>3 DEF Poll, vars, StaysPut
  <2>2. gvt' \in [Threads -> 0 .. MaxT + 1]
        /\ \A y \in Threads : gvt[y] <= gvt'[y] /\ IsGvt(gvt'[y])
    BY <1>1, <1>2, <2>1
  <2>3. QED
    BY <2>1, <2>2, GvtStep
<1>4. CASE OnGvt(th)
  <2>1. PICK g \in GvtValues : g > gvt[th] /\ IsGvt(g) /\ gvt' = [gvt EXCEPT ![th] = g]
    BY <1>4 DEF OnGvt
  <2>2. StaysPut
    BY <1>4 DEF OnGvt, StaysPut, msgVars, lpVars
  <2>3. g \in 0 .. MaxT + 1 /\ gvt' \in [Threads -> 0 .. MaxT + 1]
    BY <1>1, <2>1
  <2>4. \A y \in Threads : gvt[y] <= gvt'[y] /\ IsGvt(gvt'[y])
    <3>1. gvt[th] <= g
      BY <1>1, <2>1, <2>3
    <3>2. QED
      BY <1>1, <1>2, <2>1, <3>1
  <2>5. QED
    BY <2>2, <2>3, <2>4, GvtStep
<1>5. QED
  BY <1>3, <1>4

-----------------------------------------------------------------------------
(***************************************************************************)
(* Every step of the engine keeps the invariant, and is a step of the life *)
(* of a message or leaves it as it is.                                     *)
(***************************************************************************)
LEMMA ProcessStep ==
  ASSUME HandlerIsCausal, IInv, NEW th \in Threads, ProcessMsg(th)
  PROVE  IInv' /\ [Life!Next]_(Life!vars)
<1>1. /\ cur[th] \in Msgs /\ Dest(th) \in LPs /\ undo_i[th] \in Nat /\ past_i[th] \in Nat
      /\ Shapes
  BY HandTypes DEF IInv
<1>2. Len(p_msgs[Dest(th)]) \in Nat
  BY <1>1, LogTypes
<1>3. CASE Extract(th)
  <2>1. /\ cur'[th] \in heap[th] \cup list[th]
        /\ heap[th] \subseteq Msgs /\ list[th] \subseteq Msgs
    <3>1. /\ cur \in [Threads -> Msgs]
          /\ heap[th] \subseteq Msgs /\ list[th] \subseteq Msgs
      BY <1>1 DEF Shapes
    <3>2. \E x \in First(heap[th] \cup list[th]) : cur' = [cur EXCEPT ![th] = x]
      BY <1>3 DEF Extract
    <3>3. First(heap[th] \cup list[th]) \subseteq heap[th] \cup list[th]
      BY DEF First
    <3>4. QED
      BY <3>1, <3>2, <3>3
  <2>2. cur'[th] \in Msgs /\ msg[cur'[th]].dest \in LPs
    BY <1>1, <2>1 DEF Shapes, MsgRec
  <2>3. \A m \in Msgs, D \in LPs : cur'[th] = m /\ msg[m].dest = D =>
           IInv' /\ [Life!Next]_(Life!vars)
    BY <1>3, ExtractStep
  <2>4. QED
    BY <2>2, <2>3
<1>4. CASE Claim(th)
  BY <1>1, <1>4, ClaimStep
<1>5. CASE Check(th)
  BY <1>1, <1>5, CheckStep
<1>6. CASE UndoSent(th)
  BY <1>1, <1>6, UndoSentStep
<1>7. CASE UndoPast(th)
  BY <1>1, <1>7, UndoPastStep
<1>8. CASE Reinsert(th)
  BY <1>1, <1>8, ReinsertStep
<1>9. CASE Restore(th)
  BY <1>1, <1>9, RestoreStep
<1>10. CASE Dispatch(th)
  BY <1>1, <1>10, DispatchStep
<1>11. CASE ScheduleNewEvent(th)
  BY <1>1, <1>2, <1>11, ScheduleStep
<1>12. CASE Finish(th)
  BY <1>1, <1>2, <1>12, FinishStep
<1>13. QED
  BY <1>3, <1>4, <1>5, <1>6, <1>7, <1>8, <1>9, <1>10, <1>11, <1>12 DEF ProcessMsg

\* Every step keeps the invariant, and is a step of the message lifecycle or a stutter.
LEMMA NextInv ==
  ASSUME HandlerIsCausal, IInv, [Next]_vars
  PROVE  IInv' /\ [Life!Next]_(Life!vars)
<1>1. CASE Next
  <2>1. PICK th \in Threads : ProcessMsg(th) \/ Poll(th) \/ OnGvt(th)
    BY <1>1 DEF Next
  <2>2. QED
    BY <2>1, ProcessStep, IdleStep
<1>2. CASE UNCHANGED vars
  <2>1. StaysPut /\ gvt' = gvt
    BY <1>2 DEF vars, StaysPut
  <2>2. gvt \in [Threads -> 0 .. MaxT + 1] /\ MaxT \in Nat
    BY Numbers DEF IInv, Shapes
  <2>3. gvt' \in [Threads -> 0 .. MaxT + 1]
        /\ \A y \in Threads : gvt[y] <= gvt'[y] /\ IsGvt(gvt'[y])
    BY <2>1, <2>2 DEF IInv, GvtIsSafe
  <2>4. QED
    BY <2>1, <2>3, GvtStep
<1>3. QED
  BY <1>1, <1>2

-----------------------------------------------------------------------------
(***************************************************************************)
(* The start.                                                              *)
(***************************************************************************)
\* What LP_INIT sends, and where its messages are.
Slots(lp) == 0 .. Len(InitOuts(lp))

\* What the handler sends at LP_INIT is a sequence of well-formed messages, none an LP_INIT.
LEMMA InitOutsTell ==
  ASSUME HandlerIsCausal, NEW lp \in LPs
  PROVE  /\ InitOuts(lp) \in Seq(MsgRec) /\ Len(InitOuts(lp)) \in Nat
         /\ \A i \in 1 .. Len(InitOuts(lp)) :
              InitOuts(lp)[i] \in MsgRec /\ InitOuts(lp)[i].ty < InitTy
<1> DEFINE C == {o \in MsgRec : o.t >= 0 /\ o.ty < InitTy}
           s == InitOuts(lp)
<1>1. InitEvent \in Event /\ <<>> \in Seq(Event) /\ InitEvent.t = 0
  BY Numbers DEF InitEvent, Event, Times
<1>2. {o \in MsgRec : o.t >= InitEvent.t /\ o.ty < InitTy /\ (InitEvent # InitEvent => o.t > 0)}
        = C
  BY <1>1
<1>3. s \in Seq(C)
  BY <1>1, <1>2 DEF HandlerIsCausal, InitOuts
<1>4. \A i \in 1 .. Len(s) : s[i] \in C
  <2> HIDE DEF C, s
  <2>1. QED
    BY <1>3, ElementOfSeq
<1>5. s \in Seq(MsgRec) /\ Len(s) \in Nat
  <2>1. C \subseteq MsgRec
    OBVIOUS
  <2> HIDE DEF C, s
  <2>2. QED
    BY <1>3, <2>1
<1>6. QED
  BY <1>4, <1>5

\* Every message in memory at the start is the LP_INIT of one LP or one of the messages that
\* it sent, and these are all different.
LEMMA SlotsTell ==
  ASSUME HandlerIsCausal
  PROVE  /\ \A lp \in LPs : \A i \in Slots(lp) :
              /\ InitAddr[<<lp, i>>] \in InitUsed /\ InitAddr[<<lp, i>>] \in Msgs
              /\ InitSlot(InitAddr[<<lp, i>>]) = <<lp, i>>
         /\ \A m \in InitUsed : \E lp \in LPs : \E i \in Slots(lp) : m = InitAddr[<<lp, i>>]
         /\ Msgs # {}
<1>1. \A x : x \in InitSlots <=> \E lp \in LPs : \E i \in Slots(lp) : x = <<lp, i>>
  BY DEF InitSlots, Slots
<1>2. /\ InitAddr \in [InitSlots -> Msgs]
      /\ \A x, y \in InitSlots : InitAddr[x] = InitAddr[y] => x = y
  BY InitAddrAssumption DEF Injection, IsInjective
<1>3. ASSUME NEW x \in InitSlots
      PROVE  InitAddr[x] \in InitUsed /\ InitAddr[x] \in Msgs /\ InitSlot(InitAddr[x]) = x
  <2>1. InitAddr[x] \in InitUsed /\ InitAddr[x] \in Msgs
    BY <1>2 DEF InitUsed
  <2>2. \A y \in InitSlots : InitAddr[y] = InitAddr[x] <=> y = x
    BY <1>2
  <2>3. InitSlot(InitAddr[x]) = x
    BY <2>2 DEF InitSlot
  <2>4. QED
    BY <2>1, <2>3
<1>4. \A m \in InitUsed : \E x \in InitSlots : m = InitAddr[x]
  BY DEF InitUsed
<1>5. Msgs # {}
  <2>1. PICK lp \in LPs : TRUE
    BY ConstAssumption
  <2>2. 0 \in Slots(lp)
    BY InitOutsTell DEF Slots
  <2>3. QED
    BY <1>1, <1>3, <2>2
<1>6. QED
  BY <1>1, <1>3, <1>4, <1>5

\* What is in memory at the start.
InitHolds(lp, i, m) ==
  /\ m \in Msgs /\ m \in live /\ msg[m] \in MsgRec
  /\ m \in marked <=> i > 0
  /\ i = 0 => msg[m] = [dest |-> lp, t |-> 0, ty |-> InitTy] /\ flags[m] = PROCESSED
  /\ i > 0 => msg[m].ty < InitTy /\ flags[m] = 0

\* The start: the LP_INIT of each LP is processed, what it sent is queued and marked as sent.
LEMMA InitMsgsTell ==
  ASSUME HandlerIsCausal, Init
  PROVE  /\ msg \in [Msgs -> MsgRec]
         /\ \A lp \in LPs : \A i \in Slots(lp) : InitHolds(lp, i, InitAddr[<<lp, i>>])
         /\ \A m \in live : \E lp \in LPs : \E i \in Slots(lp) : m = InitAddr[<<lp, i>>]
         /\ \A m \in Msgs \ live : flags[m] = 0
         /\ marked \subseteq live /\ live \subseteq Msgs
<1>1. /\ live = InitUsed
      /\ marked = {m \in InitUsed : InitSlot(m)[2] > 0}
      /\ msg = [m \in Msgs |-> InitMsg(m)]
      /\ flags = [m \in Msgs |-> IF m \in InitUsed \ marked THEN PROCESSED ELSE 0]
  BY DEF Init
<1>2. ASSUME NEW lp \in LPs, NEW i \in Slots(lp), NEW m, m = InitAddr[<<lp, i>>]
      PROVE  InitHolds(lp, i, m)
  <2>1. m \in InitUsed /\ m \in Msgs /\ InitSlot(m) = <<lp, i>>
    BY <1>2, SlotsTell
  <2>2. msg[m] = IF i = 0 THEN [dest |-> lp, t |-> 0, ty |-> InitTy] ELSE InitOuts(lp)[i]
    BY <1>1, <2>1 DEF InitMsg
  <2>3. Len(InitOuts(lp)) \in Nat /\ i \in 0 .. Len(InitOuts(lp))
    BY InitOutsTell DEF Slots
  <2>4. i = 0 => [dest |-> lp, t |-> 0, ty |-> InitTy] \in MsgRec
    BY Numbers DEF MsgRec, Times
  <2>5. i # 0 => InitOuts(lp)[i] \in MsgRec /\ InitOuts(lp)[i].ty < InitTy /\ i > 0
    BY <2>3, InitOutsTell
  <2>6. m \in marked <=> i > 0
    BY <1>1, <2>1
  <2>7. i = 0 => ~ (i > 0)
    OBVIOUS
  <2>8. QED
    BY <1>1, <2>1, <2>2, <2>4, <2>5, <2>6, <2>7 DEF InitHolds
<1>3. \A m \in live : \E lp \in LPs : \E i \in Slots(lp) : m = InitAddr[<<lp, i>>]
  BY <1>1, SlotsTell
<1>4. \A lp \in LPs : \A i \in Slots(lp) : InitHolds(lp, i, InitAddr[<<lp, i>>])
  BY <1>2
<1>5. msg \in [Msgs -> MsgRec]
  <2>1. NoMsg \in MsgRec
    BY Numbers, ConstAssumption DEF NoMsg, MsgRec, Times
  <2>2. ASSUME NEW m \in Msgs, m \in InitUsed PROVE InitMsg(m) \in MsgRec
    <3>1. msg[m] \in MsgRec
      BY <1>1, <1>3, <1>4, <2>2 DEF InitHolds
    <3>2. QED
      BY <1>1, <3>1
  <2>3. ASSUME NEW m \in Msgs, m \notin InitUsed PROVE InitMsg(m) \in MsgRec
    BY <2>1, <2>3 DEF InitMsg
  <2>4. QED
    BY <1>1, <2>2, <2>3
<1>6. \A m \in Msgs \ live : flags[m] = 0
  BY <1>1
<1>7. marked \subseteq live /\ live \subseteq Msgs
  <2>1. ASSUME NEW lp \in LPs, NEW i \in Slots(lp) PROVE InitAddr[<<lp, i>>] \in Msgs
    BY <1>4 DEF InitHolds
  <2>2. QED
    BY <1>1, <1>3, <2>1
<1>8. QED
  BY <1>3, <1>4, <1>5, <1>6, <1>7

\* The entries of a log.
LEMMA EntriesTell ==
  \A m : /\ Sent(m).k = "sent" /\ Sent(m).m = m
         /\ Past(m).k = "past" /\ Past(m).m = m
BY DEF Sent, Past

\* What is in the logs at the start.
LEMMA InitLogTells ==
  ASSUME HandlerIsCausal, Init, NEW lp \in LPs, NEW L, L = Len(InitOuts(lp))
  PROVE  /\ L \in Nat /\ Slots(lp) = 0 .. L
         /\ p_msgs[lp] \in Seq(Entry) /\ Len(p_msgs[lp]) = L + 1
         /\ DOMAIN p_msgs[lp] = 1 .. L + 1
         /\ \A i \in 1 .. L : p_msgs[lp][i] = Sent(InitAddr[<<lp, i>>])
         /\ p_msgs[lp][L + 1] = Past(InitAddr[<<lp, 0>>])
         /\ PastIdx(lp) = {L + 1}
         /\ SentIdx(lp) = 1 .. L
         /\ logs[lp] = <<[ref |-> L + 1, st |-> <<InitEvent>>]>>
<1> DEFINE s == [i \in 1 .. L |-> Sent(InitAddr[<<lp, i>>])]
           e == Past(InitAddr[<<lp, 0>>])
<1>1. L \in Nat /\ Slots(lp) = 0 .. L
  BY InitOutsTell DEF Slots
<1>2. \A i \in 0 .. L : InitAddr[<<lp, i>>] \in Msgs
  BY <1>1, SlotsTell
<1>3. e \in Entry /\ \A i \in 1 .. L : s[i] \in Entry
  BY <1>1, <1>2 DEF Past, Sent, Entry
<1>4. s \in Seq(Entry) /\ Len(s) = L
  <2> DEFINE f(i) == Sent(InitAddr[<<lp, i>>])
  <2>1. s = [i \in 1 .. L |-> f(i)] /\ \A i \in 1 .. L : f(i) \in Entry
    BY <1>3
  <2> HIDE DEF f, s
  <2>2. QED
    BY <1>1, <2>1
<1>5. p_msgs[lp] = Append(s, e) /\ logs[lp] = <<[ref |-> Len(p_msgs[lp]), st |-> <<InitEvent>>]>>
  BY DEF Init
<1>6. \A i \in 1 .. L : s[i] = Sent(InitAddr[<<lp, i>>])
  OBVIOUS
<1>7. /\ p_msgs[lp] \in Seq(Entry) /\ Len(p_msgs[lp]) = L + 1
      /\ DOMAIN p_msgs[lp] = 1 .. L + 1
      /\ \A i \in 1 .. L : p_msgs[lp][i] = s[i]
      /\ p_msgs[lp][L + 1] = e
  <2> HIDE DEF s, e
  <2>1. QED
    BY <1>1, <1>3, <1>4, <1>5
<1>8. \A i \in 1 .. L : p_msgs[lp][i] = Sent(InitAddr[<<lp, i>>])
  BY <1>6, <1>7
<1>9. /\ \A i \in 1 .. L : p_msgs[lp][i].k = "sent"
      /\ p_msgs[lp][L + 1].k = "past"
  <2>1. ASSUME NEW i \in 1 .. L PROVE p_msgs[lp][i].k = "sent"
    <3>1. p_msgs[lp][i] = Sent(InitAddr[<<lp, i>>])
      BY <1>8
    <3>2. QED
      BY <3>1, EntriesTell
  <2>2. e.k = "past"
    BY EntriesTell
  <2> HIDE DEF s, e
  <2>3. QED
    BY <1>7, <2>1, <2>2
<1>10. PastIdx(lp) = {L + 1} /\ SentIdx(lp) = 1 .. L
  <2>1. \A i \in 1 .. L + 1 : i \in 1 .. L \/ i = L + 1
    BY <1>1
  <2>2. PastIdx(lp) = {L + 1}
    BY <1>1, <1>7, <1>9, <2>1 DEF PastIdx
  <2>3. L + 1 \notin 1 .. L /\ 1 .. L \subseteq 1 .. L + 1
    BY <1>1
  <2>4. QED
    BY <1>7, <2>1, <2>2, <2>3 DEF SentIdx
<1>11. QED
  BY <1>1, <1>5, <1>7, <1>8, <1>10

\* Each LP starts as the invariant says.
LEMMA InitLpFits ==
  ASSUME HandlerIsCausal, Init, NEW lp \in LPs
  PROVE  LpFits(lp)
<1>1. PICK L : L = Len(InitOuts(lp))
  OBVIOUS
<1>2. /\ L \in Nat /\ Slots(lp) = 0 .. L
      /\ Len(p_msgs[lp]) = L + 1
      /\ \A i \in 1 .. L : p_msgs[lp][i] = Sent(InitAddr[<<lp, i>>])
      /\ p_msgs[lp][L + 1] = Past(InitAddr[<<lp, 0>>])
      /\ PastIdx(lp) = {L + 1}
      /\ SentIdx(lp) = 1 .. L
      /\ logs[lp] = <<[ref |-> L + 1, st |-> <<InitEvent>>]>>
  BY <1>1, InitLogTells
<1>3. pc = [th \in Threads |-> "idle"] /\ bound[lp] = 0
  BY DEF Init
<1>4. Running(lp) = {} /\ RollingBack(lp) = {}
  BY <1>3 DEF Running, RollingBack
<1>5. p_msgs[lp] # <<>>
  BY <1>2
<1>6. InitHolds(lp, 0, InitAddr[<<lp, 0>>])
  BY <1>2, InitMsgsTell
<1>7. /\ p_msgs[lp][L + 1].m \in live /\ msg[p_msgs[lp][L + 1].m].dest = lp
      /\ TimeOf(lp, L + 1) = 0 /\ RankOf(lp, L + 1) = InitTy
  BY <1>2, <1>6 DEF InitHolds, TimeOf, RankOf, Past
<1>8. ASSUME NEW i \in 1 .. L
      PROVE  RankOf(lp, i) < InitTy /\ p_msgs[lp][i].m \in marked /\ TimeOf(lp, i) \in Nat
  <2>1. i \in Slots(lp) /\ i > 0
    BY <1>2
  <2>2. p_msgs[lp][i].m = InitAddr[<<lp, i>>]
    BY <1>2, EntriesTell
  <2>3. InitHolds(lp, i, p_msgs[lp][i].m)
    BY <2>1, <2>2, InitMsgsTell
  <2>4. msg[p_msgs[lp][i].m].t \in Nat
    BY <2>3, Numbers DEF InitHolds, MsgRec, Times
  <2>5. QED
    BY <2>1, <2>3, <2>4 DEF InitHolds, RankOf, TimeOf
<1>9. LogInOrder(lp)
  <2>1. \A m \in PastMsgs(lp) : msg[m].dest = lp /\ m \in live
    BY <1>2, <1>7 DEF PastMsgs
  <2>2. \A i, j \in PastIdx(lp) : ~ (i < j)
    BY <1>2
  <2>3. QED
    BY <1>2, <2>1, <2>2 DEF LogInOrder
<1>10. BoundFits(lp)
  BY <1>2, <1>3, <1>5, <1>7 DEF BoundFits
<1>11. DOMAIN logs[lp] = {1} /\ logs[lp][1].ref = L + 1 /\ logs[lp] # <<>>
  BY <1>2
<1>12. CheckpointsFit(lp)
  BY <1>2, <1>11 DEF CheckpointsFit
<1>13. FirstStays(lp)
  <2>1. \A i \in SentIdx(lp) : RankOf(lp, i) < InitTy /\ i < L + 1
    BY <1>2, <1>8
  <2>2. \A i \in PastIdx(lp) : L + 1 <= i /\ i = L + 1
    BY <1>2
  <2>3. QED
    BY <1>2, <1>4, <1>7, <1>11, <2>1, <2>2 DEF FirstStays
<1>14. SentIsMarked(lp)
  <2>1. \A i \in SentIdx(lp) : /\ p_msgs[lp][i].m \in marked
                               /\ L + 1 > i /\ TimeOf(lp, L + 1) <= TimeOf(lp, i)
    BY <1>2, <1>7, <1>8
  <2>2. L + 1 \in PastIdx(lp)
    BY <1>2
  <2>3. QED
    BY <2>1, <2>2 DEF SentIsMarked
<1>15. QED
  BY <1>9, <1>10, <1>12, <1>13, <1>14 DEF LpFits

\* A message is in one log at the start, in one place.
LEMMA InitSentOnce ==
  ASSUME HandlerIsCausal, Init
  PROVE  SentOnce
<1>1. ASSUME NEW lp \in LPs, NEW i \in SentIdx(lp)
      PROVE  InitSlot(p_msgs[lp][i].m) = <<lp, i>>
  <2>1. PICK L : L = Len(InitOuts(lp))
    OBVIOUS
  <2>2. /\ i \in 1 .. L /\ L \in Nat /\ Slots(lp) = 0 .. L
        /\ p_msgs[lp][i] = Sent(InitAddr[<<lp, i>>])
    BY <2>1, InitLogTells
  <2>3. i \in Slots(lp) /\ p_msgs[lp][i].m = InitAddr[<<lp, i>>]
    BY <2>2, EntriesTell
  <2>4. QED
    BY <2>3, SlotsTell
<1>2. ASSUME NEW a \in LPs, NEW b \in LPs, NEW i \in SentIdx(a), NEW j \in SentIdx(b),
             p_msgs[a][i].m = p_msgs[b][j].m
      PROVE  a = b /\ i = j
  <2>1. <<a, i>> = <<b, j>>
    BY <1>1, <1>2
  <2>2. QED
    BY <2>1
<1>3. QED
  BY <1>2 DEF SentOnce

\* What is where at the start: LP_INIT is logged, what it sent is queued.
LEMMA InitPlaces ==
  ASSUME HandlerIsCausal, Init
  PROVE  Life!Init
<1>1. /\ pc = [th \in Threads |-> "idle"]
      /\ list = [th \in Threads |-> {m \in marked : Rid[msg[m].dest] = th}]
      /\ heap = [th \in Threads |-> {}]
  BY DEF Init
<1>2. LifeTaken = {} /\ LifeRunning = {} /\ LifeKilling = {} /\ LifeBack = {}
  BY <1>1 DEF LifeTaken, LifeRunning, LifeKilling, LifeBack
<1>3. Queued = marked
  <2>1. \A m \in marked : Rid[msg[m].dest] \in Threads
    BY InitMsgsTell, Numbers DEF MsgRec
  <2>2. QED
    BY <1>1, <2>1 DEF Queued
<1>4. LifeLogged = live \ marked
  <2>1. \A lp \in LPs : Undone(lp) = {}
    BY <1>1 DEF Undone, RollingBack
  <2>2. ASSUME NEW lp \in LPs
        PROVE  {p_msgs[lp][i].m : i \in StandingIdx(lp)} = {InitAddr[<<lp, 0>>]}
    <3>1. PICK L : L = Len(InitOuts(lp))
      OBVIOUS
    <3>2. PastIdx(lp) = {L + 1} /\ p_msgs[lp][L + 1] = Past(InitAddr[<<lp, 0>>])
      BY <3>1, InitLogTells
    <3>3. p_msgs[lp][L + 1].m = InitAddr[<<lp, 0>>]
      BY <3>2, EntriesTell
    <3>4. StandingIdx(lp) = {L + 1}
      BY <2>1, <3>2 DEF StandingIdx
    <3>5. QED
      BY <3>3, <3>4
  <2>3. \A m : m \in LifeLogged <=> \E lp \in LPs : m = InitAddr[<<lp, 0>>]
    <3> DEFINE T(lp) == {p_msgs[lp][i].m : i \in StandingIdx(lp)}
    <3>1. LifeLogged = UNION {T(lp) : lp \in LPs}
      BY DEF LifeLogged
    <3>2. ASSUME NEW lp \in LPs, NEW m PROVE m \in T(lp) <=> m = InitAddr[<<lp, 0>>]
      <4>1. T(lp) = {InitAddr[<<lp, 0>>]}
        BY <2>2
      <4> HIDE DEF T
      <4>2. QED
        BY <4>1
    <3> HIDE DEF T
    <3>3. QED
      BY <3>1, <3>2
  <2>4. ASSUME NEW lp \in LPs PROVE InitAddr[<<lp, 0>>] \in live \ marked
    <3>1. 0 \in Slots(lp)
      BY InitOutsTell DEF Slots
    <3>2. InitHolds(lp, 0, InitAddr[<<lp, 0>>])
      BY <3>1, InitMsgsTell
    <3>3. QED
      BY <3>2 DEF InitHolds
  <2>5. ASSUME NEW m \in live \ marked PROVE \E lp \in LPs : m = InitAddr[<<lp, 0>>]
    <3>1. PICK lp \in LPs : \E i \in Slots(lp) : m = InitAddr[<<lp, i>>]
      BY <2>5, InitMsgsTell
    <3>2. PICK i \in Slots(lp) : m = InitAddr[<<lp, i>>]
      BY <3>1
    <3>3. ~ (i > 0)
      BY <2>5, <3>2, InitMsgsTell DEF InitHolds
    <3>4. i = 0
      BY <3>3, InitOutsTell DEF Slots
    <3>5. QED
      BY <3>2, <3>4
  <2>6. QED
    BY <2>3, <2>4, <2>5
<1>5. live \subseteq Msgs /\ marked \subseteq live
  BY InitMsgsTell
<1>6. flags = [m \in Msgs |-> IF m \in LifeLogged THEN PROCESSED ELSE 0]
  BY <1>4 DEF Init
<1>7. QED
  BY <1>2, <1>3, <1>4, <1>5, <1>6 DEF Life!Init, Life!PROCESSED, PROCESSED

\* Every thread is idle, with nothing in hand.
LEMMA InitShapes ==
  ASSUME HandlerIsCausal, Init
  PROVE  Shapes
<1>1. msg \in [Msgs -> MsgRec] /\ marked \subseteq Msgs
  BY InitMsgsTell
<1>2. list \in [Threads -> SUBSET Msgs] /\ heap \in [Threads -> SUBSET Msgs]
  BY <1>1 DEF Init
<1>3. p_msgs \in [LPs -> Seq(Entry)]
  <2>1. \A lp \in LPs : p_msgs[lp] \in Seq(Entry)
    BY InitLogTells
  <2>2. DOMAIN p_msgs = LPs /\ p_msgs = [lp \in LPs |-> p_msgs[lp]]
    BY DEF Init
  <2>3. QED
    BY <2>1, <2>2
<1>4. InitEvent \in Event
  BY Numbers DEF InitEvent, Event, Times
<1>5. state \in [LPs -> Seq(Event)] /\ <<InitEvent>> \in Seq(Event)
  <2> HIDE DEF Event
  <2>1. <<InitEvent>> \in Seq(Event)
    BY <1>4
  <2>2. QED
    BY <2>1 DEF Init
<1>6. logs \in [LPs -> Seq([ref : Nat, st : Seq(Event)])]
  <2> DEFINE C == [ref : Nat, st : Seq(Event)]
  <2>1. ASSUME NEW lp \in LPs PROVE logs[lp] \in Seq(C)
    <3>1. PICK L : L = Len(InitOuts(lp))
      OBVIOUS
    <3>2. L \in Nat /\ logs[lp] = <<[ref |-> L + 1, st |-> <<InitEvent>>]>>
      BY <3>1, InitLogTells
    <3>3. [ref |-> L + 1, st |-> <<InitEvent>>] \in C
      BY <1>5, <3>2
    <3> HIDE DEF C
    <3>4. QED
      BY <3>2, <3>3
  <2>2. DOMAIN logs = LPs /\ logs = [lp \in LPs |-> logs[lp]]
    BY DEF Init
  <2>3. QED
    BY <2>1, <2>2
<1>7. cur \in [Threads -> Msgs]
  <2>1. Msgs \in SUBSET Nat /\ Msgs # {}
    BY SlotsTell, ConstAssumption
  <2>2. \E m \in Msgs : \A n \in Msgs : m <= n
    BY <2>1, LeastIsThere
  <2>3. (CHOOSE m \in Msgs : \A n \in Msgs : m <= n) \in Msgs
    BY <2>2
  <2>4. QED
    BY <2>3 DEF Init
<1>8. /\ bound \in [LPs -> -1 .. MaxT] /\ gvt \in [Threads -> 0 .. MaxT + 1]
      /\ past_i \in [Threads -> Nat] /\ undo_i \in [Threads -> Nat]
  BY Numbers DEF Init
<1>9. pc \in [Threads -> PCs] /\ outs \in [Threads -> Seq(MsgRec)]
  <2> HIDE DEF MsgRec
  <2>1. QED
    BY DEF Init, PCs
<1>10. QED
  BY <1>1, <1>2, <1>3, <1>5, <1>6, <1>7, <1>8, <1>9 DEF Shapes

\* The invariant holds at the start.
LEMMA InitIInv ==
  ASSUME HandlerIsCausal, Init
  PROVE  IInv
<1>1. pc = [th \in Threads |-> "idle"] /\ gvt = [th \in Threads |-> 0]
  BY DEF Init
<1>2. Shapes /\ SentOnce /\ \A lp \in LPs : LpFits(lp)
  BY InitShapes, InitSentOnce, InitLpFits
<1>3. Life!IInv
  <2>1. LifeProofs!Init
    BY InitPlaces DEF Life!Init, LifeProofs!Init, Life!PROCESSED, LifeProofs!PROCESSED
  <2>2. QED
    BY <2>1, LifeProofs!InitInv, SameInvariant
<1>4. InHand = {} /\ Queued = marked
  <2>1. Queued = marked
    BY InitPlaces DEF Life!Init
  <2>2. QED
    BY <1>1, <2>1 DEF InHand
<1>5. ASSUME NEW m \in marked PROVE msg[m].ty < InitTy /\ msg[m].t \in Nat
  <2>1. PICK lp \in LPs : \E i \in Slots(lp) : m = InitAddr[<<lp, i>>]
    BY InitMsgsTell
  <2>2. PICK i \in Slots(lp) : m = InitAddr[<<lp, i>>]
    BY <2>1
  <2>3. InitHolds(lp, i, m)
    BY <2>2, InitMsgsTell
  <2>4. QED
    BY <2>3, Numbers DEF InitHolds, MsgRec, Times
<1>6. GvtIsSafe
  BY <1>1, <1>4, <1>5 DEF GvtIsSafe, IsGvt
<1>7. QueuesFit
  <2>1. list = [th \in Threads |-> {m \in marked : Rid[msg[m].dest] = th}]
        /\ heap = [th \in Threads |-> {}]
    BY DEF Init
  <2>2. QED
    BY <1>4, <1>5, <2>1 DEF QueuesFit
<1>8. ZeroIsKept
  <2>1. \A m \in Msgs : flags[m] = 0 \/ flags[m] = 2
    BY DEF Init, PROCESSED
  <2>2. live \subseteq Msgs
    BY InitMsgsTell
  <2>3. QED
    BY <2>1, <2>2 DEF ZeroIsKept, IsAnti
<1>9. TouchedOnce /\ \A th \in Threads : ThreadFits(th)
  BY <1>1 DEF TouchedOnce, ThreadFits, CurFits, RollbackFits, TouchedFits, OutsFit, Rollbacks
<1>10. QED
  BY <1>2, <1>3, <1>6, <1>7, <1>8, <1>9 DEF IInv
-----------------------------------------------------------------------------
(***************************************************************************)
(* What holds in every state, for every simulation model that schedules as *)
(* ScheduleNewEvent wants it.                                              *)
(***************************************************************************)
\* The invariant is kept by whole behaviors.
LEMMA AlwaysIInv ==
  ASSUME HandlerIsCausal
  PROVE  Spec => []IInv
<1>1. Init => IInv
  BY InitIInv
<1>2. IInv /\ [Next]_vars => IInv'
  BY NextInv
<1>3. QED
  BY <1>1, <1>2, PTL DEF Spec

\* No message older than a GVT that some thread has acted upon can appear
\* (fossil_lp_collect frees what is older).
THEOREM GvtSafe ==
  ASSUME HandlerIsCausal
  PROVE  Spec => []GvtIsSafe
<1>1. IInv => GvtIsSafe
  BY DEF IInv
<1>2. QED
  BY <1>1, AlwaysIInv, PTL

\* A rollback finds a checkpoint at or before its target, and a checkpoint
\* refers to the end of an event (model_allocator_checkpoint_restore).
THEOREM CheckpointIsThere ==
  ASSUME HandlerIsCausal
  PROVE  Spec => []CheckpointReachable
<1>1. IInv => CheckpointReachable
  <2> SUFFICES ASSUME IInv, NEW lp \in LPs
      PROVE  /\ logs[lp] # <<>>
             /\ \A j \in DOMAIN logs[lp] :
                  LET r == logs[lp][j].ref IN
                  r = 0 \/ (r <= Len(p_msgs[lp]) /\ p_msgs[lp][r].k = "past")
             /\ \A th \in Threads :
                  (pc[th] \in {"undo", "reinsert", "restore"} /\ Dest(th) = lp)
                    => logs[lp][1].ref <= past_i[th]
    BY DEF CheckpointReachable
  <2>1. Shapes /\ CheckpointsFit(lp) /\ FirstStays(lp)
    BY DEF IInv, LpFits
  <2>2. LogTyped(lp)
    BY <2>1, LogTypes
  <2>3. \A r \in PastIdx(lp) : r <= Len(p_msgs[lp]) /\ p_msgs[lp][r].k = "past"
    BY <2>2
  <2>4. logs[lp] # <<>> /\ \A j \in DOMAIN logs[lp] : logs[lp][j].ref \in {0} \cup PastIdx(lp)
    BY <2>1 DEF CheckpointsFit
  <2>5. \A th \in RollingBack(lp) : logs[lp][1].ref <= past_i[th]
    BY <2>1 DEF FirstStays
  <2>6. QED
    BY <2>3, <2>4, <2>5 DEF RollingBack
<1>2. QED
  BY <1>1, AlwaysIInv, PTL

\* The engine implements the protocol of the flags.
THEOREM Refinement ==
  ASSUME HandlerIsCausal
  PROVE  Spec => ImplementsMsgLife
<1>1. Init => Life!Init
  BY InitPlaces
<1>2. IInv /\ [Next]_vars => [Life!Next]_(Life!vars)
  BY NextInv
<1>3. QED
  BY <1>1, <1>2, AlwaysIInv, PTL DEF Spec, ImplementsMsgLife, Life!Spec

\* So no thread of the engine holds, queues or can still take back a message
\* that was freed,
THEOREM EngineMemorySafety ==
  ASSUME HandlerIsCausal
  PROVE  Spec => []Life!NoUseAfterFree
<1>1. IInv => Life!NoUseAfterFree
  BY DEF IInv, Life!IInv, Life!TypeOK, Life!NoUseAfterFree, Life!Accounted, Life!Free,
         Life!NotWaiting, Life!NotProcessed
<1>2. QED
  BY <1>1, AlwaysIInv, PTL

\* and match_anti_msg finds the message that an anti-message cancels.
THEOREM EngineFindsTheMessage ==
  ASSUME HandlerIsCausal
  PROVE  Spec => []Life!AntiIsLogged
<1>1. IInv => Life!AntiIsLogged
  BY DEF IInv, Life!IInv, Life!TypeOK, Life!AntiIsLogged, Life!Accounted, Life!Free,
         Life!New, Life!Done, Life!Cancelled, Life!AntiMsg, Life!Killed, Life!Waiting,
         Life!NotWaiting, Life!Processed, Life!ANTI, Life!PROCESSED
<1>2. QED
  BY <1>1, AlwaysIInv, PTL

-----------------------------------------------------------------------------
(***************************************************************************)
(* The state of an LP.                                                     *)
(***************************************************************************)
HIDE DEF LogTyped

\* A history of an LP has its state after each entry of its log, from the
\* first checkpoint on.  The checkpoints hold what it says, and so does the
\* LP, but for the event it is processing.
Busy(lp) == {th \in Threads : pc[th] = "send" /\ Dest(th) = lp}

Follows(lp, H) ==
  \A i \in 1 .. Len(p_msgs[lp]) :
    i > logs[lp][1].ref =>
      H[i] = IF i \in PastIdx(lp) THEN Append(H[i - 1], Content(p_msgs[lp][i].m)) ELSE H[i - 1]

IsHistory(lp, H) ==
  /\ H \in [0 .. Len(p_msgs[lp]) -> Seq(Event)]
  /\ Follows(lp, H)
  /\ \A j \in 1 .. Len(logs[lp]) : logs[lp][j].st = H[logs[lp][j].ref]
  /\ \A th \in Busy(lp) : state[lp] = Append(H[Len(p_msgs[lp])], Content(cur[th]))
  /\ Busy(lp) = {} => state[lp] = H[Len(p_msgs[lp])]

HaveHistories == \A lp \in LPs : \E H : IsHistory(lp, H)

\* Appending to the second of two sequences of events.
LEMMA AppendToSecond ==
  ASSUME NEW s \in Seq(Event), NEW t \in Seq(Event), NEW e \in Event
  PROVE  Append(s \o t, e) = s \o Append(t, e) /\ Append(t, e) \in Seq(Event)
<1>1. <<e>> \in Seq(Event) /\ Append(t, e) \in Seq(Event) /\ s \o t \in Seq(Event)
  OBVIOUS
<1>2. Append(t, e) = t \o <<e>> /\ Append(s \o t, e) = (s \o t) \o <<e>>
  BY <1>1, AppendIsConcat
<1>3. (s \o t) \o <<e>> = s \o (t \o <<e>>)
  BY <1>1, ConcatAssociative
<1>4. QED
  BY <1>1, <1>2, <1>3

\* One more entry, and the events of a log up to it.
LEMMA EventsGrow ==
  ASSUME NEW s, NEW E, IsEvents(s, E), NEW n \in Nat, n = Len(s)
  PROVE  /\ E[0] = <<>>
         /\ \A k \in 1 .. n :
              E[k] = IF s[k].k = "past" THEN Append(E[k - 1], Content(s[k].m)) ELSE E[k - 1]
<1>1. 0 \in 0 .. n /\ \A k \in 1 .. n : k \in 0 .. n /\ k # 0
  OBVIOUS
<1>2. QED
  BY <1>1 DEF IsEvents

\* A property of 0 that goes from each number to the next holds up to n.
LEMMA UpTo ==
  ASSUME NEW n \in Nat, NEW P, 0 \in P,
         \A i \in 0 .. n : i < n /\ i \in P => i + 1 \in P
  PROVE  \A i \in 0 .. n : i \in P
<1> DEFINE Bad == {i \in 0 .. n : i \notin P}
<1>1. ASSUME Bad # {} PROVE FALSE
  <2>1. Bad \in SUBSET Nat
    OBVIOUS
  <2>2. PICK k \in Bad : \A y \in Bad : k <= y
    <3> HIDE DEF Bad
    <3> QED
      BY <1>1, <2>1, LeastIsThere
  <2>3. k \in 0 .. n /\ k # 0
    BY <2>2
  <2>4. k - 1 \in 0 .. n /\ k - 1 < n /\ k - 1 + 1 = k
    BY <2>3
  <2>5. ~ (k <= k - 1)
    BY <2>3
  <2>6. k - 1 \in P
    BY <2>2, <2>4, <2>5
  <2>7. k \in P
    BY <2>4, <2>6
  <2>8. QED
    BY <2>2, <2>7
<1>2. QED
  BY <1>1

\* From one entry of a log to a later one, the events in between are added.
LEMMA HistoryTells ==
  ASSUME Shapes, NEW lp \in LPs, NEW H, IsHistory(lp, H), NEW a \in Nat, NEW b \in Nat,
         logs[lp][1].ref \in Nat, logs[lp][1].ref <= a, a <= b, b <= Len(p_msgs[lp])
  PROVE  H[b] = H[a] \o Events(SubSeq(p_msgs[lp], a + 1, b))
<1> DEFINE s == SubSeq(p_msgs[lp], a + 1, b)
           n == b - a
<1>1. LogTyped(lp)
  BY LogTypes
<1>2. n \in Nat /\ Len(p_msgs[lp]) \in Nat
  BY <1>1 DEF LogTyped
<1>3. /\ Len(s) = n
      /\ \A i \in 1 .. n : s[i] = p_msgs[lp][a + i] /\ a + i \in 1 .. Len(p_msgs[lp])
  <2>1. \A i \in a + 1 .. b : p_msgs[lp][i] \in Entry
    BY <1>1 DEF LogTyped
  <2>2. /\ Len(s) = IF a + 1 <= b THEN b - (a + 1) + 1 ELSE 0
        /\ \A i \in 1 .. b - (a + 1) + 1 : s[i] = p_msgs[lp][a + 1 + i - 1]
    BY <2>1, SubSeqProperties
  <2> HIDE DEF s
  <2>3. b - (a + 1) + 1 = n /\ (~ (a + 1 <= b) => n = 0)
    OBVIOUS
  <2>4. Len(s) = n
    BY <2>2, <2>3
  <2>5. ASSUME NEW i \in 1 .. n PROVE s[i] = p_msgs[lp][a + i] /\ a + i \in 1 .. Len(p_msgs[lp])
    <3>1. a + 1 + i - 1 = a + i /\ a + i \in 1 .. Len(p_msgs[lp])
      BY <1>2
    <3>2. QED
      BY <2>2, <2>3, <3>1
  <2>6. QED
    BY <2>4, <2>5
<1>4. s \in Seq(Entry)
  <2>1. \A i \in a + 1 .. b : p_msgs[lp][i] \in Entry
    BY <1>1 DEF LogTyped
  <2>2. QED
    BY <2>1, SubSeqProperties
<1>5. PICK E : IsEvents(s, E) /\ Events(s) = E[Len(s)]
  BY <1>2, <1>3, EventsAreThere
<1> HIDE DEF s
<1> DEFINE P == {i \in 0 .. n : E[i] \in Seq(Event) /\ H[a + i] = H[a] \o E[i]}
<1>6. \A i \in 0 .. n : a + i \in 0 .. Len(p_msgs[lp]) /\ H[a + i] \in Seq(Event)
  BY <1>2 DEF IsHistory
<1>7. 0 \in P
  <2>1. E[0] = <<>> /\ a + 0 = a /\ 0 \in 0 .. n
    BY <1>2, <1>3, <1>5 DEF IsEvents
  <2>2. H[a] \in Seq(Event)
    BY <1>6, <2>1
  <2>3. H[a] \o <<>> = H[a]
    BY <2>2, ConcatEmptySeq
  <2>4. <<>> \in Seq(Event)
    BY EmptySeq
  <2>5. E[0] \in Seq(Event) /\ H[a + 0] = H[a] \o E[0]
    BY <2>1, <2>3, <2>4
  <2> HIDE DEF n
  <2>6. QED
    BY <2>1, <2>5
<1>8. ASSUME NEW i \in 0 .. n, i < n, i \in P
      PROVE  i + 1 \in P
  <2>1. i + 1 \in 1 .. n /\ i + 1 \in 0 .. n /\ a + (i + 1) - 1 = a + i /\ i + 1 - 1 = i
        /\ i + 1 # 0 /\ a + (i + 1) > logs[lp][1].ref
    <3>1. i \in Nat /\ i < n
      BY <1>2, <1>8
    <3> HIDE DEF n, P
    <3>2. QED
      BY <1>2, <3>1
  <2> DEFINE e == p_msgs[lp][a + (i + 1)]
  <2>2. s[i + 1] = e /\ a + (i + 1) \in 1 .. Len(p_msgs[lp])
    BY <1>3, <2>1
  <2>3. E[i + 1] = IF e.k = "past" THEN Append(E[i], Content(e.m)) ELSE E[i]
    <3> HIDE DEF e, n, P
    <3>1. E[i + 1] = IF s[i + 1].k = "past" THEN Append(E[i + 1 - 1], Content(s[i + 1].m))
                     ELSE E[i + 1 - 1]
      BY SMTT(30), <1>2, <1>3, <1>5, <2>1, EventsGrow
    <3>2. QED
      BY <2>1, <2>2, <3>1
  <2>4. H[a + (i + 1)] = IF e.k = "past" THEN Append(H[a + i], Content(e.m)) ELSE H[a + i]
    BY <1>1, <2>1, <2>2 DEF IsHistory, Follows, LogTyped
  <2>5. Content(e.m) \in Event
    BY <1>1, <2>2 DEF LogTyped, Content, Event, MsgRec
  <2>6. E[i] \in Seq(Event) /\ H[a + i] = H[a] \o E[i] /\ H[a] \in Seq(Event)
    <3>1. 0 \in 0 .. n /\ a + 0 = a
      BY <1>2
    <3>2. QED
      BY <1>6, <1>8, <3>1
  <2> HIDE DEF e
  <2>7. Append(H[a] \o E[i], Content(e.m)) = H[a] \o Append(E[i], Content(e.m))
        /\ Append(E[i], Content(e.m)) \in Seq(Event)
    BY <2>5, <2>6, AppendToSecond
  <2>8. E[i + 1] \in Seq(Event) /\ H[a + (i + 1)] = H[a] \o E[i + 1]
    BY <2>3, <2>4, <2>6, <2>7
  <2>9. QED
    BY <2>1, <2>8
<1>9. \A i \in 0 .. n : i \in P
  <2> HIDE DEF P, n
  <2>1. QED
    BY <1>2, <1>7, <1>8, UpTo
<1>10. n \in 0 .. n /\ a + n = b
  BY <1>2
<1>11. H[a + n] = H[a] \o E[n]
  BY <1>9, <1>10
<1>12. QED
  BY <1>3, <1>5, <1>10, <1>11 DEF s

\* Who is processing an event of an LP: only the thread that is at it.
AtLp(th, D) ==
  /\ pc[th] # "idle" /\ Dest(th) = D /\ cur' = cur
  /\ \A y \in live : msg'[y] = msg[y]
  /\ \A x \in Threads \ {th} : pc'[x] = pc[x]

\* The thread that runs a handler is the only one at the LP.
LEMMA BusyTells ==
  ASSUME IInv, NEW th \in Threads, NEW D \in LPs, AtLp(th, D)
  PROVE  /\ Busy(D) = IF pc[th] = "send" THEN {th} ELSE {}
         /\ Busy(D)' = IF pc'[th] = "send" THEN {th} ELSE {}
         /\ \A lp \in LPs \ {D} : Busy(lp)' = Busy(lp)
         /\ \A lp \in LPs : \A x \in Busy(lp) : msg'[cur[x]] = msg[cur[x]]
<1>1. \A x \in Threads : pc[x] # "idle" => cur[x] \in live
  BY HandsTell
<1>2. \A x \in Threads \ {th} : pc[x] # "idle" => Dest(x) # D
  BY HandsTell DEF AtLp
<1>3. \A x \in Threads : pc[x] # "idle" => Dest(x)' = Dest(x)
  BY <1>1 DEF AtLp, Dest
<1>4. QED
  BY <1>1, <1>2, <1>3 DEF AtLp, Busy

\* A history that nobody touches is one after the step.
LEMMA HistoryStays ==
  ASSUME IInv, Shapes', NEW lp \in LPs, NEW H, IsHistory(lp, H),
         p_msgs'[lp] = p_msgs[lp], logs'[lp] = logs[lp], state'[lp] = state[lp],
         \A y \in live : msg'[y] = msg[y],
         Busy(lp)' = Busy(lp),
         \A x \in Busy(lp) : cur'[x] = cur[x] /\ msg'[cur[x]] = msg[cur[x]]
  PROVE  IsHistory(lp, H)'
<1>1. PastIdx(lp)' = PastIdx(lp)
  BY DEF PastIdx
<1>2. \A i \in PastIdx(lp) : Content(p_msgs[lp][i].m)' = Content(p_msgs[lp][i].m)
  BY PastTells DEF Content
<1>3. Follows(lp, H)'
  BY <1>1, <1>2 DEF IsHistory, Follows
<1>4. \A x \in Busy(lp) : Content(cur[x])' = Content(cur[x])
  BY DEF Content
<1>5. QED
  BY <1>3, <1>4 DEF IsHistory

\* A step that logs and undoes nothing leaves every history as it is.
LEMMA QuietHistory ==
  ASSUME IInv, Shapes', NEW lp \in LPs, NEW H, IsHistory(lp, H),
         p_msgs'[lp] = p_msgs[lp], logs'[lp] = logs[lp], state'[lp] = state[lp],
         msg' = msg,
         \A x \in Threads : pc'[x] = "send" <=> pc[x] = "send",
         \A x \in Threads : pc[x] = "send" => cur'[x] = cur[x]
  PROVE  IsHistory(lp, H)'
<1>1. Busy(lp)' = Busy(lp) /\ \A x \in Busy(lp) : cur'[x] = cur[x]
  BY DEF Busy, Dest
<1>2. QED
  BY <1>1, HistoryStays

\* A thread at one LP leaves the histories of the others as they are.
LEMMA OthersHistory ==
  ASSUME IInv, Shapes', NEW th \in Threads, NEW D \in LPs, AtLp(th, D),
         NEW lp \in LPs \ {D}, NEW H, IsHistory(lp, H),
         p_msgs'[lp] = p_msgs[lp], logs'[lp] = logs[lp], state'[lp] = state[lp]
  PROVE  IsHistory(lp, H)'
<1>1. /\ Busy(lp)' = Busy(lp) /\ \A x \in Busy(lp) : msg'[cur[x]] = msg[cur[x]]
      /\ \A x \in Busy(lp) : cur'[x] = cur[x]
      /\ \A y \in live : msg'[y] = msg[y]
  BY BusyTells DEF AtLp
<1>2. QED
  BY <1>1, HistoryStays

\* Checkpoints refer to entries of the log.
LEMMA RefsFit ==
  ASSUME IInv, NEW D \in LPs
  PROVE  \A j \in 1 .. Len(logs[D]) : logs[D][j].ref \in 0 .. Len(p_msgs[D])
<1>1. LogTyped(D) /\ CheckpointsFit(D)
  BY LogTypes DEF IInv, LpFits
<1>2. \A j \in 1 .. Len(logs[D]) : logs[D][j].ref \in {0} \cup PastIdx(D)
  BY <1>1, FirstRef DEF CheckpointsFit
<1>3. {0} \cup PastIdx(D) \subseteq 0 .. Len(p_msgs[D])
  BY <1>1 DEF LogTyped
<1>4. QED
  BY <1>2, <1>3

\* What is left of a log is at a + 1 .. b, and G has what is left of its history H.
Shortens(D, H, a, b, G) ==
  /\ a <= b /\ b <= Len(p_msgs[D]) /\ IsCut(D, a, b) /\ msg' = msg
  /\ logs'[D][1].ref \in Nat /\ logs[D][1].ref <= logs'[D][1].ref + a
  /\ DOMAIN G = 0 .. b - a /\ G = [i \in DOMAIN G |-> G[i]]
  /\ \A i \in 0 .. b - a : G[i] = H[i + a]

\* G is then a history.
LEMMA HistoryOfCut ==
  ASSUME IInv, Shapes', NEW D \in LPs, NEW H, IsHistory(D, H), NEW a \in Nat, NEW b \in Nat,
         NEW G, Shortens(D, H, a, b, G)
  PROVE  G \in [0 .. Len(p_msgs'[D]) -> Seq(Event)] /\ Follows(D, G)'
<1> USE DEF Shortens
<1>1. LogTyped(D) /\ LogTyped(D)' /\ logs[D][1].ref \in Nat
  BY LogTypes, LogTypesNext, FirstRef DEF IInv
<1>2. Len(p_msgs'[D]) = b - a /\ Len(p_msgs[D]) \in Nat
  BY <1>1 DEF IsCut
<1>3. \A i \in 0 .. b - a : i + a \in 0 .. Len(p_msgs[D]) /\ H[i + a] \in Seq(Event)
  <2>1. \A i \in 0 .. b - a : i + a \in 0 .. Len(p_msgs[D])
    <3> HIDE DEF LogTyped
    <3> QED
      BY <1>2
  <2>2. QED
    BY <2>1 DEF IsHistory
<1>4. ASSUME NEW i \in 1 .. Len(p_msgs'[D]), i > logs'[D][1].ref
      PROVE  G[i] = IF i \in PastIdx(D)' THEN Append(G[i - 1], Content(p_msgs[D][i + a].m)) ELSE G[i - 1]
  <2>1. /\ i + a \in 1 .. Len(p_msgs[D]) /\ i + a > logs[D][1].ref /\ i + a - 1 = i - 1 + a
        /\ i \in 0 .. b - a /\ i - 1 \in 0 .. b - a /\ i \in 1 .. b - a
    <3>1. i \in 1 .. b - a
      BY <1>2
    <3>2. ASSUME NEW r \in Nat, NEW q \in Nat, i > q, r <= q + a
          PROVE  i + a > r
      BY <3>1, <3>2
    <3>3. i + a > logs[D][1].ref
      BY <1>1, <1>4, <3>2
    <3>4. i + a - 1 = i - 1 + a /\ i \in 0 .. b - a /\ i - 1 \in 0 .. b - a
      BY <3>1
    <3>5. i + a \in 1 .. Len(p_msgs[D])
      <4> HIDE DEF LogTyped
      <4>1. QED
        BY <1>2, <3>1
    <3>6. QED
      BY <3>1, <3>3, <3>4, <3>5
  <2>2. i \in PastIdx(D)' <=> i + a \in PastIdx(D)
    BY <2>1 DEF IsCut
  <2>3. H[i + a] = IF i + a \in PastIdx(D) THEN Append(H[i - 1 + a], Content(p_msgs[D][i + a].m))
                   ELSE H[i - 1 + a]
    <3>1. \A k \in 1 .. Len(p_msgs[D]) : k > logs[D][1].ref =>
             H[k] = IF k \in PastIdx(D) THEN Append(H[k - 1], Content(p_msgs[D][k].m)) ELSE H[k - 1]
      BY DEF IsHistory, Follows
    <3> DEFINE k == i + a
    <3>2. k \in 1 .. Len(p_msgs[D]) /\ k > logs[D][1].ref /\ k - 1 = i - 1 + a
      BY <2>1
    <3> HIDE DEF k
    <3>3. H[k] = IF k \in PastIdx(D) THEN Append(H[i - 1 + a], Content(p_msgs[D][k].m))
                 ELSE H[i - 1 + a]
      BY <3>1, <3>2
    <3>4. QED
      BY <3>3 DEF k
  <2>4. G[i] = H[i + a] /\ G[i - 1] = H[i - 1 + a]
    BY <2>1
  <2>5. QED
    BY <2>2, <2>3, <2>4
<1>5. Follows(D, G)'
  <2>1. SUFFICES ASSUME NEW i \in 1 .. Len(p_msgs'[D]), i > logs'[D][1].ref
                 PROVE  G[i] = IF i \in PastIdx(D)'
                               THEN Append(G[i - 1], Content(p_msgs[D][i].m)') ELSE G[i - 1]
    BY DEF Follows
  <2>2. Content(p_msgs[D][i].m)' = Content(p_msgs[D][i + a].m)
    BY <1>2, <2>1 DEF IsCut, Content
  <2>3. G[i] = IF i \in PastIdx(D)' THEN Append(G[i - 1], Content(p_msgs[D][i + a].m))
               ELSE G[i - 1]
    BY <1>4, <2>1
  <2>4. QED
    BY <2>2, <2>3
<1>6. QED
  BY <1>2, <1>3, <1>5

\* The histories of the others are still there, and so is one of the LP that a thread is at.
LEMMA HistoriesRemain ==
  ASSUME IInv, Shapes', HaveHistories, NEW th \in Threads, NEW D \in LPs, AtLp(th, D),
         \A lp \in LPs \ {D} :
            p_msgs'[lp] = p_msgs[lp] /\ logs'[lp] = logs[lp] /\ state'[lp] = state[lp],
         NEW G, IsHistory(D, G)'
  PROVE  HaveHistories'
<1>1. ASSUME NEW lp \in LPs PROVE \E H : IsHistory(lp, H)'
  <2>1. CASE lp = D
    BY <2>1
  <2>2. CASE lp # D
    <3>1. PICK H : IsHistory(lp, H)
      BY DEF HaveHistories
    <3>2. IsHistory(lp, H)'
      BY <2>2, <3>1, OthersHistory
    <3>3. QED
      BY <3>2
  <2>3. QED
    BY <2>1, <2>2
<1>2. QED
  BY <1>1 DEF HaveHistories

\* The first checkpoints of a log.
LEMMA CheckpointsCut ==
  ASSUME IInv, NEW D \in LPs, NEW j \in Nat, j \in 1 .. Len(logs[D])
  PROVE  /\ Len(SubSeq(logs[D], 1, j)) = j
         /\ \A k \in 1 .. j : k \in 1 .. Len(logs[D]) /\ SubSeq(logs[D], 1, j)[k] = logs[D][k]
<1> DEFINE C == [ref : Nat, st : Seq(Event)]
<1>1. Len(logs[D]) \in Nat /\ \A k \in 1 .. Len(logs[D]) : logs[D][k] \in C
  BY FirstRef
<1>2. \A k \in 1 .. j : k \in 1 .. Len(logs[D])
  BY <1>1
<1>3. \A k \in 1 .. j : logs[D][k] \in C
  BY <1>1, <1>2
<1>4. j >= 1 /\ j \in Int
  OBVIOUS
<1> HIDE DEF C
<1>5. /\ Len(SubSeq(logs[D], 1, j)) = IF 1 <= j THEN j - 1 + 1 ELSE 0
      /\ \A k \in 1 .. j - 1 + 1 : SubSeq(logs[D], 1, j)[k] = logs[D][1 + k - 1]
  BY <1>3, <1>4, SubSeqProperties
<1>6. ASSUME NEW k \in 1 .. j PROVE SubSeq(logs[D], 1, j)[k] = logs[D][k]
  <2>1. k \in 1 .. j - 1 + 1 /\ 1 + k - 1 = k
    BY <1>4
  <2>2. QED
    BY <1>5, <2>1
<1>7. Len(SubSeq(logs[D], 1, j)) = j
  BY <1>4, <1>5
<1>8. QED
  BY <1>2, <1>6, <1>7

\* What do_rollback does to the LP: back to entry i, from the last checkpoint j that is not
\* after it.
Restores(th, D, i, j) ==
  /\ AtLp(th, D) /\ pc'[th] # "send" /\ msg' = msg
  /\ i < Len(p_msgs[D]) /\ logs[D][1].ref <= i
  /\ j = LogAt(logs[D], i)
  /\ p_msgs'[D] = SubSeq(p_msgs[D], 1, i) /\ logs'[D] = SubSeq(logs[D], 1, j)
  /\ state'[D] = SilentExecution(logs[D][j].st, p_msgs[D], logs[D][j].ref, i)
  /\ \A lp \in LPs \ {D} :
       p_msgs'[lp] = p_msgs[lp] /\ logs'[lp] = logs[lp] /\ state'[lp] = state[lp]

\* The last step of a rollback does that.
LEMMA RestoreTells ==
  ASSUME IInv, NEW th \in Threads, NEW D \in LPs, NEW i \in Nat, NEW j,
         Dest(th) = D, i = past_i[th], j = LogAt(logs[D], i), Restore(th)
  PROVE  Restores(th, D, i, j)
<1>1. /\ pc[th] = "restore" /\ pc'[th] # "send"
      /\ p_msgs' = [p_msgs EXCEPT ![D] = SubSeq(@, 1, i)]
      /\ logs' = [logs EXCEPT ![D] = SubSeq(@, 1, j)]
      /\ state' = [state EXCEPT ![D] =
                     SilentExecution(logs[D][j].st, p_msgs[D], logs[D][j].ref, i)]
      /\ \A x \in Threads \ {th} : pc'[x] = pc[x]
      /\ UNCHANGED <<msg, cur>>
  <2>1. pc \in [Threads -> PCs]
    BY DEF IInv, Shapes
  <2>2. pc' = [pc EXCEPT ![th] = "idle"] \/ pc' = [pc EXCEPT ![th] = "dispatch"]
    BY DEF Restore
  <2>3. pc'[th] # "send" /\ \A x \in Threads \ {th} : pc'[x] = pc[x]
    BY <2>1, <2>2
  <2>4. QED
    BY <2>3 DEF Restore, Rollback, Dest
<1>2. /\ p_msgs \in [LPs -> Seq(Entry)] /\ logs \in [LPs -> Seq([ref : Nat, st : Seq(Event)])]
      /\ state \in [LPs -> Seq(Event)] /\ cur[th] \in Msgs
  BY HandTypes DEF IInv, Shapes
<1>3. i < Len(p_msgs[D]) /\ logs[D][1].ref <= i
  BY <1>1, <1>2, RollbackTells DEF Rollbacks
<1>4. AtLp(th, D)
  BY <1>1 DEF AtLp
<1>5. QED
  BY <1>1, <1>2, <1>3, <1>4 DEF Restores

\* Restoring a checkpoint and executing again what was logged after it gives
\* the state after the entry the rollback goes back to.
LEMMA RestoreHistory ==
  ASSUME IInv, Shapes', HaveHistories, NEW th \in Threads, NEW D \in LPs, NEW i \in Nat, NEW j,
         Restores(th, D, i, j)
  PROVE  HaveHistories'
<1> DEFINE r == logs[D][j].ref
<1>1. /\ AtLp(th, D) /\ pc'[th] # "send" /\ msg' = msg
      /\ i < Len(p_msgs[D]) /\ logs[D][1].ref <= i /\ j = LogAt(logs[D], i)
  BY DEF Restores
<1>2. Shapes
  BY DEF IInv
<1>3. /\ p_msgs'[D] = SubSeq(p_msgs[D], 1, i) /\ logs'[D] = SubSeq(logs[D], 1, j)
      /\ state'[D] = SilentExecution(logs[D][j].st, p_msgs[D], r, i)
      /\ \A lp \in LPs \ {D} :
            p_msgs'[lp] = p_msgs[lp] /\ logs'[lp] = logs[lp] /\ state'[lp] = state[lp]
  BY DEF Restores
<1>4. i < Len(p_msgs[D]) /\ logs[D][1].ref <= i /\ Len(p_msgs[D]) \in Nat
  <2>1. LogTyped(D)
    BY <1>2, LogTypes
  <2>2. QED
    BY <1>1, <2>1
<1>5. /\ j \in 1 .. Len(logs[D]) /\ j \in Nat /\ r <= i /\ r \in Nat
      /\ \A k, l \in 1 .. Len(logs[D]) : k <= l => logs[D][k].ref <= logs[D][l].ref
      /\ \A k \in 1 .. Len(logs[D]) : logs[D][k].ref \in Nat
  BY <1>1, LogAtTells
<1>6. /\ Len(logs'[D]) = j
      /\ \A k \in 1 .. j : k \in 1 .. Len(logs[D]) /\ logs'[D][k] = logs[D][k]
  BY <1>3, <1>5, CheckpointsCut
<1>7. 1 \in 1 .. j /\ 1 <= j /\ logs[D][1].ref <= r
      /\ \A k \in 1 .. j : k <= j /\ logs[D][k].ref <= r /\ logs[D][k].ref \in 0 .. i
  <2>1. 1 \in 1 .. j /\ 1 <= j /\ \A k \in 1 .. j : k <= j
    BY <1>5
  <2>2. \A k \in 1 .. j : logs[D][k].ref <= r /\ logs[D][k].ref \in Nat
    BY <1>5, <1>6, <2>1
  <2>3. ASSUME NEW k \in 1 .. j PROVE logs[D][k].ref \in 0 .. i
    <3>1. logs[D][k].ref <= r /\ logs[D][k].ref \in Nat /\ r <= i /\ r \in Nat
      BY <1>5, <2>2
    <3>2. \A x, y \in Nat : x <= y /\ y <= i => x \in 0 .. i
      OBVIOUS
    <3> HIDE DEF r
    <3>3. QED
      BY <3>1, <3>2
  <2>4. QED
    BY <2>1, <2>2, <2>3
<1>8. PICK H : IsHistory(D, H)
  BY DEF HaveHistories
<1> DEFINE G == [k \in 0 .. i |-> H[k]]
<1>9. \A k \in 0 .. i : G[k] = H[k]
  OBVIOUS
<1>10. G \in [0 .. Len(p_msgs'[D]) -> Seq(Event)] /\ Follows(D, G)' /\ Len(p_msgs'[D]) = i
  <2>1. IsCut(D, 0, i)
    <3>1. 0 <= i /\ i <= Len(p_msgs[D]) /\ 0 + 1 = 1
      BY <1>4
    <3>2. QED
      BY <1>2, <1>3, <3>1, LogIsCut
  <2>2. logs'[D][1].ref = logs[D][1].ref /\ logs[D][1].ref \in Nat
    BY <1>5, <1>6, <1>7
  <2>3. logs[D][1].ref <= logs'[D][1].ref + 0 /\ 0 <= i /\ i <= Len(p_msgs[D])
    BY <1>4, <2>2
  <2>4. /\ DOMAIN G = 0 .. i - 0 /\ G = [k \in DOMAIN G |-> G[k]]
        /\ \A k \in 0 .. i - 0 : G[k] = H[k + 0]
    <3>1. i - 0 = i /\ \A k \in 0 .. i : k + 0 = k
      OBVIOUS
    <3>2. QED
      BY <3>1
  <2> HIDE DEF G
  <2>5. G \in [0 .. Len(p_msgs'[D]) -> Seq(Event)] /\ Follows(D, G)'
    <3>1. Shortens(D, H, 0, i, G)
      BY <1>1, <2>1, <2>2, <2>3, <2>4 DEF Shortens
    <3>2. QED
      BY <1>8, <3>1, HistoryOfCut
  <2>6. Len(p_msgs'[D]) = i
    BY <2>1 DEF IsCut
  <2>7. QED
    BY <2>5, <2>6
<1> HIDE DEF G
<1>11. \A k \in 1 .. Len(logs'[D]) : logs'[D][k].st = G[logs'[D][k].ref]
  <2>1. SUFFICES ASSUME NEW k \in 1 .. j PROVE logs'[D][k].st = G[logs'[D][k].ref]
    BY <1>6
  <2>2. k \in 1 .. Len(logs[D]) /\ logs'[D][k] = logs[D][k] /\ logs[D][k].ref \in 0 .. i
    BY <1>6, <1>7
  <2>3. logs[D][k].st = H[logs[D][k].ref]
    BY <1>8, <2>2 DEF IsHistory
  <2>4. QED
    BY <1>9, <2>2, <2>3
<1>12. state'[D] = G[Len(p_msgs'[D])]
  <2>1. H[i] = H[r] \o Events(SubSeq(p_msgs[D], r + 1, i))
    <3>1. i <= Len(p_msgs[D]) /\ logs[D][1].ref \in Nat
      BY <1>4, <1>5, <1>6, <1>7
    <3>2. r \in Nat /\ logs[D][1].ref <= r /\ r <= i
      BY <1>5, <1>7
    <3>3. \A x \in Nat : logs[D][1].ref <= x /\ x <= i =>
             H[i] = H[x] \o Events(SubSeq(p_msgs[D], x + 1, i))
      BY ZenonT(30), <1>2, <1>8, <3>1, HistoryTells
    <3> HIDE DEF r
    <3>4. QED
      BY <3>2, <3>3
  <2>2. logs[D][j].st = H[r]
    BY <1>5, <1>8 DEF IsHistory
  <2>3. i \in 0 .. i
    OBVIOUS
  <2>4. QED
    BY <1>3, <1>9, <1>10, <2>1, <2>2, <2>3 DEF SilentExecution
<1>13. Busy(D)' = {}
  BY <1>1, BusyTells
<1>14. IsHistory(D, G)'
  BY <1>10, <1>11, <1>12, <1>13 DEF IsHistory
<1>15. QED
  BY <1>1, <1>3, <1>14, HistoriesRemain

\* An entry more in the log, and G goes one state v further than H.
Lengthens(D, H, n, e, v, G) ==
  /\ n = Len(p_msgs[D]) /\ e \in Entry /\ p_msgs'[D] = Append(p_msgs[D], e)
  /\ \A y \in live : msg'[y] = msg[y]
  /\ e.k = "past" => msg'[e.m] = msg[e.m]
  /\ logs'[D][1].ref = logs[D][1].ref
  /\ v \in Seq(Event) /\ v = IF e.k = "past" THEN Append(H[n], Content(e.m)) ELSE H[n]
  /\ DOMAIN G = 0 .. n + 1 /\ G = [i \in DOMAIN G |-> G[i]]
  /\ G[n + 1] = v /\ \A i \in 0 .. n : G[i] = H[i]

\* The history of the log goes on.
LEMMA HistoryGrows ==
  ASSUME IInv, Shapes', NEW D \in LPs, NEW H, IsHistory(D, H), NEW n \in Nat, NEW e,
         NEW v, NEW G, Lengthens(D, H, n, e, v, G)
  PROVE  /\ G \in [0 .. Len(p_msgs'[D]) -> Seq(Event)] /\ Follows(D, G)'
         /\ Len(p_msgs'[D]) = n + 1
<1> USE DEF Lengthens
<1>1. LogTyped(D) /\ Shapes
  BY LogTypes DEF IInv
<1>2. /\ Len(p_msgs'[D]) = n + 1
      /\ \A i \in 1 .. n : p_msgs'[D][i] = p_msgs[D][i]
      /\ p_msgs'[D][n + 1] = e
      /\ e.k = "past" => PastIdx(D)' = PastIdx(D) \cup {n + 1}
      /\ e.k = "sent" => PastIdx(D)' = PastIdx(D)
      /\ e.k \in {"past", "sent"} /\ PastIdx(D) \subseteq 1 .. n
  <2>1. Grows(D, n, e)
    BY <1>1, LogGrows
  <2>2. e.k \in {"past", "sent"}
    BY DEF Entry
  <2>3. PastIdx(D) \subseteq 1 .. n
    BY <1>1 DEF LogTyped
  <2>4. QED
    BY <2>1, <2>2, <2>3 DEF Grows
<1>3. /\ \A i \in 0 .. n : i \in 0 .. n + 1 /\ i # n + 1
      /\ n + 1 \in 0 .. n + 1 /\ n + 1 \notin 1 .. n
      /\ \A i \in 1 .. n : i \in 0 .. n /\ i - 1 \in 0 .. n
      /\ \A i \in 1 .. n + 1 : i \in 1 .. n \/ i = n + 1
      /\ \A i \in 0 .. n + 1 : i \in 0 .. n \/ i = n + 1
      /\ n \in 0 .. n /\ n + 1 - 1 = n
  OBVIOUS
<1>4. G[n + 1] = v /\ \A i \in 0 .. n : G[i] = H[i]
  OBVIOUS
<1>5. \A i \in 0 .. n : H[i] \in Seq(Event)
  BY DEF IsHistory
<1>6. G \in [0 .. n + 1 -> Seq(Event)]
  <2>1. \A i \in 0 .. n + 1 : G[i] \in Seq(Event)
    BY <1>3, <1>4, <1>5
  <2>2. QED
    BY <2>1
<1>7. Follows(D, G)'
  <2>1. SUFFICES ASSUME NEW i \in 1 .. n + 1, i > logs[D][1].ref
                 PROVE  G[i] = IF i \in PastIdx(D)'
                               THEN Append(G[i - 1], Content(p_msgs[D][i].m)') ELSE G[i - 1]
    BY <1>2 DEF Follows
  <2>2. CASE i = n + 1
    <3>1. G[i] = IF e.k = "past" THEN Append(G[i - 1], Content(e.m)) ELSE G[i - 1]
      BY <1>3, <1>4, <2>2
    <3>2. i \in PastIdx(D)' <=> e.k = "past"
      BY <1>2, <1>3, <2>2
    <3>3. e.k = "past" => Content(p_msgs[D][i].m)' = Content(e.m)
      BY <1>2, <2>2 DEF Content
    <3>4. QED
      BY <3>1, <3>2, <3>3
  <2>3. CASE i \in 1 .. n
    <3>1. H[i] = IF i \in PastIdx(D) THEN Append(H[i - 1], Content(p_msgs[D][i].m)) ELSE H[i - 1]
      BY <2>1, <2>3 DEF IsHistory, Follows
    <3>2. i \in PastIdx(D)' <=> i \in PastIdx(D)
      BY <1>2, <1>3, <2>3
    <3>3. G[i] = H[i] /\ G[i - 1] = H[i - 1]
      BY <1>3, <1>4, <2>3
    <3>4. i \in PastIdx(D) => Content(p_msgs[D][i].m)' = Content(p_msgs[D][i].m)
      <4>1. i \in PastIdx(D) => p_msgs[D][i].m \in live
        BY PastTells
      <4>2. QED
        BY <1>2, <2>3, <4>1 DEF Content
    <3>5. QED
      BY <3>1, <3>2, <3>3, <3>4
  <2>4. QED
    BY <1>3, <2>2, <2>3
<1>8. QED
  BY <1>2, <1>6, <1>7

\* A number more than those up to n.
LEMMA OneMore ==
  ASSUME NEW n \in Nat
  PROVE  /\ n + 1 \in 0 .. n + 1 /\ n \in 0 .. n
         /\ \A i \in 0 .. n : i \in 0 .. n + 1 /\ i # n + 1
OBVIOUS

\* The handler runs: its event comes after the last entry of the log.
LEMMA DispatchHistory ==
  ASSUME IInv, Shapes', HaveHistories, NEW th \in Threads, NEW D \in LPs, Dest(th) = D, Dispatch(th)
  PROVE  HaveHistories'
<1>1. /\ pc[th] = "dispatch" /\ pc' = [pc EXCEPT ![th] = "send"]
      /\ state' = [state EXCEPT ![D] = Append(@, Content(cur[th]))]
      /\ UNCHANGED <<msg, p_msgs, logs, cur>>
  BY DEF Dispatch, msgVars, Dest
<1>2. pc \in [Threads -> PCs] /\ state \in [LPs -> Seq(Event)]
  BY DEF IInv, Shapes
<1>3. /\ pc'[th] = "send" /\ \A x \in Threads \ {th} : pc'[x] = pc[x]
      /\ state'[D] = Append(state[D], Content(cur[th]))
      /\ \A lp \in LPs \ {D} : state'[lp] = state[lp]
  BY <1>1, <1>2
<1>4. AtLp(th, D)
  BY <1>1, <1>3 DEF AtLp
<1>5. Busy(D) = {} /\ Busy(D)' = {th}
  BY <1>1, <1>3, <1>4, BusyTells
<1>6. PICK H : IsHistory(D, H)
  BY DEF HaveHistories
<1>7. Content(cur[th])' = Content(cur[th])
  BY <1>1 DEF Content
<1>8. state'[D] = Append(H[Len(p_msgs[D])], Content(cur[th]))
  BY <1>3, <1>5, <1>6 DEF IsHistory
<1>9. Follows(D, H)'
  <2>1. Follows(D, H)
    BY <1>6 DEF IsHistory
  <2>2. QED
    BY <1>1, <2>1 DEF Follows, PastIdx, Content
<1>10. IsHistory(D, H)'
  BY <1>1, <1>5, <1>6, <1>7, <1>8, <1>9 DEF IsHistory
<1>11. QED
  BY <1>1, <1>3, <1>4, <1>10, HistoriesRemain

\* What is sent leaves the state as it is.
LEMMA ScheduleHistory ==
  ASSUME IInv, Shapes', HaveHistories, NEW th \in Threads, NEW D \in LPs, NEW n \in Nat,
         Dest(th) = D, n = Len(p_msgs[D]), ScheduleNewEvent(th)
  PROVE  HaveHistories'
<1> DEFINE x == Fresh
           o == Head(outs[th])
<1>1. /\ pc[th] = "send" /\ outs[th] # <<>> /\ Msgs \ live # {}
      /\ msg' = [msg EXCEPT ![x] = o]
      /\ p_msgs' = [p_msgs EXCEPT ![D] = Append(@, Sent(x))]
      /\ UNCHANGED <<state, logs, pc, cur>>
  BY DEF ScheduleNewEvent, Dest
<1>2. /\ Shapes /\ msg \in [Msgs -> MsgRec] /\ p_msgs \in [LPs -> Seq(Entry)] /\ cur[th] \in Msgs
      /\ live \subseteq Msgs
  BY HandTypes DEF IInv, Shapes, Life!IInv, Life!TypeOK
<1>3. x \in Msgs /\ x \notin live
  BY <1>1, <1>2, FreshTells
<1> HIDE DEF x, o
<1>4. Sent(x) \in Entry /\ Sent(x).k = "sent"
  BY <1>3 DEF Sent, Entry
<1>5. /\ \A y \in live : msg'[y] = msg[y]
      /\ p_msgs'[D] = Append(p_msgs[D], Sent(x))
      /\ \A lp \in LPs \ {D} : p_msgs'[lp] = p_msgs[lp]
  BY <1>1, <1>2, <1>3
<1>6. AtLp(th, D)
  BY <1>1, <1>5 DEF AtLp
<1>7. /\ Busy(D) = {th} /\ Busy(D)' = {th}
      /\ msg'[cur[th]] = msg[cur[th]]
  BY <1>1, <1>6, BusyTells
<1>8. PICK H : IsHistory(D, H)
  BY DEF HaveHistories
<1>9. n \in 0 .. n /\ H[n] \in Seq(Event)
  BY <1>8 DEF IsHistory
<1>10. PICK G : G = [i \in 0 .. n + 1 |-> IF i = n + 1 THEN H[n] ELSE H[i]]
  OBVIOUS
<1>11. /\ G \in [0 .. Len(p_msgs'[D]) -> Seq(Event)] /\ Follows(D, G)'
       /\ Len(p_msgs'[D]) = n + 1 /\ G[n + 1] = H[n] /\ \A i \in 0 .. n : G[i] = H[i]
  <2> DEFINE e == Sent(x)
  <2>1. /\ e \in Entry /\ p_msgs'[D] = Append(p_msgs[D], e)
        /\ e.k = "past" => msg'[e.m] = msg[e.m]
        /\ H[n] = IF e.k = "past" THEN Append(H[n], Content(e.m)) ELSE H[n]
        /\ logs'[D][1].ref = logs[D][1].ref
        /\ \A y \in live : msg'[y] = msg[y]
    BY <1>1, <1>4, <1>5
  <2>2. /\ DOMAIN G = 0 .. n + 1 /\ G = [i \in DOMAIN G |-> G[i]]
        /\ G[n + 1] = H[n] /\ \A i \in 0 .. n : G[i] = H[i]
    BY <1>10, OneMore
  <2> HIDE DEF e
  <2>3. Lengthens(D, H, n, e, H[n], G)
    BY <1>9, <2>1, <2>2 DEF Lengthens
  <2>4. QED
    BY <1>8, <2>2, <2>3, HistoryGrows
<1>12. \A j \in 1 .. Len(logs'[D]) : logs'[D][j].st = G[logs'[D][j].ref]
  <2>1. \A j \in 1 .. Len(logs[D]) : logs[D][j].st = H[logs[D][j].ref]
    BY <1>8 DEF IsHistory
  <2>2. \A j \in 1 .. Len(logs[D]) : logs[D][j].ref \in 0 .. n
    BY RefsFit
  <2>3. QED
    BY <1>1, <1>11, <2>1, <2>2
<1>13. state'[D] = Append(G[Len(p_msgs'[D])], Content(cur[th])')
  <2>1. Content(cur[th])' = Content(cur[th])
    BY <1>1, <1>7 DEF Content
  <2>2. state[D] = Append(H[n], Content(cur[th]))
    BY <1>7, <1>8 DEF IsHistory
  <2>3. QED
    BY <1>1, <1>11, <2>1, <2>2
<1>14. cur' = cur
  BY <1>1
<1>15. IsHistory(D, G)'
  BY <1>7, <1>11, <1>12, <1>13, <1>14 DEF IsHistory
<1>16. QED
  BY <1>1, <1>5, <1>6, <1>15, HistoriesRemain

\* The message is logged, and a checkpoint of the LP as it is then may be taken.
LEMMA FinishHistory ==
  ASSUME IInv, Shapes', HaveHistories, NEW th \in Threads, NEW D \in LPs, NEW n \in Nat,
         NEW m \in Msgs, Dest(th) = D, cur[th] = m, n = Len(p_msgs[D]), Finish(th)
  PROVE  HaveHistories'
<1> DEFINE c == [ref |-> n + 1, st |-> state[D]]
<1>1. /\ pc[th] = "send" /\ pc' = [pc EXCEPT ![th] = "idle"]
      /\ p_msgs' = [p_msgs EXCEPT ![D] = Append(@, Past(m))]
      /\ \/ logs' = logs
         \/ logs' = [logs EXCEPT ![D] = Append(@, [ref |-> Len(p_msgs'[D]), st |-> state[D]])]
      /\ UNCHANGED <<msg, state, cur>>
  BY DEF Finish, msgVars, Dest
<1>2. /\ Shapes /\ p_msgs \in [LPs -> Seq(Entry)] /\ pc \in [Threads -> PCs]
      /\ logs \in [LPs -> Seq(Ckpt)] /\ state \in [LPs -> Seq(Event)]
  BY DEF IInv, Shapes, Ckpt
<1>3. /\ pc'[th] # "send" /\ \A x \in Threads \ {th} : pc'[x] = pc[x]
      /\ p_msgs'[D] = Append(p_msgs[D], Past(m)) /\ p_msgs[D] \in Seq(Entry)
      /\ \A lp \in LPs \ {D} : p_msgs'[lp] = p_msgs[lp] /\ logs'[lp] = logs[lp]
  BY <1>1, <1>2
<1>4. Past(m) \in Entry /\ Past(m).k = "past" /\ Past(m).m = m
  BY DEF Past, Entry
<1>5. AtLp(th, D)
  BY <1>1, <1>3 DEF AtLp
<1>6. Busy(D) = {th} /\ Busy(D)' = {}
  BY <1>1, <1>3, <1>5, BusyTells
<1>7. PICK H : IsHistory(D, H)
  BY DEF HaveHistories
<1>8. state[D] = Append(H[n], Content(m)) /\ state[D] \in Seq(Event)
  BY <1>2, <1>6, <1>7 DEF IsHistory
<1>9. /\ Len(logs[D]) \in Nat /\ Len(logs[D]) >= 1 /\ logs[D] \in Seq(Ckpt)
      /\ \A j \in 1 .. Len(logs[D]) : logs[D][j].ref \in 0 .. n
  BY FirstRef, RefsFit DEF Ckpt
<1>10. logs'[D] = logs[D] \/ logs'[D] = Append(logs[D], c)
  <2>1. Len(p_msgs'[D]) = n + 1
    BY <1>3, <1>4
  <2>2. QED
    BY <1>1, <1>2, <2>1
<1>11. c \in Ckpt /\ c.ref = n + 1 /\ c.st = state[D]
  BY <1>8 DEF Ckpt
<1> HIDE DEF c
<1>12. \A j \in 1 .. Len(logs'[D]) :
          \/ j \in 1 .. Len(logs[D]) /\ logs'[D][j] = logs[D][j]
          \/ logs'[D][j] = c
  BY <1>9, <1>10, <1>11
<1>13. logs'[D][1].ref = logs[D][1].ref
  BY <1>9, <1>10, <1>11
<1>14. PICK G : G = [i \in 0 .. n + 1 |-> IF i = n + 1 THEN state[D] ELSE H[i]]
  OBVIOUS
<1>15. /\ G \in [0 .. Len(p_msgs'[D]) -> Seq(Event)] /\ Follows(D, G)'
       /\ Len(p_msgs'[D]) = n + 1 /\ G[n + 1] = state[D] /\ \A i \in 0 .. n : G[i] = H[i]
  <2> DEFINE e == Past(m)
  <2>1. /\ e \in Entry /\ p_msgs'[D] = Append(p_msgs[D], e)
        /\ e.k = "past" => msg'[e.m] = msg[e.m]
        /\ state[D] = IF e.k = "past" THEN Append(H[n], Content(e.m)) ELSE H[n]
        /\ \A y \in live : msg'[y] = msg[y]
        /\ logs'[D][1].ref = logs[D][1].ref
    BY <1>1, <1>3, <1>4, <1>8, <1>13
  <2>2. /\ DOMAIN G = 0 .. n + 1 /\ G = [i \in DOMAIN G |-> G[i]]
        /\ G[n + 1] = state[D] /\ \A i \in 0 .. n : G[i] = H[i]
    BY <1>14, OneMore
  <2> HIDE DEF e
  <2>3. Lengthens(D, H, n, e, state[D], G)
    BY <1>8, <2>1, <2>2 DEF Lengthens
  <2>4. QED
    BY <1>7, <2>2, <2>3, HistoryGrows
<1>16. \A j \in 1 .. Len(logs'[D]) : logs'[D][j].st = G[logs'[D][j].ref]
  <2>1. \A j \in 1 .. Len(logs[D]) : logs[D][j].st = H[logs[D][j].ref]
    BY <1>7 DEF IsHistory
  <2>2. SUFFICES ASSUME NEW j \in 1 .. Len(logs'[D])
                 PROVE  logs'[D][j].st = G[logs'[D][j].ref]
    OBVIOUS
  <2>3. CASE j \in 1 .. Len(logs[D]) /\ logs'[D][j] = logs[D][j]
    BY <1>9, <1>15, <2>1, <2>3
  <2>4. CASE logs'[D][j] = c
    BY <1>11, <1>15, <2>4
  <2>5. QED
    BY <1>12, <2>3, <2>4
<1>17. state'[D] = G[Len(p_msgs'[D])]
  BY <1>1, <1>15
<1>18. IsHistory(D, G)'
  BY <1>6, <1>15, <1>16, <1>17 DEF IsHistory
<1>19. QED
  BY <1>1, <1>3, <1>5, <1>18, HistoriesRemain

\* What is collected: the log up to checkpoint j, the last at or before entry i.
Drops(D, g, i, j, a, n) ==
  /\ i = FossilIdx(D, g) /\ i # 0 /\ j = LogAt(logs[D], i) /\ a = logs[D][j].ref
  /\ n = Len(p_msgs[D])
  /\ p_msgs'[D] = SubSeq(p_msgs[D], a + 1, n) /\ logs'[D] = Rebase(logs[D], j)

\* fossil_lp_collect leaves the rest of the history, and the checkpoints agree with it.
LEMMA CollectHistory ==
  ASSUME IInv, Shapes', NEW D \in LPs, NEW H, IsHistory(D, H), NEW g \in Nat,
         NEW i, NEW j, NEW a, NEW n, Drops(D, g, i, j, a, n),
         msg' = msg, state'[D] = state[D], Busy(D)' = Busy(D),
         \A x \in Busy(D) : cur'[x] = cur[x]
  PROVE  \E G : IsHistory(D, G)'
<1>1. /\ i = FossilIdx(D, g) /\ i # 0 /\ j = LogAt(logs[D], i) /\ a = logs[D][j].ref
      /\ n = Len(p_msgs[D]) /\ p_msgs'[D] = SubSeq(p_msgs[D], a + 1, n)
      /\ logs'[D] = Rebase(logs[D], j)
  BY DEF Drops
<1>2. i \in PastIdx(D) /\ i \in Nat /\ logs[D][1].ref <= i
  BY <1>1, FossilTells
<1>3. /\ j \in 1 .. Len(logs[D]) /\ j \in Nat /\ a <= i /\ a \in Nat
      /\ \A k, l \in 1 .. Len(logs[D]) : k <= l => logs[D][k].ref <= logs[D][l].ref
      /\ \A k \in 1 .. Len(logs[D]) : logs[D][k].ref \in Nat
  BY <1>1, <1>2, LogAtTells
<1>4. n \in Nat /\ i <= n
  <2>1. LogTyped(D)
    BY LogTypes DEF IInv
  <2>2. QED
    BY <1>1, <1>2, <2>1 DEF LogTyped
<1>5. a <= n /\ n - a \in Nat
  BY <1>2, <1>3, <1>4
<1>6. /\ logs[D] \in Seq(Ckpt) /\ Len(logs[D]) \in Nat /\ Len(logs[D]) >= 1
      /\ \A k \in 1 .. Len(logs[D]) : logs[D][k] \in Ckpt
  BY FirstRef DEF Ckpt
<1> DEFINE L == Len(logs[D]) - j + 1
<1>7. /\ Len(logs'[D]) = L
      /\ \A k \in 1 .. L :
           /\ k + j - 1 \in 1 .. Len(logs[D]) /\ k + j - 1 >= j
           /\ logs'[D][k].ref = logs[D][k + j - 1].ref - a
  <2>1. /\ logs'[D] = Rebase(logs[D], j) /\ logs[D] \in Seq(Ckpt) /\ j \in 1 .. Len(logs[D])
        /\ \A k, l \in 1 .. Len(logs[D]) : k <= l => logs[D][k].ref <= logs[D][l].ref
    BY <1>1, <1>3, <1>6
  <2>2. /\ Len(logs'[D]) = L
        /\ \A k \in 1 .. L :
             /\ k + j - 1 \in 1 .. Len(logs[D]) /\ k + j - 1 >= j
             /\ logs'[D][k].ref = logs[D][k + j - 1].ref - logs[D][j].ref
    BY <2>1, RebaseTells
  <2>3. a = logs[D][j].ref
    BY <1>1
  <2>4. QED
    BY <2>2, <2>3
<1>8. ASSUME NEW k \in 1 .. L PROVE logs'[D][k].st = logs[D][k + j - 1].st
  <2>1. logs'[D][k] = [logs[D][k + j - 1] EXCEPT !.ref = @ - logs[D][j].ref]
    BY <1>1 DEF Rebase
  <2>2. logs[D][k + j - 1] \in Ckpt
    BY <1>6, <1>7
  <2>3. QED
    BY <2>1, <2>2 DEF Ckpt
<1>9. 1 \in 1 .. L /\ 1 + j - 1 = j
  BY <1>3, <1>6
<1> HIDE DEF L
<1>10. logs'[D][1].ref = 0 /\ logs[D][1].ref <= a
  <2>1. logs'[D][1].ref = a - a
    BY <1>1, <1>7, <1>9
  <2>2. 1 \in 1 .. Len(logs[D]) /\ 1 <= j
    BY <1>3, <1>6
  <2>3. logs[D][1].ref <= a
    BY <1>1, <1>3, <2>2
  <2>4. a - a = 0
    BY <1>3
  <2>5. QED
    BY <2>1, <2>3, <2>4
<1>11. PICK G : G = [k \in 0 .. n - a |-> H[k + a]]
  OBVIOUS
<1>12. /\ G \in [0 .. Len(p_msgs'[D]) -> Seq(Event)] /\ Follows(D, G)'
       /\ Len(p_msgs'[D]) = n - a
  <2>1. IsCut(D, a, n)
    <3>1. n <= Len(p_msgs[D])
      BY <1>1, <1>4
    <3>2. p_msgs'[D] = SubSeq(p_msgs[D], a + 1, n) /\ Shapes
      BY <1>1 DEF IInv
    <3>3. QED
      BY <1>3, <1>4, <1>5, <3>1, <3>2, LogIsCut
  <2>2. /\ DOMAIN G = 0 .. n - a /\ G = [k \in DOMAIN G |-> G[k]]
        /\ \A k \in 0 .. n - a : G[k] = H[k + a]
    BY <1>11
  <2>3. n <= Len(p_msgs[D]) /\ logs'[D][1].ref \in Nat
        /\ logs[D][1].ref <= logs'[D][1].ref + a
    BY <1>1, <1>3, <1>4, <1>10
  <2>4. G \in [0 .. Len(p_msgs'[D]) -> Seq(Event)] /\ Follows(D, G)'
    <3>1. a \in Nat /\ n \in Nat /\ a <= n
      BY <1>3, <1>4, <1>5
    <3>2. Shortens(D, H, a, n, G)
      BY <2>1, <2>2, <2>3, <3>1 DEF Shortens
    <3>3. QED
      BY <3>1, <3>2, HistoryOfCut
  <2>5. QED
    BY <2>1, <2>4 DEF IsCut
<1>13. ASSUME NEW k \in 1 .. Len(logs'[D]) PROVE logs'[D][k].st = G[logs'[D][k].ref]
  <2> DEFINE p == k + j - 1
  <2>1. /\ p \in 1 .. Len(logs[D]) /\ p >= j
        /\ logs'[D][k].ref = logs[D][p].ref - a /\ logs'[D][k].st = logs[D][p].st
    BY <1>7, <1>8
  <2> HIDE DEF p
  <2>2. logs[D][p].ref >= a /\ logs[D][p].ref \in Nat /\ logs[D][p].ref \in 0 .. n
    BY <1>1, <1>3, <2>1, RefsFit
  <2>3. logs[D][p].ref - a \in 0 .. n - a /\ logs[D][p].ref - a + a = logs[D][p].ref
    <3>1. \A x, y \in Nat : x \in 0 .. n /\ x >= y => x - y \in 0 .. n - y /\ x - y + y = x
      BY <1>4
    <3>2. QED
      BY <1>3, <2>2, <3>1
  <2>4. G[logs'[D][k].ref] = H[logs[D][p].ref]
    BY <1>11, <2>1, <2>3
  <2>5. logs[D][p].st = H[logs[D][p].ref]
    BY <2>1 DEF IsHistory
  <2>6. QED
    BY <2>1, <2>4, <2>5
<1>14. G[Len(p_msgs'[D])] = H[Len(p_msgs[D])]
  <2>1. n - a \in 0 .. n - a /\ n - a + a = n
    BY <1>3, <1>4, <1>5
  <2>2. QED
    BY <1>1, <1>11, <1>12, <2>1
<1>15. \A x \in Busy(D)' : state'[D] = Append(G[Len(p_msgs'[D])], Content(cur[x])')
  <2>1. SUFFICES ASSUME NEW x \in Busy(D)
                 PROVE  state'[D] = Append(G[Len(p_msgs'[D])], Content(cur[x])')
    OBVIOUS
  <2>2. Content(cur[x])' = Content(cur[x])
    BY DEF Content
  <2>3. state[D] = Append(H[Len(p_msgs[D])], Content(cur[x]))
    BY DEF IsHistory
  <2>4. QED
    BY <1>14, <2>2, <2>3
<1>16. Busy(D)' = {} => state'[D] = G[Len(p_msgs'[D])]
  <2>1. Busy(D) = {} => state[D] = H[Len(p_msgs[D])]
    BY DEF IsHistory
  <2>2. QED
    BY <1>14, <2>1
<1>17. IsHistory(D, G)'
  BY <1>12, <1>13, <1>15, <1>16 DEF IsHistory
<1>18. QED
  BY <1>17

\* Only the threads that run a handler, and their messages, matter to a history.
SameHandlers ==
  /\ msg' = msg
  /\ \A x \in Threads : pc'[x] = "send" <=> pc[x] = "send"
  /\ \A x \in Threads : pc[x] = "send" => cur'[x] = cur[x]

\* A step that touches no log leaves all histories.
LEMMA QuietHistories ==
  ASSUME IInv, Shapes', HaveHistories, SameHandlers, UNCHANGED <<p_msgs, logs, state>>
  PROVE  HaveHistories'
<1>1. ASSUME NEW lp \in LPs PROVE \E H : IsHistory(lp, H)'
  <2>1. PICK H : IsHistory(lp, H)
    BY DEF HaveHistories
  <2>2. IsHistory(lp, H)'
    BY <2>1, QuietHistory DEF SameHandlers
  <2>3. QED
    BY <2>2
<1>2. QED
  BY <1>1 DEF HaveHistories

\* Taking a message from the queue collects the log of its LP, or leaves it.
LEMMA ExtractHistory ==
  ASSUME IInv, Shapes', HaveHistories, NEW th \in Threads, NEW D \in LPs, NEW m \in Msgs,
         cur'[th] = m, msg[m].dest = D, Extract(th)
  PROVE  HaveHistories'
<1>1. /\ pc[th] = "idle" /\ pc' = [pc EXCEPT ![th] = "extracted"]
      /\ cur' = [cur EXCEPT ![th] = m]
      /\ UNCHANGED <<p_msgs, logs>> \/ FossilCollect(D, gvt[th])
      /\ UNCHANGED <<msg, state>>
  <2>1. PICK x \in First(heap[th] \cup list[th]) :
           /\ cur' = [cur EXCEPT ![th] = x]
           /\ pc' = [pc EXCEPT ![th] = "extracted"]
           /\ IF epoch[msg[x].dest] # gvt[th]
              THEN FossilCollect(msg[x].dest, gvt[th])
              ELSE UNCHANGED <<p_msgs, logs>>
    BY DEF Extract
  <2>2. cur \in [Threads -> Msgs]
    BY DEF IInv, Shapes
  <2>3. x = m
    BY <2>1, <2>2
  <2>4. pc[th] = "idle" /\ UNCHANGED <<msg, state>>
    BY DEF Extract
  <2>5. QED
    BY <2>1, <2>3, <2>4
<1>2. SameHandlers
  <2>1. pc \in [Threads -> PCs] /\ cur \in [Threads -> Msgs]
    BY DEF IInv, Shapes
  <2>2. QED
    BY <1>1, <2>1 DEF SameHandlers
<1>3. CASE UNCHANGED <<p_msgs, logs>>
  BY <1>1, <1>2, <1>3, QuietHistories
<1>4. CASE FossilCollect(D, gvt[th])
  <2> DEFINE i == FossilIdx(D, gvt[th])
             j == LogAt(logs[D], i)
             a == logs[D][j].ref
             n == Len(p_msgs[D])
  <2>1. CASE i = 0
    <3>1. UNCHANGED <<p_msgs, logs>>
      BY <1>4, <2>1 DEF FossilCollect
    <3>2. QED
      BY <1>3, <3>1
  <2>2. CASE i # 0
    <3>1. /\ p_msgs' = [p_msgs EXCEPT ![D] = SubSeq(p_msgs[D], a + 1, n)]
          /\ logs' = [logs EXCEPT ![D] = Rebase(@, j)]
      BY <1>4, <2>2 DEF FossilCollect
    <3>2. p_msgs \in [LPs -> Seq(Entry)] /\ logs \in [LPs -> Seq(Ckpt)]
      BY DEF IInv, Shapes, Ckpt
    <3>3. /\ p_msgs'[D] = SubSeq(p_msgs[D], a + 1, n) /\ logs'[D] = Rebase(logs[D], j)
          /\ \A lp \in LPs \ {D} : p_msgs'[lp] = p_msgs[lp] /\ logs'[lp] = logs[lp]
      BY <3>1, <3>2
    <3>4. Drops(D, gvt[th], i, j, a, n)
      BY <2>2, <3>3 DEF Drops
    <3>5. gvt[th] \in Nat
      BY Numbers, HandTypes DEF IInv
    <3>6. Busy(D)' = Busy(D) /\ \A x \in Busy(D) : cur'[x] = cur[x]
      BY <1>2 DEF SameHandlers, Busy, Dest
    <3>7. PICK H : IsHistory(D, H)
      BY DEF HaveHistories
    <3>8. \E G : IsHistory(D, G)'
      <4> HIDE DEF i, j, a, n
      <4>1. msg' = msg /\ state'[D] = state[D]
        BY <1>1
      <4>2. QED
        BY <3>4, <3>5, <3>6, <3>7, <4>1, CollectHistory
    <3>9. ASSUME NEW lp \in LPs PROVE \E G : IsHistory(lp, G)'
      <4>1. CASE lp = D
        BY <3>8, <4>1
      <4>2. CASE lp # D
        <5>1. PICK G : IsHistory(lp, G)
          BY DEF HaveHistories
        <5>2. p_msgs'[lp] = p_msgs[lp] /\ logs'[lp] = logs[lp] /\ state'[lp] = state[lp]
          BY <1>1, <3>3, <4>2
        <5>3. IsHistory(lp, G)'
          BY <1>2, <5>1, <5>2, QuietHistory DEF SameHandlers
        <5>4. QED
          BY <5>3
      <4>3. QED
        BY <4>1, <4>2
    <3>10. QED
      BY <3>9 DEF HaveHistories
  <2>3. QED
    BY <2>1, <2>2
<1>5. QED
  BY <1>1, <1>3, <1>4

\* The other steps of process_msg move messages and flags only.
LEMMA MovesHistory ==
  ASSUME IInv, Shapes', HaveHistories, NEW th \in Threads,
         Claim(th) \/ Check(th) \/ UndoSent(th) \/ UndoPast(th) \/ Reinsert(th)
  PROVE  HaveHistories'
<1>1. pc \in [Threads -> PCs] /\ pc[th] # "send"
  BY DEF IInv, Shapes, Claim, Check, UndoSent, UndoPast, Reinsert
<1>2. UNCHANGED <<msg, p_msgs, logs, state, cur>>
  BY DEF Claim, Check, UndoSent, UndoPast, Reinsert, msgVars, lpVars
<1>3. \E s \in {"idle", "undo", "check", "dispatch", "reinsert", "restore"} :
        pc' = [pc EXCEPT ![th] = s]
  BY DEF Claim, Check, UndoSent, UndoPast, Reinsert, NextUndo
<1>4. SameHandlers
  BY <1>1, <1>2, <1>3 DEF SameHandlers
<1>5. QED
  BY <1>2, <1>4, QuietHistories

\* Every step keeps the histories.
LEMMA NextHistories ==
  ASSUME HandlerIsCausal, IInv, HaveHistories, [Next]_vars
  PROVE  HaveHistories'
<1>1. Shapes'
  BY NextInv DEF IInv
<1>2. ASSUME NEW th \in Threads, ProcessMsg(th) PROVE HaveHistories'
  <2>1. /\ cur[th] \in Msgs /\ Dest(th) \in LPs /\ past_i[th] \in Nat /\ Shapes
    BY HandTypes DEF IInv
  <2>2. Len(p_msgs[Dest(th)]) \in Nat
    BY <2>1, LogTypes DEF LogTyped
  <2>3. CASE Extract(th)
    <3>1. cur'[th] \in Msgs
      BY <1>1 DEF Shapes
    <3>2. msg[cur'[th]].dest \in LPs
      BY <2>1, <3>1 DEF Shapes, MsgRec
    <3>3. \A m \in Msgs, D \in LPs : cur'[th] = m /\ msg[m].dest = D => HaveHistories'
      BY <1>1, <2>3, ExtractHistory
    <3>4. QED
      BY <3>1, <3>2, <3>3
  <2>4. CASE Claim(th) \/ Check(th) \/ UndoSent(th) \/ UndoPast(th) \/ Reinsert(th)
    BY <1>1, <2>4, MovesHistory
  <2>5. CASE Restore(th)
    <3> DEFINE j == LogAt(logs[Dest(th)], past_i[th])
    <3>1. Restores(th, Dest(th), past_i[th], j)
      BY <2>1, <2>5, RestoreTells
    <3>2. QED
      BY <1>1, <2>1, <3>1, RestoreHistory
  <2>6. CASE Dispatch(th)
    BY <1>1, <2>1, <2>6, DispatchHistory
  <2>7. CASE ScheduleNewEvent(th)
    BY <1>1, <2>1, <2>2, <2>7, ScheduleHistory
  <2>8. CASE Finish(th)
    BY <1>1, <2>1, <2>2, <2>8, FinishHistory
  <2>9. QED
    BY <1>2, <2>3, <2>4, <2>5, <2>6, <2>7, <2>8 DEF ProcessMsg
<1>3. ASSUME NEW th \in Threads, Poll(th) \/ OnGvt(th) PROVE HaveHistories'
  <2>1. UNCHANGED <<msg, p_msgs, logs, state, pc, cur>>
    BY <1>3 DEF Poll, OnGvt, vars, msgVars, lpVars
  <2>2. SameHandlers
    BY <2>1 DEF SameHandlers
  <2>3. QED
    BY <1>1, <2>1, <2>2, QuietHistories
<1>4. CASE UNCHANGED vars
  <2>1. UNCHANGED <<msg, p_msgs, logs, state, pc, cur>>
    BY <1>4 DEF vars
  <2>2. SameHandlers
    BY <2>1 DEF SameHandlers
  <2>3. QED
    BY <1>1, <2>1, <2>2, QuietHistories
<1>5. QED
  BY <1>2, <1>3, <1>4 DEF Next

\* At the start an LP is in the state that LP_INIT left it in.
LEMMA InitHistories ==
  ASSUME HandlerIsCausal, Init
  PROVE  HaveHistories
<1> SUFFICES ASSUME NEW lp \in LPs PROVE \E H : IsHistory(lp, H)
  BY DEF HaveHistories
<1> DEFINE L == Len(InitOuts(lp))
<1>1. /\ L \in Nat /\ Len(p_msgs[lp]) = L + 1
      /\ logs[lp] = <<[ref |-> L + 1, st |-> <<InitEvent>>]>>
  BY InitLogTells
<1>2. state[lp] = <<InitEvent>> /\ Busy(lp) = {}
  BY DEF Init, Busy
<1> HIDE DEF L
<1>3. PICK H : H = [i \in 0 .. L + 1 |-> <<InitEvent>>]
  OBVIOUS
<1>4. <<InitEvent>> \in Seq(Event)
  <2>1. InitEvent \in Event
    BY Numbers DEF InitEvent, Event, Times
  <2>2. QED
    BY <2>1
<1>5. H \in [0 .. Len(p_msgs[lp]) -> Seq(Event)] /\ \A i \in 0 .. L + 1 : H[i] = <<InitEvent>>
  <2> HIDE DEF InitEvent
  <2>1. QED
    BY <1>1, <1>3, <1>4
<1>6. Len(logs[lp]) = 1 /\ logs[lp][1].ref = L + 1 /\ logs[lp][1].st = <<InitEvent>>
  BY <1>1
<1>7. Follows(lp, H)
  <2>1. \A i \in 1 .. L + 1 : ~ (i > L + 1)
    BY <1>1
  <2>2. QED
    BY <1>1, <1>6, <2>1 DEF Follows
<1>8. L + 1 \in 0 .. L + 1 /\ \A j \in 1 .. 1 : j = 1
  BY <1>1
<1>9. IsHistory(lp, H)
  BY <1>1, <1>2, <1>5, <1>6, <1>7, <1>8 DEF IsHistory
<1>10. QED
  BY <1>9

\* The state of an LP is what its log says: rollbacks restore it, fossil collection does not
\* lose it, and every checkpoint holds it as it was.
THEOREM StateMatches ==
  ASSUME HandlerIsCausal
  PROVE  Spec => []StateMatchesLog
<1>1. Init => IInv /\ HaveHistories
  BY InitIInv, InitHistories
<1>2. IInv /\ HaveHistories /\ [Next]_vars => IInv' /\ HaveHistories'
  BY NextInv, NextHistories
<1>3. ASSUME IInv, HaveHistories, NEW lp \in LPs
      PROVE  LET base == logs[lp][1]
                 after(i) == base.st \o Events(SubSeq(p_msgs[lp], base.ref + 1, i))
                 running == {th \in Threads : pc[th] = "send" /\ Dest(th) = lp}
             IN  /\ \A j \in DOMAIN logs[lp] : logs[lp][j].st = after(logs[lp][j].ref)
                 /\ state[lp] = after(Len(p_msgs[lp]))
                                  \o IF running = {} THEN <<>>
                                     ELSE <<Content(cur[CHOOSE th \in running : TRUE])>>
  <2> DEFINE base == logs[lp][1]
             after(i) == base.st \o Events(SubSeq(p_msgs[lp], base.ref + 1, i))
             n == Len(p_msgs[lp])
  <2>1. PICK H : IsHistory(lp, H)
    BY <1>3 DEF HaveHistories
  <2>2. /\ Len(logs[lp]) \in Nat /\ Len(logs[lp]) >= 1 /\ DOMAIN logs[lp] = 1 .. Len(logs[lp])
        /\ base.ref \in Nat
        /\ \A j \in 1 .. Len(logs[lp]) : logs[lp][j].ref \in 0 .. n
    BY <1>3, FirstRef, RefsFit
  <2>3. \A j \in 1 .. Len(logs[lp]) : base.ref <= logs[lp][j].ref
    <3>1. CheckpointsFit(lp)
      BY <1>3 DEF IInv, LpFits
    <3>2. \A j \in 1 .. Len(logs[lp]) : 1 \in DOMAIN logs[lp] /\ j \in DOMAIN logs[lp] /\ 1 <= j
      BY <2>2
    <3>3. QED
      BY <3>1, <3>2 DEF CheckpointsFit
  <2>4. n \in Nat /\ base.ref <= n
    <3>1. LogTyped(lp)
      BY <1>3, LogTypes DEF IInv
    <3>2. n \in Nat
      BY <3>1 DEF LogTyped
    <3>3. base.ref \in 0 .. n
      BY <2>2
    <3> HIDE DEF n
    <3>4. QED
      BY <3>2, <3>3
  <2>5. base.st = H[base.ref]
    BY <2>1, <2>2 DEF IsHistory
  <2>6. \A i \in 0 .. n : base.ref <= i => H[i] = after(i)
    <3>1. SUFFICES ASSUME NEW i \in 0 .. n, base.ref <= i PROVE H[i] = after(i)
      OBVIOUS
    <3>2. i \in Nat /\ i <= n
      BY <2>4
    <3>3. \A a \in Nat : logs[lp][1].ref <= a /\ a <= i
                          => H[i] = H[a] \o Events(SubSeq(p_msgs[lp], a + 1, i))
      <4>1. Shapes
        BY <1>3 DEF IInv
      <4>2. i \in Nat /\ i <= Len(p_msgs[lp]) /\ logs[lp][1].ref \in Nat
        BY <2>2, <3>2
      <4> HIDE DEF base, n
      <4>3. QED
        BY ZenonT(30), <2>1, <4>1, <4>2, HistoryTells
    <3>4. base.ref \in Nat /\ logs[lp][1].ref <= base.ref /\ base.ref <= i
      BY <2>2, <3>1
    <3>5. H[i] = H[base.ref] \o Events(SubSeq(p_msgs[lp], base.ref + 1, i))
      BY <3>3, <3>4
    <3>6. QED
      BY <2>5, <3>5
  <2>7. H[n] = after(n) /\ H[n] \in Seq(Event)
    <3>1. n \in 0 .. n
      BY <2>4
    <3>2. H[n] \in Seq(Event)
      BY <2>1, <3>1 DEF IsHistory
    <3>3. QED
      BY <2>4, <2>6, <3>1, <3>2
  <2>8. \A j \in DOMAIN logs[lp] : logs[lp][j].st = after(logs[lp][j].ref)
    <3>1. \A j \in 1 .. Len(logs[lp]) : logs[lp][j].st = H[logs[lp][j].ref]
      BY <2>1 DEF IsHistory
    <3> HIDE DEF after
    <3>2. QED
      BY <2>2, <2>3, <2>6, <3>1
  <2>9. state[lp] = after(n) \o IF Busy(lp) = {} THEN <<>>
                                ELSE <<Content(cur[CHOOSE th \in Busy(lp) : TRUE])>>
    <3>1. CASE Busy(lp) = {}
      <4>1. state[lp] = H[n]
        BY <2>1, <3>1 DEF IsHistory
      <4>2. H[n] \o <<>> = H[n]
        BY <2>7, ConcatEmptySeq
      <4> HIDE DEF after
      <4>3. QED
        BY <2>7, <3>1, <4>1, <4>2
    <3>2. CASE Busy(lp) # {}
      <4> DEFINE x == CHOOSE th \in Busy(lp) : TRUE
      <4>1. x \in Busy(lp)
        BY <3>2
      <4>2. Content(cur[x]) \in Event
        <5>1. cur[x] \in Msgs /\ msg \in [Msgs -> MsgRec]
          BY <1>3, <4>1, HandTypes DEF IInv, Shapes, Busy
        <5>2. QED
          BY <5>1 DEF Content, Event, MsgRec
      <4>3. state[lp] = Append(H[n], Content(cur[x]))
        BY <2>1, <4>1 DEF IsHistory
      <4>4. Append(H[n], Content(cur[x])) = H[n] \o <<Content(cur[x])>>
        BY <2>7, <4>2, AppendIsConcat
      <4> HIDE DEF after
      <4>5. QED
        BY <2>7, <3>2, <4>3, <4>4
    <3>3. QED
      BY <3>1, <3>2
  <2>10. QED
    BY <2>8, <2>9 DEF Busy
<1>4. IInv /\ HaveHistories => StateMatchesLog
  BY <1>3 DEF StateMatchesLog
<1>5. QED
  BY <1>1, <1>2, <1>4, PTL DEF Spec

=============================================================================
