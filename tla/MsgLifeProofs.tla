--------------------------- MODULE MsgLifeProofs ----------------------------
(***************************************************************************)
(* Proofs that the flags protocol of MsgLife is safe, for any set of       *)
(* messages.  The inductive invariant is IInv.                             *)
(***************************************************************************)
EXTENDS MsgLife, TLAPS

\* The types are kept by every step.
LEMMA TypeInit == Init => TypeOK
BY DEF Init, TypeOK, PROCESSED

\* An action that touches m leaves the other messages where they are.
LEMMA OthersUntouched ==
  ASSUME NEW n \in Msgs, Accounted(n),
         flags'[n] = flags[n],
         n \in live' <=> n \in live,
         n \in marked' <=> n \in marked,
         n \in queued' <=> n \in queued,
         n \in taken' <=> n \in taken,
         n \in running' <=> n \in running,
         n \in logged' <=> n \in logged,
         n \in killing' <=> n \in killing,
         n \in back' <=> n \in back
  PROVE  Accounted(n)'
BY DEF Accounted, Free, New, Done, Cancelled, AntiMsg, Killed, Waiting,
       NotWaiting, Processed, NotProcessed

\* Nothing is allocated at the start.
LEMMA InitInv == Init => IInv
BY TypeInit DEF Init, IInv, Accounted, Free, New, Done, Waiting, NotWaiting,
       Processed, NotProcessed, ANTI, PROCESSED

\* The inductive step, one case per operation on a message m; under each,
\* the types and the messages, m first and then the others.
LEMMA StepInv == IInv /\ [Next]_vars => IInv'
<1> SUFFICES ASSUME IInv, [Next]_vars PROVE IInv'
  OBVIOUS
<1> USE DEF ANTI, PROCESSED, IsAnti, IsProcessed
<1>1. ASSUME NEW m \in Msgs, Send(m) PROVE IInv'
  <2>1. TypeOK'
    BY <1>1 DEF IInv, TypeOK, Send
  <2>2. Accounted(m)'
    BY <1>1 DEF IInv, TypeOK, Send, Accounted, Free, New, Waiting, NotWaiting, Processed,
                NotProcessed
  <2>3. ASSUME NEW n \in Msgs \ {m} PROVE Accounted(n)'
    BY <1>1, OthersUntouched DEF IInv, TypeOK, Send
  <2>4. QED BY <2>1, <2>2, <2>3 DEF IInv
<1>2. ASSUME NEW m \in Msgs, NEW old \in SUBSET logged, Extract(m, old)
      PROVE  IInv'
  <2>1. TypeOK'
    BY <1>2 DEF IInv, TypeOK, Extract
  <2>2. Accounted(m)'
    BY <1>2 DEF IInv, TypeOK, Extract, Accounted, Free, New, Done, Cancelled, AntiMsg,
                Killed, Waiting, NotWaiting, Processed, NotProcessed
  <2>3. ASSUME NEW n \in Msgs \ {m} PROVE Accounted(n)'
    <3>1. CASE n \notin old
      BY <1>2, <3>1, OthersUntouched DEF IInv, TypeOK, Extract
    <3>2. CASE n \in old
      BY <1>2, <3>2 DEF IInv, TypeOK, Extract, Accounted, Free, New, Done, Cancelled,
                AntiMsg, Killed, Waiting, NotWaiting, Processed, NotProcessed
    <3>3. QED BY <3>1, <3>2
  <2>4. QED BY <2>1, <2>2, <2>3 DEF IInv
<1>3. ASSUME NEW m \in Msgs, Drop(m) PROVE IInv'
  <2>1. TypeOK'
    BY <1>3 DEF IInv, TypeOK, Drop
  <2>2. Accounted(m)'
    BY <1>3 DEF IInv, TypeOK, Drop, Accounted, Free, New, Done, Cancelled, AntiMsg,
                Killed, Waiting, NotWaiting, Processed, NotProcessed
  <2>3. ASSUME NEW n \in Msgs \ {m} PROVE Accounted(n)'
    BY <1>3, OthersUntouched DEF IInv, TypeOK, Drop
  <2>4. QED BY <2>1, <2>2, <2>3 DEF IInv
<1>4. ASSUME NEW m \in Msgs, Kill(m) PROVE IInv'
  <2>1. TypeOK'
    BY <1>4 DEF IInv, TypeOK, Kill
  <2>2. Accounted(m)'
    BY <1>4 DEF IInv, TypeOK, Kill, Accounted, Free, New, Done, Cancelled, AntiMsg,
                Killed, Waiting, NotWaiting, Processed, NotProcessed
  <2>3. ASSUME NEW n \in Msgs \ {m} PROVE Accounted(n)'
    BY <1>4, OthersUntouched DEF IInv, TypeOK, Kill
  <2>4. QED BY <2>1, <2>2, <2>3 DEF IInv
<1>5. ASSUME NEW m \in Msgs, Run(m) PROVE IInv'
  <2>1. TypeOK'
    BY <1>5 DEF IInv, TypeOK, Run, Accounted, New, Done, Cancelled, AntiMsg, Killed, Free,
                NotWaiting
  <2>2. Accounted(m)'
    BY <1>5 DEF IInv, TypeOK, Run, Accounted, Free, New, Done, Cancelled, AntiMsg,
                Killed, Waiting, NotWaiting, Processed, NotProcessed
  <2>3. ASSUME NEW n \in Msgs \ {m} PROVE Accounted(n)'
    BY <1>5, OthersUntouched DEF IInv, TypeOK, Run
  <2>4. QED BY <2>1, <2>2, <2>3 DEF IInv
<1>6. ASSUME NEW m \in Msgs, Log(m) PROVE IInv'
  <2>1. TypeOK'
    BY <1>6 DEF IInv, TypeOK, Log
  <2>2. Accounted(m)'
    BY <1>6 DEF IInv, TypeOK, Log, Accounted, Free, New, Done, Cancelled, AntiMsg,
                Killed, Waiting, NotWaiting, Processed, NotProcessed
  <2>3. ASSUME NEW n \in Msgs \ {m} PROVE Accounted(n)'
    BY <1>6, OthersUntouched DEF IInv, TypeOK, Log
  <2>4. QED BY <2>1, <2>2, <2>3 DEF IInv
<1>7. ASSUME NEW m \in Msgs, UndoSent(m) PROVE IInv'
  <2>1. TypeOK'
    BY <1>7 DEF IInv, TypeOK, UndoSent, Accounted, New, Done, Cancelled, AntiMsg, Killed,
                Free
  <2>2. Accounted(m)'
    BY <1>7 DEF IInv, TypeOK, UndoSent, Accounted, Free, New, Done, Cancelled, AntiMsg,
                Killed, Waiting, NotWaiting, Processed, NotProcessed
  <2>3. ASSUME NEW n \in Msgs \ {m} PROVE Accounted(n)'
    BY <1>7, OthersUntouched DEF IInv, TypeOK, UndoSent
  <2>4. QED BY <2>1, <2>2, <2>3 DEF IInv
<1>8. ASSUME NEW m \in Msgs, UndoPast(m) PROVE IInv'
  <2>1. TypeOK'
    BY <1>8 DEF IInv, TypeOK, UndoPast, Accounted, New, Done, Cancelled, AntiMsg, Killed,
                Free, NotProcessed
  <2>2. Accounted(m)'
    BY <1>8 DEF IInv, TypeOK, UndoPast, Accounted, Free, New, Done, Cancelled, AntiMsg,
                Killed, Waiting, NotWaiting, Processed, NotProcessed
  <2>3. ASSUME NEW n \in Msgs \ {m} PROVE Accounted(n)'
    BY <1>8, OthersUntouched DEF IInv, TypeOK, UndoPast
  <2>4. QED BY <2>1, <2>2, <2>3 DEF IInv
<1>9. ASSUME NEW m \in Msgs, PutBack(m) PROVE IInv'
  <2>1. TypeOK'
    BY <1>9 DEF IInv, TypeOK, PutBack
  <2>2. Accounted(m)'
    BY <1>9 DEF IInv, TypeOK, PutBack, Accounted, Free, New, Done, Cancelled, AntiMsg,
                Killed, Waiting, NotWaiting, Processed, NotProcessed
  <2>3. ASSUME NEW n \in Msgs \ {m} PROVE Accounted(n)'
    BY <1>9, OthersUntouched DEF IInv, TypeOK, PutBack
  <2>4. QED BY <2>1, <2>2, <2>3 DEF IInv
<1>10. ASSUME NEW m \in Msgs, FreeKilled(m) PROVE IInv'
  <2>1. TypeOK'
    BY <1>10 DEF IInv, TypeOK, FreeKilled
  <2>2. Accounted(m)'
    BY <1>10 DEF IInv, TypeOK, FreeKilled, Accounted, Free, New, Done, Cancelled,
                 AntiMsg, Killed, Waiting, NotWaiting, Processed, NotProcessed
  <2>3. ASSUME NEW n \in Msgs \ {m} PROVE Accounted(n)'
    BY <1>10, OthersUntouched DEF IInv, TypeOK, FreeKilled
  <2>4. QED BY <2>1, <2>2, <2>3 DEF IInv
<1>11. CASE UNCHANGED vars
  BY <1>11 DEF IInv, TypeOK, vars, Accounted, Free, New, Done, Cancelled, AntiMsg,
               Killed, Waiting, NotWaiting, Processed, NotProcessed
<1>12. QED
  BY <1>1, <1>2, <1>3, <1>4, <1>5, <1>6, <1>7, <1>8, <1>9, <1>10, <1>11 DEF Next

\* The inductive invariant holds in every state.
LEMMA AlwaysIInv == Spec => []IInv
BY InitInv, StepInv, PTL DEF Spec

-----------------------------------------------------------------------------
\* The types hold for every set of messages.
THEOREM TypeCorrect == Spec => []TypeOK
<1>1. IInv => TypeOK
  BY DEF IInv
<1>2. QED
  BY <1>1, AlwaysIInv, PTL

\* No message is touched after it is freed (msg_allocator_free in process.c).
THEOREM MemorySafety == Spec => []NoUseAfterFree
<1>1. IInv => NoUseAfterFree
  BY DEF IInv, TypeOK, NoUseAfterFree, Accounted, Free, NotWaiting, NotProcessed
<1>2. QED
  BY <1>1, AlwaysIInv, PTL

\* Sender and receiver never both queue a message (send_anti_messages).
THEOREM NeverQueuedTwice == Spec => []QueuedOnce
<1>1. IInv => QueuedOnce
  BY DEF IInv, TypeOK, QueuedOnce, Accounted, Free, New, Done, Cancelled, AntiMsg,
         Killed, Waiting, NotWaiting
<1>2. QED
  BY <1>1, AlwaysIInv, PTL

\* An anti-message finds its message in the log (match_anti_msg).
THEOREM AntiFindsItsMessage == Spec => []AntiIsLogged
<1>1. IInv => AntiIsLogged
  BY DEF IInv, TypeOK, AntiIsLogged, Accounted, Free, New, Done, Cancelled, AntiMsg,
         Killed, Waiting, NotWaiting, Processed, ANTI, PROCESSED
<1>2. QED
  BY <1>1, AlwaysIInv, PTL

\* Shutdown frees every message once (process_lp_fini, msg_queue_fini).
THEOREM ShutdownIsExact == Spec => []ShutdownFreesOnce
<1>1. IInv => ShutdownFreesOnce
  <2> SUFFICES ASSUME IInv, taken = {}, running = {}, killing = {}, back = {}
               PROVE  Fini \cap queued = {} /\ Fini \cup queued = live
    BY DEF ShutdownFreesOnce
  <2>1. ASSUME NEW m \in Msgs
        PROVE  /\ m \in live <=> (m \in queued \/ (m \in logged /\ ~ IsAnti(flags[m])))
               /\ ~ (m \in queued /\ m \in logged /\ ~ IsAnti(flags[m]))
    BY DEF IInv, TypeOK, Accounted, Free, New, Done, Cancelled, AntiMsg, Killed, Waiting,
           NotWaiting, Processed, NotProcessed, ANTI, PROCESSED, IsAnti
  <2>2. QED
    BY <2>1 DEF IInv, TypeOK, Fini
<1>2. QED
  BY <1>1, AlwaysIInv, PTL

=============================================================================
