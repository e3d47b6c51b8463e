------------------------------ MODULE MsgLife -------------------------------
(***************************************************************************)
(* The life of a local message: who may touch it, and how sender and       *)
(* receiver agree through the two bits of lp_msg.flags on who queues it    *)
(* again and who frees it (lp/process.c, lp/msg.h).                        *)
(*                                                                         *)
(* The sender may take a message back while it undoes the event that sent  *)
(* it; the receiver may undo its processing at any moment.  Both do it with *)
(* one atomic add and decide by the value the add returns.  This module    *)
(* keeps nothing but that protocol: which message is undone, and when, is  *)
(* left open, so it describes any number of LPs, threads and messages.     *)
(* TimeWarp is the engine that runs the protocol, and implements it.       *)
(***************************************************************************)
EXTENDS Naturals

CONSTANT Msgs

ANTI == 1
PROCESSED == 2

VARIABLES
  flags,   \* lp_msg.flags
  live,    \* allocated
  marked,  \* in the log of the sender, which may take it back
  queued,  \* in a queue, or in the list that feeds it
  taken,   \* extracted, the flags not yet looked at
  running, \* being processed, not yet in the log of the receiver
  logged,  \* in the log of the receiver, not undone
  killing, \* an anti-message whose effects are being rolled back
  back     \* undone, about to be put back in the queue

vars == <<flags, live, marked, queued, taken, running, logged, killing, back>>

IsAnti(f) == f \in {1, 3, 5}
IsProcessed(f) == f \in {2, 3}

\* the LP_INIT messages are logged, what they sent is queued
Init ==
  /\ live \in SUBSET Msgs
  /\ marked \in SUBSET live
  /\ queued = marked
  /\ logged = live \ marked
  /\ flags = [m \in Msgs |-> IF m \in logged THEN PROCESSED ELSE 0]
  /\ taken = {}
  /\ running = {}
  /\ killing = {}
  /\ back = {}

\* ScheduleNewEvent
Send(m) ==
  /\ m \notin live
  /\ live' = live \cup {m}
  /\ marked' = marked \cup {m}
  /\ queued' = queued \cup {m}
  /\ flags' = [flags EXCEPT ![m] = 0]
  /\ UNCHANGED <<taken, running, logged, killing, back>>

\* msg_queue_extract.  The thread that extracts m is the one that processes
\* it, so it has finished with it; it first frees the committed messages old.
Extract(m, old) ==
  /\ m \in queued \ running
  /\ old \subseteq {n \in logged : flags[n] = PROCESSED}
  /\ queued' = queued \ {m}
  /\ taken' = taken \cup {m}
  /\ live' = live \ old
  /\ logged' = logged \ old
  /\ marked' = marked \ old
  /\ UNCHANGED <<flags, running, killing, back>>

\* process_msg adds PROCESSED.  A message that was taken back while it was
\* queued is freed;
Drop(m) ==
  /\ m \in taken
  /\ flags[m] = ANTI
  /\ flags' = [flags EXCEPT ![m] = @ + PROCESSED]
  /\ taken' = taken \ {m}
  /\ live' = live \ {m}
  /\ UNCHANGED <<marked, queued, running, logged, killing, back>>

\* one that was taken back after it had been processed is rolled back;
Kill(m) ==
  /\ m \in taken
  /\ flags[m] = ANTI + PROCESSED
  /\ flags' = [flags EXCEPT ![m] = @ + PROCESSED]
  /\ taken' = taken \ {m}
  /\ killing' = killing \cup {m}
  /\ UNCHANGED <<live, marked, queued, running, logged, back>>

\* any other is processed.
Run(m) ==
  /\ m \in taken
  /\ ~ IsAnti(flags[m])
  /\ flags' = [flags EXCEPT ![m] = @ + PROCESSED]
  /\ taken' = taken \ {m}
  /\ running' = running \cup {m}
  /\ UNCHANGED <<live, marked, queued, logged, killing, back>>

\* the end of process_msg
Log(m) ==
  /\ m \in running
  /\ running' = running \ {m}
  /\ logged' = logged \cup {m}
  /\ UNCHANGED <<flags, live, marked, queued, taken, killing, back>>

\* send_anti_messages, sender side: the sender queues the message only if
\* the receiver has processed it
UndoSent(m) ==
  /\ m \in marked
  /\ flags' = [flags EXCEPT ![m] = @ + ANTI]
  /\ marked' = marked \ {m}
  /\ back' = IF IsProcessed(flags[m]) THEN back \cup {m} ELSE back
  /\ UNCHANGED <<live, queued, taken, running, logged, killing>>

\* fault: the receiver always queues it
UndoPastQueues(m) ==
  /\ m \in logged
  /\ flags' = [flags EXCEPT ![m] = @ - PROCESSED]
  /\ logged' = logged \ {m}
  /\ back' = back \cup {m}
  /\ UNCHANGED <<live, marked, queued, taken, running, killing>>

\* receiver side: the receiver queues it only if it was not taken back
UndoPast(m) ==
  /\ m \in logged
  /\ flags' = [flags EXCEPT ![m] = @ - PROCESSED]
  /\ logged' = logged \ {m}
  /\ back' = IF IsAnti(flags[m]) THEN back ELSE back \cup {m}
  /\ UNCHANGED <<live, marked, queued, taken, running, killing>>

\* msg_queue_insert
PutBack(m) ==
  /\ m \in back
  /\ back' = back \ {m}
  /\ queued' = queued \cup {m}
  /\ UNCHANGED <<flags, live, marked, taken, running, logged, killing>>

\* fault: the message is freed before its entry is undone
FreeEarly(m) ==
  /\ m \in killing
  /\ killing' = killing \ {m}
  /\ live' = live \ {m}
  /\ UNCHANGED <<flags, marked, queued, taken, running, logged, back>>

\* the end of handle_anti_msg
FreeKilled(m) ==
  /\ m \in killing \ logged
  /\ killing' = killing \ {m}
  /\ live' = live \ {m}
  /\ UNCHANGED <<flags, marked, queued, taken, running, logged, back>>

Next ==
  \E m \in Msgs :
    \/ Send(m)
    \/ \E old \in SUBSET logged : Extract(m, old)
    \/ Drop(m)
    \/ Kill(m)
    \/ Run(m)
    \/ Log(m)
    \/ UndoSent(m)
    \/ UndoPast(m)
    \/ PutBack(m)
    \/ FreeKilled(m)

Spec == Init /\ [][Next]_vars

-----------------------------------------------------------------------------
\* The flags stay in 0..5 and the places of messages are sets of messages.
TypeOK ==
  /\ flags \in [Msgs -> 0 .. 5]
  /\ live \subseteq Msgs
  /\ marked \subseteq Msgs
  /\ queued \subseteq Msgs
  /\ taken \subseteq Msgs
  /\ running \subseteq Msgs
  /\ logged \subseteq Msgs
  /\ killing \subseteq Msgs
  /\ back \subseteq Msgs

\* No thread holds, queues or can still take back a message that was freed
\* (msg_allocator_free against every other access of process.c).
NoUseAfterFree ==
  marked \cup queued \cup taken \cup running \cup logged \cup killing \cup back
    \subseteq live

\* Of sender and receiver, at most one puts an undone message back, and only
\* when it is neither queued nor extracted already.
QueuedOnce ==
  /\ back \cap queued = {}
  /\ back \cap taken = {}
  /\ queued \cap taken = {}

\* match_anti_msg finds the message it looks for.
AntiIsLogged == \A m \in taken : flags[m] = ANTI + PROCESSED => m \in logged

\* When every thread is between two messages, process_lp_fini (the logged
\* ones not taken back) and msg_queue_fini (the queued ones) free together
\* every message, each once.
FiniAll == logged  \* fault: the ANTI bit is not looked at
Fini == {m \in logged : ~ IsAnti(flags[m])}
ShutdownFreesOnce ==
  (taken = {} /\ running = {} /\ killing = {} /\ back = {})
    => /\ Fini \cap queued = {}
       /\ Fini \cup queued = live

-----------------------------------------------------------------------------
(***************************************************************************)
(* The inductive invariant: what the flags say about where a message is.   *)
(***************************************************************************)

\* in the queue, or on its way into or out of it, in one place only
Waiting(m) ==
  \/ m \in queued /\ m \notin taken /\ m \notin back
  \/ m \notin queued /\ m \in taken /\ m \notin back
  \/ m \notin queued /\ m \notin taken /\ m \in back
NotWaiting(m) == m \notin queued /\ m \notin taken /\ m \notin back

Processed(m) ==
  \/ m \in running /\ m \notin logged
  \/ m \notin running /\ m \in logged
NotProcessed(m) == m \notin running /\ m \notin logged

Free(m) ==
  m \notin marked /\ NotWaiting(m) /\ NotProcessed(m) /\ m \notin killing

\* sent, or undone by the receiver
New(m) ==
  flags[m] = 0 /\ Waiting(m) /\ NotProcessed(m) /\ m \notin killing
\* processed, or being processed
Done(m) ==
  flags[m] = PROCESSED /\ NotWaiting(m) /\ Processed(m) /\ m \notin killing
\* taken back before it was processed, or after its processing was undone
Cancelled(m) ==
  /\ flags[m] = ANTI
  /\ m \notin marked
  /\ Waiting(m) /\ NotProcessed(m) /\ m \notin killing
\* taken back after it was processed: queued as its own anti-message
AntiMsg(m) ==
  /\ flags[m] = ANTI + PROCESSED
  /\ m \notin marked
  /\ Waiting(m) /\ Processed(m) /\ m \notin killing
  /\ ~ (m \in running /\ m \in taken)
\* handled by the receiver, before and after its entry is undone
Killed(m) ==
  /\ m \notin marked
  /\ NotWaiting(m) /\ m \in killing /\ m \notin running
  /\ \/ flags[m] = ANTI + 2 * PROCESSED /\ m \in logged
     \/ flags[m] = ANTI + PROCESSED /\ m \notin logged

Accounted(m) ==
  IF m \in live
  THEN New(m) \/ Done(m) \/ Cancelled(m) \/ AntiMsg(m) \/ Killed(m)
  ELSE Free(m)

\* Every message is in one of the five situations the flags can express, or
\* is free: the strengthening of the four safety invariants.
IInv == TypeOK /\ \A m \in Msgs : Accounted(m)

=============================================================================
