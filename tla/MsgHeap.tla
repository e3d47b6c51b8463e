------------------------------- MODULE MsgHeap -------------------------------
(***************************************************************************)
(* The queue of a thread (datatypes/msg_queue.c): the list where every     *)
(* thread of the node pushes the messages for it, and the binary heap      *)
(* (datatypes/heap.h) into which the thread moves them.                    *)
(*                                                                         *)
(* Elements are compared by time, then by their ANTI bit, then by type.    *)
(* The bit is set by the sender, at any time: a message in the heap may    *)
(* come to be before its parent.  TimeWarp takes from a set what this      *)
(* module shows the heap to give.                                          *)
(***************************************************************************)
EXTENDS Integers, Sequences, SequencesExt, FiniteSetsExt

CONSTANT Slots  \* the addresses of messages: an address is used again and again

ASSUME SlotsAssumption == Slots \in Nat \ {0}

Messages == 1 .. Slots
DestT(m) == (m + 2) \div 3  \* three messages of each time, of different types

VARIABLES
  mqp,      \* the heap
  list,     \* the list, the last pushed first
  antis,    \* the messages whose ANTI bit is set
  waiting,  \* history: what was inserted and not yet extracted
  steady    \* history: no bit was set since nothing was waiting

queueVars == <<mqp, list, antis, waiting, steady>>

\* q_elem_is_before
QElemIsBefore(a, b) ==
  \/ DestT(a) < DestT(b)
  \/ /\ DestT(a) = DestT(b)
     /\ IF a \in antis <=> b \in antis THEN a > b ELSE a \in antis

-----------------------------------------------------------------------------
\* heap_insert: elem climbs past every ancestor it is before.  Climb[i] is the
\* array in which it has come to index i and goes on.
HeapInsertElem(h, elem) ==
  LET Climb[i \in 1 .. Len(h) + 1] ==
        IF i > 1 /\ QElemIsBefore(elem, h[i \div 2])
        THEN [Climb[i \div 2] EXCEPT ![i] = h[i \div 2]]
        ELSE [Append(h, elem) EXCEPT ![i] = elem]
  IN  Climb[Len(h) + 1]

\* fault: only the first of two children is looked at
FirstChild(h, i, cnt) == 2 * i

\* the child that moves up
HeapChild(h, i, cnt) ==
  IF 2 * i + 1 <= cnt /\ QElemIsBefore(h[2 * i + 1], h[2 * i]) THEN 2 * i + 1 ELSE 2 * i

\* heap_extract: what remains when the last element descends from the top.
HeapWithoutMin(h) ==
  LET cnt == Len(h) - 1
      last == h[cnt + 1]
      Descend[i \in 1 .. cnt] ==
        LET c == HeapChild(h, i, cnt) IN
        IF 2 * i <= cnt /\ QElemIsBefore(h[c], last)
        THEN [Descend[c] EXCEPT ![i] = h[c]]
        ELSE [Front(h) EXCEPT ![i] = last]
  IN  IF cnt = 0 THEN <<>> ELSE Descend[1]

-----------------------------------------------------------------------------
QueueInit ==
  /\ mqp = <<>> /\ list = <<>>
  /\ antis = {} /\ waiting = {} /\ steady = TRUE

\* msg_queue_insert, by any thread
QueueInsert(m) ==
  /\ m \notin waiting
  /\ list' = <<m>> \o list
  /\ waiting' = waiting \cup {m}
  /\ UNCHANGED <<mqp, antis, steady>>

\* the sender withdraws a message that waits
SetAnti(m) ==
  /\ m \in waiting \ antis
  /\ antis' = antis \cup {m}
  /\ steady' = FALSE
  /\ UNCHANGED <<mqp, list, waiting>>

\* msg_queue_insert_queued
Inserted ==
  LET With[i \in 0 .. Len(list)] ==
        IF i = 0 THEN mqp ELSE HeapInsertElem(With[i - 1], list[i])
  IN  With[Len(list)]

\* msg_queue_extract.  The caller processes or frees the message: its address
\* comes back with a message whose bit is clear.
QueueExtract ==
  /\ list' = <<>>
  /\ IF Inserted = <<>> THEN UNCHANGED <<mqp, antis, waiting>>
     ELSE /\ mqp' = HeapWithoutMin(Inserted)
          /\ waiting' = waiting \ {Inserted[1]}
          /\ antis' = antis \ {Inserted[1]}
  /\ steady' = (steady \/ waiting' = {})

\* The same when the retractable event of an LP (LpRollback) comes before all.
RetractableFirst ==
  /\ mqp' = Inserted
  /\ list' = <<>>
  /\ UNCHANGED <<antis, waiting, steady>>

QueueNext == QueueExtract \/ RetractableFirst \/ \E m \in Messages : QueueInsert(m) \/ SetAnti(m)

QueueSpec == QueueInit /\ [][QueueNext]_queueVars

-----------------------------------------------------------------------------
\* Although bits change under it the heap stays in the order of times, so that
\* what comes out next is one of the earliest messages; no message is lost or
\* doubled on its way through the list and the heap.  Among those of one time it
\* is the right one as long as no bit has been set: once one has, two of the
\* others may be in the wrong order, also when the message with the bit is gone.
HeapIsRight ==
  /\ \A i \in 2 .. Len(mqp) : DestT(mqp[i \div 2]) <= DestT(mqp[i])
  /\ ToSet(mqp) \cup ToSet(list) = waiting
  /\ IsInjective(mqp \o list)
  /\ waiting # {} =>
       /\ \A m \in waiting : DestT(Inserted[1]) <= DestT(m)
       /\ steady => \A m \in waiting : ~ QElemIsBefore(m, Inserted[1])

=============================================================================
