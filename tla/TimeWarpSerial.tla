--------------------------- MODULE TimeWarpSerial ---------------------------
(***************************************************************************)
(* What the optimistic engine promises: the results of the sequential one. *)
(* serial/serial.c keeps all messages in one heap and processes the first  *)
(* until none is left; SerialRun is that loop, and the properties compare  *)
(* the LP states of TimeWarp with the ones it leaves.                      *)
(***************************************************************************)
EXTENDS TimeWarp, SequencesExt

CONSTANT MaxSteps  \* more than the messages a sequential run processes

SerialBefore(a, b) == a.t < b.t \/ (a.t = b.t /\ a.ty > b.ty)

SerialFirst(q) ==
  CHOOSE i \in DOMAIN q : \A j \in DOMAIN q : ~ SerialBefore(q[j], q[i])

\* process the first message of the heap, insert what it schedules
SerialStep(s) ==
  IF s.queue = <<>> THEN s
  ELSE LET i  == SerialFirst(s.queue)
           m  == s.queue[i]
           ev == [t |-> m.t, ty |-> m.ty]
       IN  [queue |-> RemoveAt(s.queue, i) \o Handler(m.dest, s.hist[m.dest], ev),
            hist  |-> [s.hist EXCEPT ![m.dest] = Append(@, ev)]]

SerialInit ==
  [queue |-> FlattenSeq([i \in 1 .. Cardinality(LPs) |->
                           InitOuts(SetToSeq(LPs)[i])]),
   hist  |-> [lp \in LPs |-> <<InitEvent>>]]

SerialRun[n \in 0 .. MaxSteps] ==
  IF n = 0 THEN SerialInit ELSE SerialStep(SerialRun[n - 1])

SerialEnd == SerialRun[MaxSteps]

ASSUME MaxStepsIsEnough == SerialEnd.queue = <<>>

UpTo(s, g) == SelectSeq(s, LAMBDA e : e.t < g)

\* Events before every pending message are final, and they are exactly the
\* events the sequential run executes up to that time, in the same order.
CommittedIsSerial ==
  \A lp \in LPs, g \in 1 .. MaxT + 1 :
    IsGvt(g) => UpTo(state[lp], g) = UpTo(SerialEnd.hist[lp], g)

\* Whatever the speculation, the simulation settles in the sequential result:
\* in the end all queues are empty, all threads poll, no message that was taken
\* back is left in a log, and every LP is in the state of the sequential run.
EndsAsSerial == <>[](Quiescent /\ \A lp \in LPs : state[lp] = SerialEnd.hist[lp])

=============================================================================
