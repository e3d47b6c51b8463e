------------------------------ MODULE RemoteMsg ------------------------------
(***************************************************************************)
(* Messages between the nodes of a distributed run: MPI (distributed/mpi.c) *)
(* carries them out of the buffer of the sender, which is freed when the   *)
(* GVT says that nobody needs it; the GVT algorithm counts them by colour   *)
(* (gvt/gvt.h, gvt/gvt.c); an anti-message may come before its message     *)
(* (handle_remote_anti_msg, check_early_anti_messages of lp/process.c).    *)
(*                                                                         *)
(* Each thread has one LP.  Local messages are left to TimeWarp: here each *)
(* LP has some that came with LP_INIT and are never taken back.  Several   *)
(* threads of a node receive and insert on their own, so that the order in *)
(* which MPI delivers does not survive: any message may come first.        *)
(***************************************************************************)
EXTENDS Integers, Sequences, FiniteSets, SequencesExt, FiniteSetsExt

CONSTANTS
  Threads,   \* the threads of all nodes
  Nodes,     \* the nodes; node 0 starts the rounds
  NodeOf,    \* the node of each thread
  Seeds,     \* the times of the messages that each LP starts with
  MaxT,      \* bound: the last time of a message
  MaxSent,   \* bound: remote messages sent
  MaxRounds  \* bound: rounds of the GVT

ASSUME RemoteAssumption ==
  /\ Nodes = 0 .. Cardinality(Nodes) - 1
  /\ NodeOf \in [Threads -> Nodes]
  /\ \A n \in Nodes : \E th \in Threads : NodeOf[th] = n
  /\ {MaxT, MaxSent, MaxRounds} \subseteq Nat
  /\ Seeds \in [Threads -> SUBSET (1 .. MaxT)]

Inf == MaxT + 1   \* SIMTIME_MAX
Peers(n) == {th \in Threads : NodeOf[th] = n}
NThreads(n) == Cardinality(Peers(n))

VARIABLES
  ran,           \* the thread has processed a message in this turn of its loop
  queue, log,    \* of each LP; the log holds what it processed and sent
  early_antis,   \* of each LP
  at_gvt_list,   \* of each thread
  mail,          \* what MPI has accepted and not delivered yet
  remote_msg_seq, last_seq,     \* per thread, colour and node
  remote_msg_received,          \* per thread and colour
  thread_phase, node_phase, gvt_phase, gvt_accumulator,
  reducing_p,    \* per thread; of a node, the first one also gets the minimum
  c_c, total_sent, total_msg_received,   \* per node
  sum_in, min_in,   \* the collectives: what each node has put in, in order
  ctrl,          \* control messages under way: [to, code]
  gvt_nodes,     \* on node 0
  current_gvt,   \* the last one each thread got
  rounds,        \* the number of rounds started, for the bound
  committed      \* history: the messages whose sender forgot them

lpVars == <<queue, log, early_antis, at_gvt_list, remote_msg_seq, committed>>
countVars == <<total_sent, total_msg_received, last_seq, remote_msg_received>>
mpiVars == <<mail, sum_in, min_in, ctrl, gvt_nodes, rounds>>
phaseVars == <<thread_phase, node_phase, gvt_phase, gvt_accumulator, reducing_p,
               c_c, current_gvt>>
remoteVars == <<ran, lpVars, countVars, mpiVars, phaseVars>>

-----------------------------------------------------------------------------
(* A message is named by what raw_flags and m_seq hold: its sender and a   *)
(* sequence number with the colour.  The two low bits of raw_flags, which  *)
(* carry the colours of a message and of its anti-message, are col.        *)

Colours == {0, 1}
Seed(lp, t) == [from |-> lp, to |-> lp, m_seq |-> -1, t |-> t, anti |-> FALSE, col |-> 0]
IsRemote(m) == m.from # m.to
Same(a, b) == a.from = b.from /\ a.to = b.to /\ a.m_seq = b.m_seq

\* msg_is_before: all messages are of one type here
Before(a, b) == a.t < b.t \/ (a.t = b.t /\ a.anti /\ ~b.anti)

Past(m) == [k |-> "past", m |-> m]
Sent(m) == [k |-> "remote", m |-> m]
MsgsOf(entries, k) == {e.m : e \in {x \in Range(entries) : x.k = k}}

\* gvt_remote_msg_send
NewMsg(th, dest, t, seq) ==
  [from |-> th, to |-> dest, t |-> t, anti |-> FALSE, col |-> gvt_phase[th],
   m_seq |-> 2 * seq[gvt_phase[th]][NodeOf[dest]] + gvt_phase[th]]

\* fault: an anti-message has the colour of its message
AntiOfOldColour(th, m) == [m EXCEPT !.anti = TRUE]

\* gvt_remote_anti_msg_send
AntiOf(th, m) == [m EXCEPT !.anti = TRUE, !.col = gvt_phase[th]]

\* mpi_remote_anti_msg_send, for the messages of sent
AntisOf(th, sent) == {AntiOf(th, m) : m \in sent}

\* Every send is counted in the colour that the thread has now.
Counted(th, seq, sent) ==
  [seq EXCEPT ![gvt_phase[th]] = [n \in Nodes |->
     @[n] + Cardinality({m \in sent : NodeOf[m.to] = n})]]

-----------------------------------------------------------------------------
(* What process_msg changes, as a record; lp is also its thread.           *)
State(lp) ==
  [queue |-> queue[lp], log |-> log[lp], early |-> early_antis[lp],
   at_gvt |-> at_gvt_list[lp], seq |-> remote_msg_seq[lp], out |-> {}]

Becomes(lp, s) ==
  /\ queue' = [queue EXCEPT ![lp] = s.queue]
  /\ log' = [log EXCEPT ![lp] = s.log]
  /\ early_antis' = [early_antis EXCEPT ![lp] = s.early]
  /\ at_gvt_list' = [at_gvt_list EXCEPT ![lp] = s.at_gvt]
  /\ remote_msg_seq' = [remote_msg_seq EXCEPT ![lp] = s.seq]
  /\ mail' = mail \cup s.out

\* fossil_lp_collect, with a checkpoint at each message: all entries go up to
\* the last message before the GVT.
OldEntries(l, g) == Max({0} \cup {j \in DOMAIN l : l[j].k = "past" /\ l[j].m.t < g})

\* fault: the buffer of a message that was cancelled is freed at once
RollBackFrees(lp, s, i, dead) ==
  LET undone == SubSeq(s.log, i + 1, Len(s.log))
      sent   == MsgsOf(undone, "remote")
  IN  [s EXCEPT !.log = SubSeq(@, 1, i),
                !.queue = @ \cup (MsgsOf(undone, "past") \ dead),
                !.out = AntisOf(lp, sent),
                !.seq = Counted(lp, @, sent)]

\* send_anti_messages and the rest of do_rollback, to the first i entries: a
\* message that is in dead has been cancelled and does not come back.
RollBack(lp, s, i, dead) ==
  LET undone == SubSeq(s.log, i + 1, Len(s.log))
      sent   == MsgsOf(undone, "remote")
  IN  [s EXCEPT !.log = SubSeq(@, 1, i),
                !.queue = @ \cup (MsgsOf(undone, "past") \ dead),
                !.out = AntisOf(lp, sent),
                !.seq = Counted(lp, @, sent),
                !.at_gvt = @ \cup sent]

\* fault: an anti-message that finds nothing is forgotten
ProcessAntiForgets(lp, s, a) ==
  LET found == {j \in DOMAIN s.log : s.log[j].k = "past" /\ Same(s.log[j].m, a)}
      j == Max(found)
      i == Max({0} \cup {k \in 1 .. j - 1 : s.log[k].k = "past"})
  IN  IF found = {} THEN s ELSE RollBack(lp, s, i, {s.log[j].m})

\* handle_remote_anti_msg: back to the message before the one it cancels, or
\* kept until that one comes.
ProcessAnti(lp, s, a) ==
  LET found == {j \in DOMAIN s.log : s.log[j].k = "past" /\ Same(s.log[j].m, a)}
      j == Max(found)
      i == Max({0} \cup {k \in 1 .. j - 1 : s.log[k].k = "past"})
  IN  IF found = {} THEN [s EXCEPT !.early = @ \cup {a}]
      ELSE RollBack(lp, s, i, {s.log[j].m})

\* check_early_anti_messages
EarlyAnti(s, m) == {a \in s.early : IsRemote(m) /\ Same(a, m)}

\* handle_straggler_msg, when m is one
MatchStraggler(l, m) ==
  Max({0} \cup {j \in 1 .. Len(l) - 1 : l[j].k = "past" /\ ~Before(m, l[j].m)})
AfterStraggler(lp, s, m) ==
  IF s.log # <<>> /\ Before(m, Last(s.log).m)
  THEN RollBack(lp, s, MatchStraggler(s.log, m), {}) ELSE s

\* The handler has sent the messages of sent, at most one: ScheduleNewEvent.
Handled(lp, s, m, sent) ==
  [s EXCEPT !.log = @ \o SetToSeq({Sent(x) : x \in sent}) \o <<Past(m)>>,
            !.out = @ \cup sent,
            !.seq = Counted(lp, @, sent)]

TotalSends == MapThenSumSet(LAMBDA th : MapThenSumSet(LAMBDA x :
                remote_msg_seq[th][x[1]][x[2]], Colours \X Nodes), Threads)
MaySend(lp, s, m) ==
  {{}} \cup IF TotalSends >= MaxSent THEN {}
            ELSE {{NewMsg(lp, d, t, s.seq)} :
                    d \in {x \in Threads : NodeOf[x] # NodeOf[lp]}, t \in m.t .. MaxT}

\* One call of process_msg.
ProcessMsg(lp) ==
  \E m \in {x \in queue[lp] : \A y \in queue[lp] : ~Before(y, x)} :
    LET old == OldEntries(log[lp], current_gvt[lp])
        s == [State(lp) EXCEPT !.log = SubSeq(@, old + 1, Len(@)), !.queue = @ \ {m}]
        late == AfterStraggler(lp, s, m)
    IN  /\ gvt_accumulator' = [gvt_accumulator EXCEPT ![lp] = Min({@, m.t})]
        /\ committed' = committed \cup MsgsOf(SubSeq(log[lp], 1, old), "remote")
        /\ IF m.anti THEN Becomes(lp, ProcessAnti(lp, s, m))
           ELSE IF EarlyAnti(s, m) # {}
           THEN Becomes(lp, [s EXCEPT !.early = @ \ EarlyAnti(s, m)])
           ELSE \E sent \in MaySend(lp, late, m) : Becomes(lp, Handled(lp, late, m, sent))
        /\ ran' = [ran EXCEPT ![lp] = TRUE]
        /\ UNCHANGED <<countVars, sum_in, min_in, ctrl, gvt_nodes, rounds,
                       thread_phase, node_phase, gvt_phase, reducing_p, c_c, current_gvt>>

-----------------------------------------------------------------------------
(* mpi_remote_msg_handle, before the messages are processed.               *)

\* gvt_remote_msg_receive and gvt_remote_anti_msg_receive: both clear the colour
CountReceived(th, x) ==
  remote_msg_received' = [remote_msg_received EXCEPT ![th][x.col] = @ + 1]
WithoutColour(x) == [x EXCEPT !.col = 0]

ReceiveMsg(th) ==
  \E x \in mail :
    /\ ~ran[th] /\ NodeOf[x.to] = NodeOf[th]
    /\ mail' = mail \ {x}
    /\ queue' = [queue EXCEPT ![x.to] = @ \cup {WithoutColour(x)}]
    /\ CountReceived(th, x)
    /\ UNCHANGED <<ran, log, early_antis, at_gvt_list, remote_msg_seq, committed,
                   total_sent, total_msg_received, last_seq, sum_in, min_in, ctrl,
                   gvt_nodes, rounds, phaseVars>>

\* gvt_start_processing
StartProcessing(th) ==
  /\ gvt_accumulator' = [gvt_accumulator EXCEPT ![th] = Inf]
  /\ thread_phase' = [thread_phase EXCEPT ![th] = "A"]
  /\ UNCHANGED <<node_phase, gvt_phase, reducing_p, c_c, current_gvt>>

\* control_msg_process
ReceiveCtrl(th) ==
  \E x \in ctrl :
    /\ ~ran[th] /\ x.to = NodeOf[th]
    /\ ctrl' = ctrl \ {x}
    /\ IF x.code = "MSG_CTRL_GVT_START"
       THEN StartProcessing(th) /\ UNCHANGED gvt_nodes
       ELSE gvt_nodes' = gvt_nodes - 1 /\ UNCHANGED phaseVars
    /\ UNCHANGED <<ran, lpVars, countVars, mail, sum_in, min_in, rounds>>

-----------------------------------------------------------------------------
(* gvt_phase_run.  The counters that the threads of a node go by are the   *)
(* numbers of those in some phases.                                        *)

In(n, phases) == Cardinality({th \in Peers(n) : thread_phase[th] \in phases})
c_a(n) == In(n, {"C", "D"})
c_b(n) == In(n, {"B", "C"})
c_d(n) == Cardinality({th \in Peers(n) :
                         node_phase[th] \in {"min_reduce_wait", "min_wait", "done"}})
First(n) == Min(Peers(n))
Rid(th) == Cardinality({x \in Peers(NodeOf[th]) : x < th})

\* A collective is over for a node when all nodes have called it.
IsOver(in, n) == \A k \in Nodes : Len(in[k]) >= Len(in[n])

\* mpi_reduce_sum_scatter and mpi_reduce_min: x is what node n puts in.
PutSum(n, x) == sum_in' = [sum_in EXCEPT ![n] = Append(@, x)]
PutMin(n, x) == min_in' = [min_in EXCEPT ![n] = Append(@, x)]

\* mpi_control_msg_broadcast and mpi_control_msg_send_to
Broadcast(code) == {[to |-> n, code |-> code, from |-> 0] : n \in Nodes}
SendTo(code, n, from) == {[to |-> n, code |-> code, from |-> from]}

Notice(th) ==
  /\ thread_phase[th] = "idle" /\ c_b(NodeOf[th]) # 0
  /\ StartProcessing(th)
  /\ UNCHANGED <<countVars, mpiVars>>

StartGvt(th) ==
  /\ th = First(0) /\ thread_phase[th] = "idle"
  /\ gvt_nodes = 0 /\ rounds < MaxRounds
  /\ rounds' = rounds + 1
  /\ gvt_nodes' = Cardinality(Nodes)
  /\ ctrl' = ctrl \cup Broadcast("MSG_CTRL_GVT_START")
  /\ UNCHANGED <<countVars, mail, sum_in, min_in, phaseVars>>

\* gvt_thread_phase_run
ThreadPhaseRun(th) ==
  LET n == NodeOf[th]
      To(phase) == thread_phase' = [thread_phase EXCEPT ![th] = phase]
  IN  /\ node_phase[th] \in {"redux_first", "redux_second"}
      /\ \/ /\ thread_phase[th] = "A" /\ c_a(n) = 0
            /\ To("B")
            /\ UNCHANGED <<reducing_p, gvt_phase, node_phase>>
         \/ /\ thread_phase[th] = "B" /\ c_b(n) = NThreads(n)
            /\ To("C")
            /\ UNCHANGED <<reducing_p, gvt_phase, node_phase>>
         \/ /\ thread_phase[th] = "C" /\ c_a(n) = NThreads(n)
            /\ To("D")
            /\ reducing_p' = [reducing_p EXCEPT ![th] = gvt_accumulator[th]]
            /\ UNCHANGED <<gvt_phase, node_phase>>
         \/ /\ thread_phase[th] = "D" /\ c_b(n) = 0
            /\ To("A")
            /\ IF node_phase[th] = "redux_first"
               THEN /\ gvt_phase' = [gvt_phase EXCEPT ![th] = 1 - @]
                    /\ node_phase' = [node_phase EXCEPT ![th] = "sent_reduce"]
               ELSE /\ node_phase' = [node_phase EXCEPT ![th] = "min_reduce"]
                    /\ UNCHANGED gvt_phase
            /\ UNCHANGED reducing_p
      /\ UNCHANGED <<countVars, mpiVars, gvt_accumulator, c_c, current_gvt>>

NodePhase(th, from, to) ==
  /\ node_phase[th] = from
  /\ node_phase' = [node_phase EXCEPT ![th] = to]

\* What th has sent in the colour it had before joins the count of the node;
\* its last thread puts that in the sum of all nodes.
SentReduce(th) ==
  LET n == NodeOf[th]
      was == 1 - gvt_phase[th]
      last == c_c[n] = NThreads(n) - 1
  IN  /\ c_a(n) = 0
      /\ NodePhase(th, "sent_reduce", IF last THEN "sent_reduce_wait" ELSE "sent_wait")
      /\ total_sent' = [total_sent EXCEPT ![n] = [k \in Nodes |->
           @[k] + remote_msg_seq[th][was][k] - last_seq[th][was][k]]]
      /\ last_seq' = [last_seq EXCEPT ![th][was] = remote_msg_seq[th][was]]
      /\ total_msg_received' = [total_msg_received EXCEPT ![n] = @ + 1]
      /\ c_c' = [c_c EXCEPT ![n] = @ + 1]
      /\ IF last THEN PutSum(n, total_sent'[n]) ELSE UNCHANGED sum_in
      /\ UNCHANGED <<remote_msg_received, mail, min_in, ctrl, gvt_nodes, rounds, thread_phase,
                     gvt_phase, gvt_accumulator, reducing_p, current_gvt>>

\* mpi_reduce_sum_scatter_done
SentReduceWait(th) ==
  LET n == NodeOf[th]
      to_receive == MapThenSumSet(LAMBDA k : sum_in[k][Len(sum_in[n])][n], Nodes)
  IN  /\ IsOver(sum_in, n)
      /\ NodePhase(th, "sent_reduce_wait", "sent_wait")
      /\ total_msg_received' = [total_msg_received EXCEPT ![n] = @ - (to_receive + NThreads(n))]
      /\ UNCHANGED <<total_sent, last_seq, remote_msg_received, mpiVars, thread_phase, gvt_phase,
                     gvt_accumulator, reducing_p, c_c, current_gvt>>

\* fault: a negative count, of messages that are still to come, will do
AllHaveComeOrNot(n) == total_msg_received[n] <= 0

AllHaveCome(n) == total_msg_received[n] = 0

\* The thread adds what it has received in the old colour, and goes on when
\* the sum was 0 before; then it clears its slice of total_sent.
SentWait(th) ==
  LET n == NodeOf[th]
      was == 1 - gvt_phase[th]
      q == Cardinality(Nodes) \div NThreads(n) + 1
      slice == Rid(th) * q .. (Rid(th) + 1) * q - 1
  IN  /\ node_phase[th] = "sent_wait"
      /\ total_msg_received' = [total_msg_received EXCEPT ![n] = @ + remote_msg_received[th][was]]
      /\ remote_msg_received' = [remote_msg_received EXCEPT ![th][was] = 0]
      /\ IF ~AllHaveCome(n)
         THEN UNCHANGED <<total_sent, node_phase>>
         ELSE /\ total_sent' = [total_sent EXCEPT ![n] = [k \in Nodes |->
                                  IF k \in slice THEN 0 ELSE @[k]]]
              /\ node_phase' = [node_phase EXCEPT ![th] = "redux_second"]
      /\ UNCHANGED <<last_seq, mpiVars, thread_phase, gvt_phase, gvt_accumulator, reducing_p, c_c,
                     current_gvt>>

\* The first thread of a node to come puts the minimum of the node in.
MinReduce(th) ==
  LET n == NodeOf[th]
      least == Min({reducing_p[x] : x \in Peers(n)})
      first == c_d(n) = 0
  IN  /\ NodePhase(th, "min_reduce", IF first THEN "min_reduce_wait" ELSE "min_wait")
      /\ IF first THEN PutMin(n, least) ELSE UNCHANGED min_in
      /\ reducing_p' = IF first THEN [reducing_p EXCEPT ![First(n)] = least] ELSE reducing_p
      /\ UNCHANGED <<countVars, mail, sum_in, ctrl, gvt_nodes, rounds, thread_phase, gvt_phase,
                     gvt_accumulator, c_c, current_gvt>>

MinReduceWait(th) ==
  LET n == NodeOf[th]
      least == Min({min_in[k][Len(min_in[n])] : k \in Nodes})
  IN  /\ c_d(n) = NThreads(n) /\ IsOver(min_in, n)
      /\ NodePhase(th, "min_reduce_wait", "done")
      /\ reducing_p' = [reducing_p EXCEPT ![First(n)] = least]
      /\ c_c' = [c_c EXCEPT ![n] = @ - NThreads(n)]
      /\ current_gvt' = [current_gvt EXCEPT ![th] = least]
      /\ UNCHANGED <<countVars, mpiVars, thread_phase, gvt_phase, gvt_accumulator>>

MinWait(th) ==
  LET n == NodeOf[th] IN
  /\ c_c[n] = 0
  /\ NodePhase(th, "min_wait", "done")
  /\ current_gvt' = [current_gvt EXCEPT ![th] = reducing_p[First(n)]]
  /\ UNCHANGED <<countVars, mpiVars, thread_phase, gvt_phase, gvt_accumulator, reducing_p, c_c>>

\* The last thread of a node to leave tells node 0.
Done(th) ==
  LET n == NodeOf[th] IN
  /\ NodePhase(th, "done", "redux_first")
  /\ thread_phase' = [thread_phase EXCEPT ![th] = "idle"]
  /\ ctrl' = IF c_d(n) = 1
             THEN ctrl \cup SendTo("MSG_CTRL_GVT_DONE", 0, n) ELSE ctrl
  /\ UNCHANGED <<countVars, mail, sum_in, min_in, gvt_nodes, rounds, gvt_phase, gvt_accumulator,
                 reducing_p, c_c, current_gvt>>

\* msg_allocator_on_gvt
KeptAtGvt(th, g) == {m \in at_gvt_list[th] : m.t >= g}

\* A turn of the loop of parallel_thread_run ends with a call of gvt_phase_run,
\* which moves the round or has to wait.
PhaseRun(th) ==
  /\ ran[th] \/ queue[th] = {}
  /\ ran' = [ran EXCEPT ![th] = FALSE]
  /\ \/ Notice(th) \/ StartGvt(th) \/ ThreadPhaseRun(th) \/ SentReduce(th)
     \/ SentReduceWait(th) \/ SentWait(th) \/ MinReduce(th) \/ MinReduceWait(th)
     \/ MinWait(th) \/ Done(th) \/ UNCHANGED <<countVars, mpiVars, phaseVars>>
  /\ at_gvt_list' = [at_gvt_list EXCEPT ![th] = KeptAtGvt(th, current_gvt'[th])]
  /\ UNCHANGED <<queue, log, early_antis, remote_msg_seq, committed>>

-----------------------------------------------------------------------------
RemoteInit ==
  /\ ran = [th \in Threads |-> FALSE]
  /\ queue = [lp \in Threads |-> {Seed(lp, t) : t \in Seeds[lp]}]
  /\ log = [lp \in Threads |-> <<Past(Seed(lp, 0))>>]
  /\ early_antis = [lp \in Threads |-> {}]
  /\ at_gvt_list = [th \in Threads |-> {}]
  /\ mail = {}
  /\ remote_msg_seq = [th \in Threads |-> [c \in Colours |-> [n \in Nodes |-> 0]]]
  /\ last_seq = remote_msg_seq
  /\ remote_msg_received = [th \in Threads |-> [c \in Colours |-> 0]]
  /\ thread_phase = [th \in Threads |-> "idle"]
  /\ node_phase = [th \in Threads |-> "redux_first"]
  /\ gvt_phase = [th \in Threads |-> 0]
  /\ gvt_accumulator = [th \in Threads |-> Inf]
  /\ reducing_p = [th \in Threads |-> 0]
  /\ c_c = [n \in Nodes |-> 0]
  /\ total_sent = [n \in Nodes |-> [k \in Nodes |-> 0]]
  /\ total_msg_received = [n \in Nodes |-> 0]
  /\ sum_in = [n \in Nodes |-> <<>>]
  /\ min_in = [n \in Nodes |-> <<>>]
  /\ ctrl = {}
  /\ gvt_nodes = 0
  /\ rounds = 0
  /\ current_gvt = [th \in Threads |-> 0]
  /\ committed = {}

RemoteNext ==
  \E th \in Threads : ReceiveMsg(th) \/ ReceiveCtrl(th) \/ ProcessMsg(th) \/ PhaseRun(th)

RemoteSpec == RemoteInit /\ [][RemoteNext]_remoteVars

-----------------------------------------------------------------------------
Entries(lp, k) == MsgsOf(log[lp], k)
Waiting == UNION {queue[lp] \cup early_antis[lp] : lp \in Threads}

\* MPI still reads the buffer of whatever it has not delivered, as the sender
\* never waits for its requests: neither fossil collection nor
\* msg_allocator_on_gvt has freed it, because a GVT is only agreed on when all
\* that was sent before the round has been received, and what is sent during
\* it is not older than the GVT (the comment of mpi_remote_msg_send).
InFlightIsLive ==
  \A x \in mail : \E m \in Entries(x.from, "remote") \cup at_gvt_list[x.from] : Same(m, x)

\* No thread of any node has got a GVT that is later than a message which is
\* still to be processed, in a queue or under way.
GvtIsSafe ==
  \A th \in Threads : \A m \in mail \cup Waiting : current_gvt[th] <= m.t

\* While a node waits for the messages of the colour that ended, what its count
\* lacks, after all that its threads have received but not added yet, is exactly
\* what is still under way to it: none is counted twice, in the wrong colour or
\* for the wrong node, over rounds that use the two colours in turn.
UnderWay(n, c) == Cardinality({x \in mail : NodeOf[x.to] = n /\ x.col = c})
CountIsExact ==
  \A n \in Nodes :
    (/\ \A th \in Peers(n) : node_phase[th] \in {"sent_wait", "redux_second"}
     /\ \E th \in Peers(n) : node_phase[th] = "sent_wait") =>
      LET was == 1 - gvt_phase[First(n)]
      IN  total_msg_received[n] + UnderWay(n, was)
            + MapThenSumSet(LAMBDA th : remote_msg_received[th][was], Peers(n)) = 0

\* A remote message and its anti-message leave together, whichever comes
\* first: an anti-message always finds its message, unless that is still to
\* come, and a message that the receiver has, and the sender no longer holds
\* in its log, is one that it cannot take back or has an anti-message coming.
MeetsItsMessage(a) ==
  \E m \in mail \cup Waiting \cup Entries(a.to, "past") : ~m.anti /\ Same(m, a)
AntisAndMessagesMeet ==
  /\ \A a \in mail \cup Waiting : a.anti => MeetsItsMessage(a)
  /\ \A lp \in Threads : \A a \in early_antis[lp] :
       \A m \in Entries(lp, "past") : ~Same(m, a)
  /\ \A lp \in Threads : \A m \in Entries(lp, "past") \cup queue[lp] :
       IsRemote(m) /\ ~m.anti =>
         \/ \E x \in Entries(m.from, "remote") \cup committed : Same(x, m)
         \/ \E x \in mail \cup Waiting : x.anti /\ Same(x, m)
=============================================================================
