----------------------------- MODULE StatsFiles -----------------------------
(***************************************************************************)
(* The statistics files of the engine (log/stats.c): each thread of each   *)
(* process writes the statistics of a GVT to a temporary file, the first   *)
(* one also those of the process; in the end process 0 writes all of them  *)
(* into one file, receiving those of the other processes one by one.       *)
(*                                                                         *)
(* How many GVTs a thread is given is left to Shutdown.  A temporary file  *)
(* is the number of its rows, and a row is not looked into.                *)
(***************************************************************************)
EXTENDS Integers, Sequences, FiniteSets, SequencesExt

CONSTANTS
  Procs,      \* the processes, from 0: n_nodes of them
  ThreadsOf,  \* the threads of each process, which lp_global_init may have cut
  MaxRows     \* bound: rows in a file

ASSUME StatsAssumption ==
  /\ IsFiniteSet(Procs) /\ Procs = 0 .. Cardinality(Procs) - 1
  /\ ThreadsOf \in [Procs -> Nat \ {0}]
  /\ MaxRows \in Nat

\* The temporary files of a process: 0 is its own, i the one of thread i - 1.
Files(p) == 0 .. ThreadsOf[p]
NoFile == -1

VARIABLES
  progress,    \* "init", "run", "fini": all processes cross barriers between
  opened,      \* the files for which the call that opens them is over
  stats_file,  \* of each process: global_config.stats_file is not NULL
  tmps,        \* stats_node_tmp and stats_tmps of each process
  to_send,     \* what the processes but the first have still to send
  out_f,       \* the final file; Closed before it is open or when it cannot be
  source, iters,  \* of stats_files_receive: whom from, and how many files
  through      \* the processes that are through stats_global_fini

statsVars == <<progress, opened, stats_file, tmps, to_send, out_f, source, iters, through>>

AllFiles == UNION {{p} \X Files(p) : p \in Procs}
Closed == <<"closed">>

StatsInit ==
  /\ progress = "init"
  /\ opened = {}
  /\ stats_file = [p \in Procs |-> TRUE]
  /\ tmps = [p \in Procs |-> [i \in Files(p) |-> NoFile]]
  /\ to_send = [p \in Procs |-> <<>>]
  /\ out_f = Closed
  /\ source = 0 /\ iters = 0
  /\ through = {}

-----------------------------------------------------------------------------
\* io_file_tmp_get may fail, which turns the statistics of the process off.
OpenTmp(p, i) ==
  IF stats_file[p]
  THEN \/ /\ tmps' = [tmps EXCEPT ![p][i] = 0]
          /\ UNCHANGED stats_file
       \/ /\ stats_file' = [stats_file EXCEPT ![p] = FALSE]
          /\ UNCHANGED tmps
  ELSE UNCHANGED <<stats_file, tmps>>

\* stats_global_init, and when it is over stats_init in each thread
GlobalInit(p) == <<p, 0>> \notin opened /\ OpenTmp(p, 0) /\ opened' = opened \cup {<<p, 0>>}
ThreadInit(p, i) ==
  /\ <<p, 0>> \in opened /\ <<p, i>> \notin opened
  /\ OpenTmp(p, i)
  /\ opened' = opened \cup {<<p, i>>}

InitStep ==
  /\ progress = "init"
  /\ \E p \in Procs : GlobalInit(p) \/ \E i \in Files(p) \ {0} : ThreadInit(p, i)
  /\ progress' = IF opened' = AllFiles THEN "run" ELSE progress
  /\ UNCHANGED <<to_send, out_f, source, iters, through>>

\* stats_on_gvt of thread i - 1
StatsOnGvt(p, i) ==
  /\ progress = "run"
  /\ stats_file[p]
  /\ tmps[p][i] < MaxRows
  /\ tmps' = [tmps EXCEPT ![p] = [f \in Files(p) |->
                IF f = i \/ (f = 0 /\ i = 1) THEN @[f] + 1 ELSE @[f]]]
  /\ UNCHANGED <<progress, opened, stats_file, to_send, out_f, source, iters, through>>

EndOfRun ==
  /\ progress = "run"
  /\ progress' = "fini"
  /\ UNCHANGED <<opened, stats_file, tmps, to_send, out_f, source, iters, through>>

-----------------------------------------------------------------------------
\* stats_files_send: stats_glob_cur and the files, as file_memory_load reads them
\* back.
GlobCur(p) == [of |-> p, file |-> NoFile, n |-> ThreadsOf[p]]
FileMemoryLoad(p, i) == [of |-> p, file |-> i, n |-> tmps[p][i]]
Chunks(p) == <<GlobCur(p)>> \o [i \in 1 .. ThreadsOf[p] + 1 |-> FileMemoryLoad(p, i - 1)]

\* stats_file_final_write, if the file can be opened
FinalWrite == {Closed, Chunks(0)}

\* A process that has not come to stats_global_fini yet
NotInFini(p) == p \notin through /\ to_send[p] = <<>> /\ (p = 0 => source = 0)

\* stats_global_fini up to its loops over messages
GlobalFini(p) ==
  /\ progress = "fini" /\ NotInFini(p)
  /\ \/ /\ ~stats_file[p]
        /\ through' = through \cup {p}
        /\ UNCHANGED <<to_send, out_f, source>>
     \/ /\ stats_file[p] /\ p # 0
        /\ to_send' = [to_send EXCEPT ![p] = Chunks(p)]
        /\ UNCHANGED <<out_f, source, through>>
     \/ /\ stats_file[p] /\ p = 0
        /\ out_f' \in FinalWrite
        /\ source' = 1
        /\ through' = IF 1 \in Procs THEN through ELSE through \cup {0}
        /\ UNCHANGED to_send
  /\ UNCHANGED <<progress, opened, stats_file, tmps, iters>>

\* fault: process 0 takes its own number of threads
FilesAfterOwn(c) == ThreadsOf[0] + 1

\* as many files as the sender has threads, and its own
FilesAfter(c) == c.n + 1

\* mpi_blocking_data_send and mpi_blocking_data_rcv wait for each other.
Meets(p) == p \in Procs \ {0} /\ to_send[p] # <<>>

\* A step of stats_files_receive; the chunk is written to the file if that is
\* open.
Transfer ==
  LET c == Head(to_send[source])
      left == IF iters = 0 THEN FilesAfter(c) ELSE iters - 1
  IN
  /\ Meets(source)
  /\ to_send' = [to_send EXCEPT ![source] = Tail(@)]
  /\ out_f' = IF out_f = Closed THEN out_f ELSE Append(out_f, c)
  /\ iters' = left
  /\ source' = IF left = 0 THEN source + 1 ELSE source
  /\ through' = through \cup {p \in {source} : Len(to_send[p]) = 1}
                        \cup {p \in {0} : source' \notin Procs}
  /\ UNCHANGED <<progress, opened, stats_file, tmps>>

StatsNext ==
  \/ InitStep
  \/ \E p \in Procs : \E i \in Files(p) \ {0} : StatsOnGvt(p, i)
  \/ EndOfRun
  \/ \E p \in Procs : GlobalFini(p)
  \/ Transfer

StatsSpec == StatsInit /\ [][StatsNext]_statsVars

-----------------------------------------------------------------------------
\* In the end process 0 has in its file the statistics of every process, in
\* order, each with as many files as the table of stats_file_final_write says,
\* although processes have different numbers of threads and end in any order;
\* no file is used that could not be opened.  When all have their files, no
\* process is left waiting for another: one that could not open a file sends
\* nothing, and process 0 then waits for it for ever.
StatsAreGathered ==
  LET whole == \A p \in Procs : stats_file[p] IN
  /\ 0 \in through /\ stats_file[0] /\ out_f # Closed =>
       out_f = FlattenSeq([k \in 1 .. Cardinality(Procs) |-> Chunks(k - 1)])
  /\ \A p \in Procs : progress # "init" /\ stats_file[p] =>
       \A i \in Files(p) : tmps[p][i] # NoFile
  /\ progress = "fini" /\ through # Procs =>
       (\E p \in Procs : NotInFini(p)) \/ Meets(source) \/ ~whole
=============================================================================
