------------------------------ MODULE MCParts ------------------------------
(***************************************************************************)
(* Eight components that share no variable, side by side: in each          *)
(* behaviour one part moves and the others stay where they start.  The     *)
(* first events of the LPs of LpRollback are at different times.           *)
(***************************************************************************)
EXTENDS MsgLife, MsgHeap, SyncBarrier, ModelMem, LpRollback, Transactions, Launch,
  StatsFiles

VARIABLE part

ZeroAndOne == (0 :> 0) @@ (1 :> 1)
OneTwoOne == (0 :> 1) @@ (1 :> 2) @@ (2 :> 1)

\* A part that does not move has one initial state.
PartsInit ==
  /\ part \in {"messages", "queue", "barrier", "memory", "books", "transactions",
               "launch", "statistics"}
  /\ Init /\ QueueInit /\ BarrierInit /\ MemInit /\ BooksInit /\ TxnInit /\ LaunchInit
  /\ StatsInit
  /\ part # "messages" => live = {}
  /\ part # "books" => Range(retractable_ctx) = {1} /\ lps_to_end = Cardinality(LPs)
  /\ part = "books" => retractable_ctx[1] = 1 /\ retractable_ctx[3] = 2
  /\ part # "launch" => conf.lps = 1 /\ conf.n_nodes = 1

Parts == <<vars, queueVars, barrierVars, memVars, booksVars, txnVars, launchVars,
           statsVars>>

PartsNext ==
  /\ UNCHANGED part
  /\ \/ /\ part = "messages" /\ Next
        /\ UNCHANGED <<queueVars, barrierVars, memVars, booksVars, txnVars, launchVars,
                       statsVars>>
     \/ /\ part = "queue" /\ QueueNext
        /\ UNCHANGED <<vars, barrierVars, memVars, booksVars, txnVars, launchVars,
                       statsVars>>
     \/ /\ part = "barrier" /\ BarrierNext
        /\ UNCHANGED <<vars, queueVars, memVars, booksVars, txnVars, launchVars,
                       statsVars>>
     \/ /\ part = "memory" /\ MemNext
        /\ UNCHANGED <<vars, queueVars, barrierVars, booksVars, txnVars, launchVars,
                       statsVars>>
     \/ /\ part = "books" /\ BooksNext
        /\ UNCHANGED <<vars, queueVars, barrierVars, memVars, txnVars, launchVars,
                       statsVars>>
     \/ /\ part = "transactions" /\ TxnNext
        /\ UNCHANGED <<vars, queueVars, barrierVars, memVars, booksVars, launchVars,
                       statsVars>>
     \/ /\ part = "launch" /\ LaunchNext
        /\ UNCHANGED <<vars, queueVars, barrierVars, memVars, booksVars, txnVars, statsVars>>
     \/ /\ part = "statistics" /\ StatsNext
        /\ UNCHANGED <<vars, queueVars, barrierVars, memVars, booksVars, txnVars, launchVars>>

PartsSpec == PartsInit /\ [][PartsNext]_<<part, Parts>>
=============================================================================
