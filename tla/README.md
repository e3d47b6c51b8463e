# TLA+ verification of RBlockSim and ROOT-Sim

The repository holds a simulation model of blockchain networks (`RBlockSim`) and
the engine that runs it (`ROOT-Sim_core`), an optimistic parallel discrete-event
simulator: threads execute events ahead of time and undo what turns out to have
been too early. The promise of the whole is that such a run gives the results of
a sequential one, and that these say what a network of miners would do. This
directory models the parts of the engine that keep the first promise and the
parts of the simulation model that keep the second, checks them with TLC on small
instances, and proves the central protocols with TLAPS for instances of any size.
Paths below are relative to `src/ROOT-Sim_core/src/` unless they start with
`RBlockSim/`.

## Inventory

### The engine

| Component | State | Operations | Interacts with | Hard behaviour | Correct when |
|---|---|---|---|---|---|
| Message processing (`lp/process.c`, `lp/msg.h`) | per LP: log `p_msgs` of sent and past messages, `bound`, `early_antis`; per message: `flags` | `ScheduleNewEvent`, `process_msg`, `do_rollback` with `send_anti_messages`, `match_straggler_msg`, `match_anti_msg`, `handle_remote_anti_msg`; init and fini of an LP | queues, allocator, checkpoints, GVT, MPI | threads undo each other's messages through atomic adds on `flags`; ties in time; stragglers; anti-messages that come first | the results are those of the sequential engine; a message is queued and freed once |
| Queues (`datatypes/msg_queue.c`, `heap.h`) | a lock-free list per thread, a private heap | insert, extract, fini | every thread pushes on every list | heap keys contain the ANTI bit, which others set | nothing lost, extraction in time order |
| Message allocator (`mm/msg_allocator.c`) | free list, list of messages to free at a GVT | alloc, free, free at GVT | fossil collection, rollbacks, MPI | release against a late anti-message or a send under way | nothing is used after it was freed |
| Checkpoints (`mm/buddy/multi.c`, `mm/auto_ckpt.*`) | log of checkpoints with the index each refers to, interval counter | take, restore, collect | rollbacks, fossil collection | indexes are renumbered when the log is cut | every possible rollback finds a checkpoint |
| Buddy allocator (`mm/buddy/`) | a tree of free sizes per block, size of a full checkpoint | alloc, free, realloc, full checkpoint, restore | LP state | a restore to fewer or other blocks than there are | no overlap; a restore is exact; the next checkpoint fits |
| Fossil collection (`gvt/fossil.c`) | last GVT, an epoch per LP | on GVT, collect an LP | GVT, checkpoints | lazy, LP by LP, while the others run | only what is committed is cut |
| GVT (`gvt/gvt.c`, `gvt/gvt.h`, `distributed/no_mpi.c`) | counters `c_a`..`c_d`, phase of each thread, accumulators, the shared array of minima; colours and counts of remote messages | a step per loop iteration, start, notice, done, drain | the main loop, control messages, MPI | nobody stops while it runs; four counters reused; two colours reused | each value is a lower bound of all that is pending |
| Termination (`gvt/termination.c`) | `nodes_to_end`, `thr_to_end`, per thread `lps_to_end`, `max_t`, per LP `termination_t` | on processing, on rollback, on GVT, `RootsimStop` | GVT, main loop | ends declared on speculative paths | announced once, and everybody stops |
| Worker threads (`parallel/parallel.c`) | position in the main loop | init, batches, GVT, fini | everything above | threads leave the loop at different moments | nobody frees what another uses; all stop |
| Barrier (`core/sync.c`) | two shared counters, a phase per thread | `sync_thread_barrier` | thread life cycle | reused without a reset | nobody is let through early; one leader |
| Retractable events (`lib/retractable/`, `datatypes/retractable_heap.h`) | one pending event per LP, a heap per thread | schedule, extract, repair after silent execution | checkpoints, queue | lives half in the LP state, half in the thread | the two halves agree |
| MPI layer (`distributed/mpi.c`) | message buffers, collectives | send, receive, anti-messages, reductions | GVT, process | in flight, reordered, early anti-messages | an anti-message meets its message |
| LP placement (`lp/lp.c`) | ranges of LPs | partition, init, fini | all | integer division at the borders | each LP has exactly one owner |
| Statistics files (`log/stats.c`, `log/file.c`) | temporary files per thread and process | open, write at a GVT, gather | MPI, GVT | a file that does not open; processes that end at different times | the final file has all of them |
| Sequential engine (`serial/serial.c`) | one heap | the loop | the same model callbacks | - | it defines the result |
| Logging, platform, random numbers | - | - | - | - | no decision depends on them |

### The simulation model

| Component | State | Operations | Hard behaviour | Correct when |
|---|---|---|---|---|
| Block tree (`RBlockSim/src/Block.c`) | two arrays of levels (a sliding window), main chain index | receive, add, orphan and un-orphan, switch chains, move the window | blocks before their parents, forks across the window | the main chain is the best known chain of non-orphans |
| Gossip and mining (`RBlockSim.c`, `Network.c`) | per node: tree, peers, generator | `ProcessEvent`, parent requests, propagation | requests race with blocks | nodes that exchange everything agree; the exchange ends |
| Transactions (`Transaction.c`) | bitmaps of known and included transactions | generate, deliver, include, revert | reorganisations | executed once on the main chain |
| Attacks (`Attacks.c`) | selfish miner, 51% attack | withhold, publish, keep its own chain | interplay with the tree | honest nodes see only published blocks |
| Statistics (`Statistics.c`) | counters per chain, an array of all LPs | apply, revert, output | reorganisations; a run that never started | counts equal those of the main chain; what is reported was written |
| Options, topology (`RBlockSim.c`, `Config.c`, `Topology.c`) | options, a table of peers and latencies | parse, default, choose attackers | options that depend on each other | a run gets the configuration asked for |

## Modules

| Module | Models | Source |
|---|---|---|
| `SyncBarrier`, `SyncBarrierProofs` | `sync_thread_barrier`; proofs about it | `core/sync.c` |
| `MsgLife`, `MsgLifeProofs` | the protocol on `lp_msg.flags` alone, for any number of messages: the abstract specification of message ownership; proofs about it | `lp/process.c` |
| `TimeWarp`, `TimeWarpProofs` | `process_msg` and all it calls, on one node; proofs about it | `lp/process.c`, `datatypes/msg_queue.c`, `gvt/fossil.c`, `mm/buddy/multi.c` |
| `TimeWarpSerial` | the sequential loop as a function; what the optimistic one promises | `serial/serial.c` |
| `TimeWarpLife` | the refinement mapping from `TimeWarp` to `MsgLife`, and the inductive invariant of `TimeWarp` | |
| `MsgHeap` | the queue of a thread as the array it is | `datatypes/heap.h`, `msg_queue.c` |
| `PartsProofs` | proofs about parts that `MCParts` checks together: the LPs of a thread and the shares of the hash power (`Launch`), its queue (`MsgHeap`), retractable events and ends (`LpRollback`), `Transactions`, and the final file of statistics (`StatsFiles`) | |
| `ModelMem` | the memory of an LP and its checkpoints | `mm/buddy/` |
| `LpRollback` | the retractable event and the end of each LP, over rollbacks | `lib/retractable/`, `datatypes/retractable_heap.h`, `gvt/termination.c` |
| `GvtRound`, `GvtRoundProofs` | the state and the steps of the reduction; lemmas about them | `gvt/gvt.c` |
| `Gvt`, `GvtProofs` | the reduction among threads that go on processing; proofs about it | `parallel/parallel.c` |
| `Shutdown`, `ShutdownProofs` | composes `GvtRound` and `SyncBarrier` with termination and the end of the threads; proofs about it | `gvt/termination.c`, `parallel/parallel.c` |
| `RemoteMsg` | messages, anti-messages and the GVT between processes | `distributed/mpi.c`, `gvt/gvt.*`, `lp/process.c` |
| `Launch` | options, placement of LPs, `LP_INIT` to `LP_FINI`, the report | `RBlockSim/src/RBlockSim.c`, `lp/lp.c`, `init.c` |
| `StatsFiles` | the statistics files of all processes | `log/stats.c`, `log/file.c` |
| `Chain` | the functions of the block tree, as operators from one chain to the next | `RBlockSim/src/Block.c`, `Statistics.c` |
| `BlockTree`, `BlockTreeProofs` | one miner that mines and receives blocks in any order, with what is true of the blocks seen; proofs about it | `RBlockSim/src/RBlockSim.c` |
| `Gossip` | several nodes, each with a `Chain`, and the messages between them | `RBlockSim/src/RBlockSim.c`, `Network.c`, `Attacks.c` |
| `Transactions` | the transactions that blocks carry, over reorganisations | `RBlockSim/src/Transaction.c` |
| `MCTimeWarp`, `MCBlockTree`, `MCBlockTreeHonest`, `MCGossip`, `MCRemoteMsg` | small simulation models, sets of blocks, topologies for TLC | |
| `MCParts` | eight components that share no variable, side by side | |

Operators commented as a *fault* are plausible bugs, each written beside the
definition it stands against. Nothing uses them; they are there to show that the
properties notice such a bug. The `TypeOK` of `TimeWarp`, `Gvt`, `Shutdown` and
`BlockTree` holds on the instances of their runs, which list only the properties that
say more; it is the first part of the invariants that are proved, and a theorem for `BlockTree`.

### TimeWarp

Variables keep the names of the code: `p_msgs`, `bound`, `logs`, `ckpt_rem`,
`list` and `heap` are those of the C structures. An address is a natural number;
`live` are the allocated ones; `marked` is a history variable, the messages that
are in the log of a living sender. The position of a thread inside `process_msg`
is `pc`. The steps end at the accesses to shared memory:

| `pc` before | Action | Code |
|---|---|---|
| `idle` | `Extract` | `msg_queue_extract`, then the fossil collection of the destination LP |
| `extracted` | `Claim` | the atomic add of PROCESSED and the dispatch on the old flags |
| `check` | `Check` | the straggler test and `match_straggler_msg` |
| `undo` | `UndoSent`, `UndoPast` | one atomic add of the loop in `send_anti_messages` |
| `reinsert` | `Reinsert` | the CAS of `msg_queue_insert` |
| `restore` | `Restore` | restoring a checkpoint, silent execution, and freeing an anti-message |
| `dispatch` | `Dispatch` | the model's handler |
| `send` | `ScheduleNewEvent`, `Finish` | one new message; logging and the checkpoint |
| `idle` | `OnGvt`, `Poll` | `fossil_on_gvt`; an empty queue |

The handler of the simulation model is a constant operator. The state of an LP is
the sequence of the events it has executed, the finest state any model can have:
if it agrees with the sequential run, so does every real one. The heap is a set
from which a first element is taken. When two have the same time `TimeWarp` lets either come first: once an ANTI
bit has been set, the array of `MsgHeap` promises no more (see there).
The reads of that bit in `msg_is_before` are not synchronised, so `Check` lets a
reader miss any of the bits. The GVT is any value of `GvtValues` not above a queued
or held message: that `gvt.c` returns such a value is what `Gvt` checks.

### MsgLife

Sets say where each message is (queued, taken, running, logged, being killed, on
its way back). The sender may take a message back and the receiver may undo its
processing at any time. `TimeWarpLife` reads these sets from the state of
`TimeWarp`, and `ImplementsMsgLife` says that each step of the engine is a step
of the protocol. `LifeLogged` leaves out the entries that a rollback in progress
has already undone, because the code cuts the log only when the loop is over.

### What a thread keeps for its LPs: MsgHeap, ModelMem, LpRollback

`MsgHeap` has the list and the binary heap of one thread, with `heap_insert` and
`heap_extract` along their paths of the array. Three messages of each time differ in
their types; the sender sets an ANTI bit at any moment, between two calls. The heap
is then no longer one for `q_elem_is_before`, and `HeapIsRight` says what remains of
it, which is what `TimeWarp` relies on: what comes out is one of the earliest messages.
It is the right one of them, by the ANTI bit and the type, while no bit has been set
since the queue was last empty (the history variable `steady`). That nothing weaker
than `steady` will do shows with eight addresses: after the message whose bit was
set has gone, and no bit is set any more, two others are still in the wrong order.

`ModelMem` stores a buddy system as the code does, as the array `longest` of the
largest free exponents. An LP calls `rs_malloc`, `rs_realloc`, `rs_free` and stores
values; it logs messages and takes checkpoints; a rollback and a fossil collection
come at any time. `ContentIsKept` compares what is read with what the model wrote, and
`TreeIsExact` the array with the blocks held and `full_ckpt_size` with the size of
what `checkpoint_full_take` writes.

`LpRollback` puts two books of a thread together that a rollback must both repair.
The retractable event is a time in the checkpointed state and an entry in an indexed
heap of the thread, whose position is in the LP; `termination_t` and `lps_to_end` are
outside the checkpointed state. Its messages come from anywhere and at any time, its
handlers do what they like with the event and end the LP or not.

### GvtRound, Gvt, Shutdown, SyncBarrier

One action for each case of the two switches of `gvt.c` that gets somewhere.
A load of one counter and the add to another that follows are one step: the
counter that was loaded cannot change until the thread has made its add. The case
`node_min_reduce` is two steps, since it adds to `c_d` before it writes the shared
slot. A thread that finds it must wait, or reads an old value of a counter, does
not change the reduction. `Gvt` reduces a message to its time and a queue to the
set of the times in it. `Shutdown` follows a thread through the loop test, the
batch, the call of `gvt_phase_run`, the flush, two barriers, two more reductions,
a barrier, the release and the last barrier. Whether the LPs of a thread have
ended by a GVT is left open. `SyncBarrier` has two steps: the add, and the load
that lets a thread out.

On one node there is no MPI: a control message is a call (`no_mpi.c`) and belongs
to the action that sends it.

### RemoteMsg

The mail is a set of copies under way, each with the colour of its sender's round, as
`mpi_remote_msg_send` and `mpi_remote_anti_msg_send` send them and
`mpi_remote_msg_handle` takes them. The buffer of a message stays with the sender
until `msg_allocator_free_at_gvt` and the GVT release it; MPI may read it until it
has delivered. A node's round is `gvt_node_phase_run` with the two collectives
(`mpi_reduce_sum_scatter`, `mpi_reduce_min`): each node contributes at its own
moment. Threads go through the phases of a round one by one, as in `GvtRound`, with a
turn of the main loop for each step. `handle_remote_anti_msg` and
`check_early_anti_messages` work on the log of an LP, its queue and its
`early_antis`. Control messages go through the same mail.

### Launch, StatsFiles

`Launch` takes any options in any order, applies the defaults, chooses the attackers,
and then starts the engine on any number of LPs and processes up to the bounds. Its
`PartitionStart` is the estimate and the two corrections of `partition_start`.
Threads go through `LP_INIT` of their LPs side by side, then through the first events
and, in the end, `LP_FINI`. What happens between is left to the other modules.

`StatsFiles` models a temporary file by the number of its rows. A file may fail to
open, in any thread of any process, and so may the final one. Processes wait for each
other at the barriers of the engine; in the end process 0 receives the files of the
others one by one. A send is over when it has been received, as the comment of
`mpi_blocking_data_send` says.

### Chain, BlockTree, Gossip, Transactions

A chain is a record. Its `level` holds for each height the nodes in order of
arrival, as the two arrays of levels together do; the levels below `min` are
empty, because `moveChainForward` drops them. A position `<<height, index>>`
stands for a pointer to a node. The counters of `statsState` that follow the main
chain are in the record too. A call of `getChainLevel` outside the window sets
`aborted`, which stops the model as `abort` stops the program. `AddBlock` follows
`addBlock` with all it calls: make room, find the parent, link what descends from
the new node (`unorphanBlocks`; the recursion over the levels is a recursive
function), let the best of the branch contend (`maybeSwitchChains`), revert and
apply blocks (`switchChains`). Nodes of one branch share `ancestorsMined`, and
among those both rules of choice are total orders, so the best does not depend on
the order in which the recursion meets them.

`BlockTree` keeps beside the chain the parent of each block seen (`tree`). The
properties compare the chain with it: which blocks are connected to the genesis
block, how many of a chain are whose, where two chains fork. The network may deliver
any block of `Network` that was not delivered before, children before parents.

`Gossip` puts several nodes together. Each event of `ProcessEvent` is an action, with
what `receiveBlock`, `propagateBlock`, the requests for a parent and the
answers to them send, and with the concealed blocks of a selfish miner. The messages
are a bag, delivered in any order. It is the model of the committed events: that the
engine executes these as a sequential run does is the business of `TimeWarp`. The
end of the simulated time (`termination_time`) is left out, so that messages arrive.

In `Transactions` a block is its place in the tree and the range and bitmap of
transactions it carries; any chain may become the main one, also a shorter one, as for an
attacker with a tolerance.

## Runs

| Run | Question | Instance |
|---|---|---|
| `parts` | eight components by themselves, below | |
| `tw` | does a speculative run end as the sequential one, is the committed part right all along, does a rollback always find its checkpoint, and is every step one of `MsgLife`? | 2 threads, 3 LPs (two share a thread), 14 addresses, checkpoints every 2 events, GVT 2 |
| `gvt` | is the GVT a lower bound, the same for all threads of a round, and does a round end? | 2 threads, times 1..2, fair |
| `shutdown` | can a thread free or drain too early, and does everybody stop? | 3 threads, one `RootsimStop`, timer at any moment |
| `shutdown_rows` | the comment on the rows of the statistics; **violated** | 2 threads, termination time 2, no `RootsimStop` |
| `shutdown_late` | the claim on the flush of `gvt_msg_drain`; **violated** | 2 threads, timer at any moment |
| `remote` | is a message that MPI still reads kept, is the GVT safe, does each anti-message find its message, are colours counted right? | 3 threads on 2 nodes, 2 remote messages, times 1..2, 3 rounds |
| `tree` | does an honest miner keep the best chain of what it has seen, also when the window moves? | two scenes: 3 miners, every tree of 5 blocks up to height 3, in every order, also at equal times; and a window of 2 x 5 levels, heights up to 11, with two early branches and a fork of three blocks over the border of the window |
| `tree_attacker` | does the moving window lose anything, and are the counters right, when an attacker goes back to a shorter chain of its own? | window of 2 x 5 levels, heights up to 10, so that the window moves once; two branches by others and a fork just before it moves |
| `tree_twice` | the comment on mining at a height; **violated** | tolerance 1, two branches, height 5 |
| `gossip` | do nodes agree, does the exchange end, and what does a selfish miner give away? | 3 nodes in a row, a selfish miner at one end, conceal depth 2, tolerance 0; two scenes: both ends mine 3 blocks; the miner and its neighbour mine 5 |
| `launch_failed` | the comment on the report of statistics; **violated** | one process, 3 cores, up to 4 LPs and 4 threads |

`parts` runs eight components whose modules share no variable. `part` is chosen in
the initial state and only that component moves, so the behaviours are those of each
component alone and not of their product:

| Part | Module | Question | Instance |
|---|---|---|---|
| messages | `MsgLife` | is a message owned by one party at any time, and freed once? | 3 messages |
| queue | `MsgHeap` | does the heap stay in time order while its keys change, and in the whole order while they do not? | 5 addresses, 3 of each time |
| barrier | `SyncBarrier` | does it hold, over and over, and with one leader? | 4 threads |
| memory | `ModelMem` | is what the LP wrote what it reads after a rollback, and does each checkpoint fit its buffer? | buddy systems of four smallest blocks, up to 2 of them, 4 calls, 2 messages |
| books | `LpRollback` | is the retractable event what the past left, and are ends counted once? | 3 LPs whose first events are not all at one time, times 1..3, 6 log entries, checkpoints at lengths 1 and 3 |
| transactions | `Transactions` | is each transaction of the main chain executed exactly once? | 2 nodes, 4 transactions, 4 blocks |
| launch | `Launch` | has each LP one thread, and do portions of the hash power add up? | up to 4 LPs on up to 2 processes with 3 cores |
| statistics | `StatsFiles` | does the final file have all the others, in order? | 3 processes with 1, 2 and 1 threads |

Bounds. The model of `MCTimeWarp` schedules at most 10 events in a sequential run
and is built so that the interesting things happen: two messages of the same time
and LP from different senders, a message that an LP processes too early, an
anti-message for one that is queued and for one that is processed, a message to
the sender's own thread, a cascade over three LPs, what an LP schedules that
depends on how many events it has seen. An address is used again as soon as it is
freed, so a stale pointer would be seen; 14 addresses are more than the model ever
has allocated at once, so an allocation never has to wait. `MaxT` and `GvtValues` bound the
horizon. Two threads with two times are enough for the values of a reduction to be in
the wrong order, and for one thread to be a round ahead; three threads go through
reductions in `shutdown`. Four threads at a barrier let two crossings overlap with
more than one thread in each. `Stops` bounds the calls of `RootsimStop`. `MaxSteps`
bounds the sequential run, and an assumption checks that it is enough.

`remote`: node 1 has two threads, so a message can be received by one and meet its
anti-message in another order; the third LP starts with nothing and can be sent to.
Three rounds use each colour again. `MaxSent` 2 lets an LP take back one message and
send another. `MsgHeap` was also run with 6 addresses; what is said of it is proved for
any number.

`LpRollback` starts at times of 1 and lets a handler schedule its event at least 1
ahead. Both are restrictions of the model, and both are needed: `termination_t` is 0
for an LP that has not ended (`gvt/termination.c:54`), so an end at time 0 is counted
again by each later event; and an event that was scheduled with a delay of zero would
be withdrawn by `retractable_post_silent`. `RBlockSim` does neither: its LPs never
end on their own, and its delays are drawn from exponential distributions.

For the block tree, `MaxHeight` and `MaxBlocks` bound what is mined and seen,
`MaxOrphans` how far blocks overtake each other, and `Steps` whether two blocks may
be seen at one time. Three miners are needed for two blocks by others to tie; an
orphan, its child and its parent need three heights. `WithinDepth` is the bound that
the code needs as well: with `DEPTH_TO_KEEP` 200, a block, a fork or a miner that is
further behind ends the program; nothing in the code prevents that, so no property claims
that it does not happen beyond `WithinDepth`. In `tree_attacker`, and in the second scene
of `tree`, that distance is 5, and forks and orphans are right at the border when the
window moves. `MineAgain` is FALSE in `tree_attacker`: an attacker that mines a second
block at a height, as `tree_twice` shows it can, has other blocks in its counters than
the others name.

The scenes of `tree` and `gossip` are chosen in the initial state, in `MCBlockTreeHonest`
and `MCGossip`; each takes the actions of its module with bounds of its own. In the first
of `gossip` blocks go by the node in the middle. In the second what is for the far end
stays under way, so that there is room for five blocks: the selfish miner is overtaken,
adopts the other chain, mines again and publishes (`RBlockSim.c:192`), which takes five
blocks with a tolerance of 0 and more with the default of 1. Both were also run by
themselves with a tolerance of 1.

`Gossip` is run with a window that holds every block. `Peers` must be symmetric, and
the run has all peers within `Fanout`. The table of `RBlockSim/src/Topology.c` was
looked at for what the model assumes: each of its 1000 lists of peers has the size
stated, names nobody twice and not the node itself; `p` is a peer of `n` whenever `n`
is one of `p`; the graph is connected. The lists have 43 to 120 entries and 714 of
them more than `GOSSIP_FANOUT` (80), so a node of the real table relays a block to
some of its peers only. `EndsInAgreement` does not claim anything then, and is not
what the simulated protocol promises: such a node learns of a block when a child of
it arrives.

`PowerIsWhole` is stated for one process. `totalHashPower` is a variable of the
process, so over several processes each one's honest nodes share the whole of the
honest power among themselves.

Deadlock is checked in `tw`, `gvt` and `remote`. It is off where the system stops or
a bound is reached: `shutdown*`, where the threads end; `tree*` and `gossip`, where all
blocks are mined and delivered; `launch_failed`, which ends with the program; and `parts`,
for the same reasons.

Fairness. `TimeWarp`: a thread that can do a step of `process_msg` does one; the
operating system schedules all workers and no step waits for another thread. `Gvt`
and `Shutdown`: parts of the loop end, because handlers return and batches are
finite; a thread whose reduction can move does not miss it for ever, because a
load does not return an old value for ever (this is strong fairness, as the thread
is in turn in the batch and in the reduction). The timer and the messages are not
forced. The other modules state no fairness: `DeliveriesProgress` is an action
property, that each delivery makes a measure smaller, and needs none.

### What the runs show

* The engine keeps its promise on the instance: `CommittedIsSerial` (everything
  before a possible GVT is a prefix of the sequential run at any moment) and
  `EndsAsSerial` hold under all interleavings, although ties, cascades and
  unsynchronised reads of the ANTI bit are there.
* Message ownership, fossil collection and the finalisers are exact, on one node and,
  in `remote`, between two: a GVT is only agreed on when all that was sent before the
  round has been received, so what it frees MPI has delivered. Whichever of a
  message and its anti-message comes first, they leave together.
* Changing ANTI bits spoil the order among messages of one time and nothing else. They
  may spoil it for messages whose own bits never change, and for as long as the queue is
  not empty.
* Rollbacks repair the retractable event, the ends of the LPs and the memory of an LP
  exactly. That includes buddy systems that did not exist at the checkpoint.
* A reorganisation, also one that goes back to a chain that was left, and blocks that
  overlap in their ranges never execute a transaction
  twice or take back one that another block has executed. `ExecutedOnce` does not say
  that each one gets executed: `generateTransactionData` (`RBlockSim/src/Transaction.c:109`)
  leaves out a transaction that is the only one available and the first not executed.
* Nodes come to agree although requests for unknown blocks are dropped, and each
  delivery brings the exchange closer to its end.
* `shutdown_late` finds a deadlock at the end of a run. A thread leaves the main
  loop because the end was announced; its phase is idle and it waits at the
  barrier. The master, on its last call of `gvt_phase_run` before it tests
  for the end, finds that the period of the GVT has elapsed and starts a
  reduction. It then spins in the first loop of `gvt_msg_drain` until the
  reduction ends, which needs the thread at the barrier. The comment of the
  function promises that it "makes sure that all the nodes complete the
  potentially ongoing GVT algorithm" (`gvt/gvt.c:301`). `RootsimStop`, which
  can end the run at any moment, leads to the same state. `ShutdownCompletes` says
  that this is the only way not to stop; the window is short compared with the usual
  period, which is why it goes unnoticed.
* `shutdown_rows`: `thr_to_end` is decremented again by a thread that has agreed to
  end when the GVT later passes the termination time. The end may then be announced
  while another thread is still to be given the GVT; that one takes it inside
  `gvt_msg_drain`, which writes no row. `log/stats.c:247` says that all have the same
  number of rows.
* `launch_failed`: more threads than cores make `RootsimInit` fail; `main` does not
  look at the result, `RootsimRun` returns at once, and `main` dumps the array that no
  LP has written, against `RBlockSim/src/RBlockSim.c:581`.
* An honest miner that sees the same blocks in any order has the same links and the
  best chain by its rule (length, own blocks, first seen). Within the distance
  `Depth`, the window never loses what is needed.
* The attacker's rule compares two chains at a time and is not transitive.
  `tree_twice`: it goes back to an older chain of its own, which is shorter by the
  tolerance, and mines a second block at a height, against `RBlockSim/src/Block.h:29`.
  Since blocks are named by miner and height, other miners ignore the second one
  and hang its children below the first. As long as it
  does not mine twice at a height, its counters stay exact over such switches, which
  revert more blocks than they apply (`tree_attacker`).
* A process that cannot open one of its statistics files sends nothing, and process 0
  waits for it for ever; when all have their files, all get to the end.

## Proofs

Everything in the modules named `...Proofs` is checked by TLAPS down to the last leaf.
What the theorems state was checked by TLC on the instances of the runs first, and so were
the inductive invariants that a module states for TLC (`MsgLife`, `TimeWarpLife`). The
proofs of the parts that `MCParts` checks together are in `PartsProofs`.

`MsgLife`, for any set of messages. The four safety invariants are not inductive:
that an extracted message with both bits set is in a log, for instance, depends on
what every other combination of bits says. `IInv` states it: each message that is
allocated is in one of five situations (`New`, `Done`, `Cancelled`, `AntiMsg`,
`Killed`), each of which fixes its flags, its place and whether its sender may take
it back; any other is `Free`. There is one lemma per action, which looks only at
the message the action changes (and at the collected ones, for `Extract`); every
other message keeps its situation. From `Spec => []IInv` follow `TypeCorrect`,
`MemorySafety`, `NeverQueuedTwice`, `AntiFindsItsMessage` and `ShutdownIsExact`.

`TimeWarp`, for any numbers of threads, LPs and addresses, any checkpoint interval and
any placement. `Spec => ImplementsMsgLife` (`Refinement`) makes what was proved of
`MsgLife` true of the engine: `EngineMemorySafety` and `EngineFindsTheMessage` are two
of its consequences. It is not provable by itself, as a step of the engine is
allowed by the flags only because of where rollbacks and fossil collection may reach;
nor are `GvtIsSafe` and `CheckpointReachable` inductive. `IInv` in `TimeWarpLife` joins
them with what they rest on:

* each log is in order of time and has each message once, and `bound` is as late as it
  (`LogInOrder`, `BoundFits`);
* checkpoints refer to the ends of events, in order, and the first is `LP_INIT` or
  where a collection cut the log. No rollback goes back beyond it (`CheckpointsFit`,
  `FirstStays`);
* what a sender may still take back is marked, is in one log only, and is not before
  the event that sent it (`SentIsMarked`, `SentOnce`). What the GVT has passed is no
  longer taken back, though it may stay in the log until the LP is collected
  (`MayUndo`);
* a thread in `process_msg` holds a message of its own LPs, and in a rollback one that
  belongs between the entries kept and those undone; what it puts back is not before
  the message that caused it (`CurFits`, `RollbackFits`, `TouchedFits`, `OutsFit`);
* all of `MsgLife`'s invariant, read through the mapping.

A step is local to a thread and an LP, which `Conclude` states once: a lemma per
action shows the parts of that thread and LP, and that the step is one of `MsgLife`
(`LifeStep` then keeps that part of the invariant). `SentOnce` is what makes two
rollbacks that run side by side never touch the same message twice. The theorems
assume `HandlerIsCausal` of the simulation model: what it schedules is not before the
event that schedules it, which `ScheduleNewEvent` asserts ("Scheduling a message in the
past!", `lp/process.c:55`), is of a type below `LP_INIT`, and is not at time 0 except
when `LP_INIT` schedules it. The last is a restriction of the model. An
anti-message at time 0 comes before `LP_INIT` in the order of `msg_is_before`, so its
rollback would go back beyond the first checkpoint. `RBlockSim` draws its delays from
exponential distributions, and an assumption of `MCTimeWarp` checks the hypothesis
on the handler that TLC runs.

`StateMatchesLog` compares the state of an LP with its first checkpoint and the events
after it, so collections, which replace that checkpoint, have to be shown to lose nothing.
The invariant `HaveHistories` says that each LP has a history: a function that gives
its state after each entry of the log from the first checkpoint on, by adding one event
at a time (`IsHistory`). Every checkpoint holds what the history says, and so does the LP,
but for the event it is processing. A rollback cuts the history (`HistoryOfCut`), and
what the silent execution recomputes from a checkpoint is the history at the target
(`RestoreHistory`); an event extends it (`HistoryGrows`); a collection drops its
beginning (`CollectHistory`). `HistoryTells` unfolds it into `SubSeq` of the log, which
gives `StateMatches`. The proof goes by induction over positions of the log (`UpTo`).

`SyncBarrier`, for any finite non-empty set of threads. The counter is compared with
the number of threads, so the invariant has to say what it counts: `CountersExact`
states that a counter is the cardinality of the set of threads that counted it up
and not down again (`HasCounted`), with threads of two consecutive crossings mixed.
The election needs two more parts: counting down there is no leader before all have
arrived (`LeaderIsLast`), counting up there is one as soon as one has
(`LeaderIsFirst`). The lemmas about cardinality (adding, removing one thread, the
full and the empty set) come first; `CountTells` says what reading 0, 1 or
the number of threads means. From `BarrierSpec => []BarrierIInv` follow `BarrierHolds`
and `ElectionIsRight`. The only assumption is `BarrierAssumption`.

The reduction (`GvtRound`, `Gvt`), for any number of threads. `Pos(th)`, from 0 to 16,
is where a thread stands in its two phases, with the two colours of a round. The
invariant of a round, `RoundIInv`, has four parts. `InStep`: any two
threads are `Beside` each other, that is at positions from which neither has to wait
for the other; the reads of the counters keep it. `CountersExact`: each of `c_a`..`c_d`
and `total_msg_received` is the number of threads at certain positions, until
the one thread that resets it has done so (`IsReset`). `FirstStays`: the reset and the
start of the next round belong to a thread that is still there. `ColoursAgree`: all have
one colour, except around its change. A step is a move from one position
to the next (`StepGoes`), and `CountersTell` says what a thread knows of the others when
it reads 0 or the number of threads; the rest is one lemma per part. The
assumption on the counters is none: that they do not leave 0..N is proved, too.

For the values, `PendingIsBounded` gives each pending time a thread whose accumulator
or slot covers it: before a thread has added itself to the round, what it has in hand
counts for it; after, the accumulator it extracts into; when the minimum has been
computed (`IsComputed`), the slot of the master. From that follow `LowerBound`,
`Agreement` and, with one more invariant (`ReturnedIsBelow`), `NeverDecreases`.

`Shutdown`, for any number of threads. It composes the two invariants above, each of
them cited from its own module. `PlacesMatch` joins them: modulo 4, the number of
crossings of the barrier that a thread has begun is given by the place of the thread
between the four barriers, so that two threads at different places are not at the same
crossing. Leaving a barrier is then the step that uses `BarrierHolds`: the promise of
the barrier, modulo 4, is enough to know that everybody has left the loop
(`LoopEnds`), and that both reductions of `gvt_msg_drain` are over (`ReductionsEnd`).
A step of `gvt_phase_run` uses the lemmas of `GvtRoundProofs`. The lower bound of
`thr_to_end` in `TypeOK` is not part of it: a thread may vote again (see
`shutdown_rows`), which is bounded by the rounds of the run only.

`Launch`, for any numbers of LPs, processes and threads. `partition_start` takes a
floating-point estimate and corrects it in one direction and then the other. The
proof leaves the estimate open: the two loops end at the least and the greatest index
that satisfy the condition, and as `part * parts \div total` is monotonic
(`DivGrows`) and each part starts where the one before ends
(`PartOf`, `PartitionTells`), each LP is in one range of processes, and in one of the
threads of its process (`HostedByOne`). The only fact used of division is
`q * d <= n < (q + 1) * d`.

For any options and hash powers, too, the shares of the power are the whole of it
(`PowerAddsUp`). The inductive invariant `PowerIInv` says that the total of the process is
the sum of what its LPs have drawn, that the attacker has drawn nothing, and that no
share is there before all LPs have drawn: a thread that went on alone would divide by an
unfinished total. That each share is what `Portion` says at any later time is its
consequence; the shares then add up because a common factor can be taken out of a sum. The
community modules define sums with a CHOOSE among functions on the subsets and prove
nothing about them; here the functions are shown to exist and to agree (`SumIsThere`,
`SumsAgree`), and what follows for sums (`SumTells`, `SumChanges`, `SumOfTimes`) by
induction over the number of elements.

`StatsFiles`, for any numbers of processes and threads (`FilesGathered`). The inductive
invariant `FilesInv` says where `stats_files_receive` stands: the processes before
`source` are through, the later ones have sent nothing or have all their chunks to send,
and what `source` has still to send and what process 0 has had of it (`SoFar`) are
together its chunks. The file is then `Received`: those of the processes before it, one
after the other, and the first `SoFar` of this one. `iters` is right because the first chunk
of a process tells how many files follow (`ChunksTell`). No process sends before the end
(`Quiet`), so the files do not change while they are read. `FlattenSeq`, with which the
result is stated, is recursive; `FlatTells` gives it step by step.

`MsgHeap`, for any number of messages (`QueueIsRight`). The array is in order by a
relation `R` when each parent is related to its children (`IsHeap`). `heap_insert` and
`heap_extract` compare by `q_elem_is_before` and by nothing else, so the lemmas about
them are stated for every transitive `R` that `q_elem_is_before` decides (`IsOrder`): the
array after each step of the climb, or of the descent, is still in order by `R`
(`ClimbKeepsOrder`, `DescendKeepsOrder`), and holds the same messages but for one, each
once (`ClimbTells`, `DescendTells`). Two relations are such an `R`: that of the times
alone, whatever bits are set (`OrderOfTimes`), and the whole order when none is
(`OrderOfAll`). The first is kept by every step, as a time never changes; the second is
lost when a bit is set and is back when nothing waits. `FirstIsLeast` is why the first
element of the array is the one to take. The climb and the descent are functions on the
indexes of the array; `AllFromBefore` and `AllFromAfter` are the inductions over these.

`LpRollback`, for any number of LPs, any arity of the heap, any times and delays and any
choice of checkpoints (`RetractablesAreRight`, `EndsAreRight`, `VotesAreFinal`). The
inductive invariant is `BooksInv`. What says most in it is that a log explains itself
(`LogOk`): it is in the order of times, each retractable event in it is the one that
was left pending there, and every other message came before what was pending (`Follows`).
So what is pending now is later than the whole log, and a retractable event, when
it is extracted, is never a straggler. A straggler cuts the log at a place where this is
still so. A checkpoint holds what was pending where it was taken, and `Replayed` from it
to the target gives what is pending there (`PendingAt`): this is where
`retractable_post_silent` is needed, as it drops an event that the messages
repeated have already consumed, and no other. The heap has one entry for
each LP, at the position that the LP records; its lemmas (`UpTells`, `DownTells`) go by
induction from the place of the change towards the root or the leaves, and say that
the order is kept, and that the entries and positions are those of before but for
the one that changed. For the ends: the count follows the one end that changes
(`EndsStep`). For the votes: an LP that ended by a message did so not after `max_t`, so
when `max_t` was before the GVT all ends were, and no rollback goes there. The only
assumption is `BooksAssumption`; that the LPs are numbered from 1 in it is what lets the
heap be filled by induction over them.

`Transactions`, for any numbers of nodes, transactions and blocks (`OnceExecuted`).
The inductive invariant adds to `ExecutedOnce` that a parent is a block before its child
(`ParentsFit`), that a block carries nothing that its chain has executed before it and
that all below its `low` was executed there (`BlockFits`). `switchChains` takes the blocks
of the old chain back one by one, from the last, and applies those of the new one; after
each of them the node has executed what the chain up to there executes (`IsAt`), which
is where it matters that a block taken back has nothing in common with those
that stay, and what becomes of `low`. The recursion of `switchChains` is two functions
on positions of a chain, one down to the fork and one up from it. The only assumption is
`TransactionsAssumption`.

`BlockTree`, for any numbers of miners, blocks, levels and attackers, any tolerance, any
depth of the window, any network and any order of arrival. Its inductive invariant `Inv`
says of the blocks seen that no block hangs on an own one that was not mined (`TreeOK`) and
that all own blocks are connected (`Own`), and of the chain (`Good`):

* each block seen is held once, unless its level was dropped, and nothing else is (`Blocks`,
  `Window`: the highest level is less than twice `Depth` above the lowest);
* exactly the blocks that are connected in `tree` are linked, each to the node of its
  parent, with its height as score; all others wait as orphans (`Links`);
* `mined` is the number of own blocks on the way down (`Mined`). A node whose parent level
  was dropped keeps that number, which is why it is stated with the path in `tree` and
  not with the nodes below;
* the tip is linked, the counters are those of its path (`Main`, `Stats`), and for an honest
  miner no linked node is better (`Best`).

`addBlock` goes through states in which this does not hold, so the proof follows it.
The window may move first and drop levels below the tip and below every fork that the
bound `WithinDepth` allows (`RoomKeeps`). The node is appended, linked if its parent is
(`Appended`). Then `unorphanBlocks` links what waited for it: level by level the nodes
found are those that become connected by the new block (`New`, `FoundTells`,
`JoinsRight`), and in between `Links` holds for the miners connected before and the new
one. Last, the best of the new nodes contends with the tip; `switchChains` walks both
branches to their fork inside the window and leaves the counters of the new one
(`SwitchTells`, `JoinKeeps`). That the best of the new nodes is enough rests on
`chainNodeMax` being an order on nodes with equally many own blocks (`BestThere`) and on
all new nodes sharing theirs with the block that links them: no block hangs on an own
one that this miner has not mined (`CountNew`, from `TreeOK`). `generateBlock` appends to the tip
(`BumpKeeps`).

The theorems follow from `Inv`: `TypesRight`, `NoAbort`, `LinksRight`, `OneOwnBlock`
and `StatsRight`, with `MainBest` for honest miners. Their hypothesis
`Once` is that the miner is honest or that the model does not let it mine twice at a
height (`~MineAgain`). For an honest miner nothing is assumed: that it never does is
proved (`NotMined`: its own block would be a tip that wins at that height). An attacker
does, and `tree_twice` shows what becomes of `OneBlockPerHeight` then. `MainIsBest` is
not what an attacker does, which keeps a lower chain of its own.

`OwnKept` is about every attacker, also one that mines twice at a height, for which `Inv`
fails: a second node of the same miner and height is there, `findChainNode` finds only the
first, and counters and links are those of another block. It has an invariant of its own,
`Goes`, with `Fits`: the window holds the tip, which is linked, and no node has a score
above its height. Whatever is added leaves the tip and its count alone until another node
contends with it, and `chainNodeMax` then looks at the scores of the two (`AddFits`,
`GoesOn`). The recursive functions run over the heights of the window, and what they compute is proved
by induction over these.

Model-checked only:

* liveness: `RoundEnds`, `ShutdownCompletes`, `EndsAsSerial`;
* what a recursion or a fold computes: equality with the sequential run
  (`CommittedIsSerial`), the buddy tree
  (`TreeIsExact`, `ContentIsKept`), and what blocks of several nodes become
  (`ConcealedIsOwn`, `EndsInAgreement`). Where a recursion runs over an interval of numbers
  (`MsgHeap`, `LpRollback`, `Transactions`, `Chain`), it is written as a function on that
  interval, and what it computes is proved by induction over the positions;
* the invariants of `RemoteMsg`. `GvtIsSafe` there needs, of messages in flight, what
  `Gvt` proves of threads, and is next in the plan.

## Not modelled

* The adaptive checkpoint interval: floating-point averages of measured costs, which
  only choose when to take a checkpoint; `TimeWarp` has a fixed interval and
  `LpRollback` and `ModelMem` take checkpoints at other lengths.
* Incremental checkpoints: compiled out in this build.
* MPI's set-up, error paths, its own barrier and the final drain of several processes,
  and what they do to termination; library control messages, with which nothing
  registers.
* Interleavings inside `process_msg` between processes: in `RemoteMsg` a call is one
  step, since what it shares with others there are only the queue and the counters of
  the GVT. Local messages are in `TimeWarp`.
* Retractable events, periodic statistics and the finalisation of the sequential
  engine. It ends when its heap is empty, also when a retractable event is pending;
  `RBlockSim` has no option that selects it.
* What the contents of a freed message are: `msg_queue_fini` reads `m->next` of a
  message it has just freed.
* The formats of reports, detailed statistics, counters of time and the log.
* Regions and latencies of the topology, which only shape delays, and the random
  numbers: delays and draws are left open. The scripts around the binaries.
* Weak memory, except where the code reads without synchronisation what others write:
  the ANTI bit and the counters of the reduction.
* A selfish miner whose depth exceeds the window: the option is not compared with
  `DEPTH_TO_KEEP`, and no run combines `Gossip` with a moving window.

## Plan

Done, with proofs: `SyncBarrier`, `MsgLife`, `TimeWarp` with `TimeWarpLife`, `GvtRound`
with `Gvt`, `Shutdown`, `MsgHeap`, `LpRollback`, `Transactions`, `Chain` with `BlockTree`, and
`Launch` with placement and shares, `StatsFiles`. Done, checked by TLC: `TimeWarpSerial`,
`Gossip` with the attacks, `RemoteMsg`, `ModelMem`.

Theorems to come, for all values of the constants: `InFlightIsLive` and `CountIsExact` of
`RemoteMsg`, and `ConcealedIsOwn` of `Gossip`.
