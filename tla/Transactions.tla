---------------------------- MODULE Transactions ----------------------------
(***************************************************************************)
(* The transactions of RBlockSim (Transaction.c), as the blocks of Block.c *)
(* carry them: a miner puts those that have reached it and that its main    *)
(* chain has not executed into a block; a node executes the transactions of *)
(* the blocks that join its main chain and takes back those of the blocks   *)
(* that leave it.  Which chain a node takes is a matter of Chain; here it   *)
(* may be any, as an attacker with a tolerance also takes a shorter one.    *)
(***************************************************************************)
EXTENDS Integers, Sequences, FiniteSets, SequencesExt, FiniteSetsExt

CONSTANTS
  Miners,      \* the nodes
  TXN_NUMBER,  \* transactions of the whole simulation
  DelayTo,     \* the transmission delay from node 0 to each node
  MaxNow,      \* bound: the last time
  MaxMined     \* bound: blocks mined

ASSUME TransactionsAssumption ==
  /\ 0 \in Miners /\ Miners \subseteq Nat
  /\ {TXN_NUMBER, MaxNow, MaxMined} \subseteq Nat
  /\ DelayTo \in [Miners -> Nat]

VARIABLES
  now,        \* the time, one for all nodes: a message is not received before it is sent
  blocks,     \* all blocks mined, in order: [parent, data]; 0 is the genesis block
  main,       \* per node: the tip of its main chain
  transactionState  \* per node: [bitmap, low, high], bitmap being the executed ones

txnVars == <<now, blocks, main, transactionState>>

-----------------------------------------------------------------------------
\* generateTransactions: one at each unit of time.  The cast of the random
\* number to an integer comes before its product, so that all are from node 0.
Timestamp(i) == i
Sender(i) == 0

\* getTransactionDeliveryTime
DeliveryTime(i, n) == Timestamp(i) + DelayTo[n]

Ids == 1 .. Len(blocks)

\* The blocks from genesis, which has no transactions, to block b.
ChainTo(b) ==
  LET C[c \in 0 .. b] == IF c = 0 THEN <<>> ELSE Append(C[blocks[c].parent], c)
  IN  C[b]

\* deliverNewTransactions
Delivered(s, t) ==
  [s EXCEPT !.low = Min({i \in @ .. TXN_NUMBER : i \notin s.bitmap}),
            !.high = Min({TXN_NUMBER} \cup {i \in @ .. TXN_NUMBER - 1 : Timestamp(i) > t})]

Available(s, t, n) ==
  {i \in s.low .. s.high - 1 : i \notin s.bitmap /\ (Sender(i) = n \/ DeliveryTime(i, n) < t)}

\* generateTransactionData, from a state with all deliveries.  When the first
\* transaction is the only one, high stays at low and it is not executed.
TransactionData(s, t, n) ==
  LET included == Available(s, t, n)
      last == Max({s.low} \cup included)
  IN  IF s.high <= s.low THEN [low |-> 0, high |-> 0, included |-> {}]
      ELSE [low |-> s.low, included |-> included,
            high |-> IF last = s.low THEN last ELSE last + 1]

\* The transactions that a block executes.
Executes(data) == data.included \cap (data.low .. data.high - 1)

\* applyBlockTransactions
Applied(s, data) ==
  [s EXCEPT !.bitmap = @ \cup Executes(data), !.high = Max({@, data.high})]

\* fault: low stays above what is available again
RevertedHigh(s, data) == [s EXCEPT !.bitmap = @ \ Executes(data)]

\* revertAppliedBlockTransactions
Reverted(s, data) ==
  [s EXCEPT !.bitmap = @ \ Executes(data), !.low = Min({@, data.low})]

\* switchChains from block a to block b: back to the last common block, then on.
Switched(s, a, b) ==
  LET old == ChainTo(a)
      new == ChainTo(b)
      n   == Len(LongestCommonPrefix({old, new}))
      Back[i \in n .. Len(old)] ==
        IF i = Len(old) THEN s ELSE Reverted(Back[i + 1], blocks[old[i + 1]].data)
      On[i \in n .. Len(new)] ==
        IF i = n THEN Back[n] ELSE Applied(On[i - 1], blocks[new[i]].data)
  IN  On[Len(new)]

-----------------------------------------------------------------------------
TxnInit ==
  /\ now = 0
  /\ blocks = <<>>
  /\ main = [n \in Miners |-> 0]
  /\ transactionState = [n \in Miners |-> [bitmap |-> {}, low |-> 0, high |-> 0]]

Tick ==
  /\ now < MaxNow
  /\ now' = now + 1
  /\ UNCHANGED <<blocks, main, transactionState>>

\* generateBlock: the block goes on top of the main chain and joins it.
GenerateBlock(n) ==
  LET s == Delivered(transactionState[n], now)
      data == TransactionData(s, now, n)
  IN  /\ Len(blocks) < MaxMined
      /\ blocks' = Append(blocks, [parent |-> main[n], data |-> data])
      /\ main' = [main EXCEPT ![n] = Len(blocks')]
      /\ transactionState' = [transactionState EXCEPT ![n] = Applied(s, data)]
      /\ UNCHANGED now

\* receiveBlock, when it ends with another main chain.
SwitchChains(n, b) ==
  /\ b # main[n]
  /\ transactionState' = [transactionState EXCEPT ![n] = Switched(@, main[n], b)]
  /\ main' = [main EXCEPT ![n] = b]
  /\ UNCHANGED <<now, blocks>>

TxnNext ==
  \/ Tick
  \/ \E n \in Miners : GenerateBlock(n)
  \/ \E n \in Miners : \E b \in Ids : SwitchChains(n, b)

TxnSpec == TxnInit /\ [][TxnNext]_txnVars

-----------------------------------------------------------------------------
\* A node has executed exactly the transactions of its main chain, whatever
\* chains it has left and come back to; no chain executes one twice, so that
\* taking a block back never takes back what another one has executed; and
\* nothing that is available lies below low, where it would not be looked for.
ExecutedOnce ==
  /\ \A n \in Miners :
       LET s == transactionState[n] IN
       /\ s.bitmap = UNION {Executes(blocks[b].data) : b \in Range(ChainTo(main[n]))}
       /\ 0 .. s.low - 1 \subseteq s.bitmap
  /\ \A b \in Ids : \A c \in Range(ChainTo(b)) \ {b} :
       Executes(blocks[b].data) \cap Executes(blocks[c].data) = {}
=============================================================================
