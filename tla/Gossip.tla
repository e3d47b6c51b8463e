------------------------------- MODULE Gossip -------------------------------
(* The simulated network (RBlockSim.c, Network.c): nodes mine, relay what  *)
(* they receive for the first time, and ask for the parents they lack; a   *)
(* selfish miner conceals its blocks until there are enough of them.  The  *)
(* model is that of the committed events, each one handled at once.        *)
(* Delays are drawn from exponential distributions, so messages are        *)
(* delivered in any order.                                                 *)
EXTENDS Chain, Bags, FiniteSetsExt

CONSTANTS
    Peers,         \* peer_lists: the peers of each node
    Fanout,        \* GOSSIP_FANOUT
    WithPower,     \* the nodes whose hashPowerPortion is positive
    Selfish,       \* attackConfig.type = ATTACK_SELFISH_MINING
    ConcealDepth,  \* attackConfig.selfish.depth
    MaxMined       \* bound: the number of blocks mined

ASSUME GossipAssumption ==
    /\ Peers \in [Miners -> SUBSET Miners]
    /\ \A n \in Miners, p \in Miners : p \in Peers[n] <=> n \in Peers[p]
    /\ Fanout \in Nat /\ ConcealDepth \in Nat /\ MaxMined \in Nat
    /\ Selfish \in BOOLEAN /\ WithPower \subseteq Miners
    /\ MaxHeight < 2 * Depth

VARIABLES
    chain,     \* blockchainState.chain of each node
    attacker,  \* the rest of AttackerNodeState, for each attacker
    stats,     \* totalBlocksMined and switchesToSelfishChain of each node
    msgs,      \* the events that are scheduled, as a bag
    started,   \* the attacker has mined at selfish.startTime or later
    aborted    \* abort() was called

gossipVars == <<chain, attacker, stats, msgs, started, aborted>>

BlockMsg(to, b, sender, attack) ==
    [kind |-> "RECEIVE_BLOCK", to |-> to, block |-> b, sender |-> sender, attack |-> attack]

\* fault: the block itself is asked for
RequestParentNot(n, m) ==
    [kind |-> "REQUEST_BLOCK", to |-> m.sender, requester |-> n,
     miner |-> m.block.miner, height |-> m.block.height]

\* requestParent: from the node that the block came from.
RequestParent(n, m) ==
    [kind |-> "REQUEST_BLOCK", to |-> m.sender, requester |-> n,
     miner |-> m.block.prev, height |-> m.block.height - 1]

(* The row of a node in peer_lists.  The graph is any symmetric one here,  *)
(* as is that of the table.                                                *)
PeersOf(n) == Peers[n]

(* gossipBlock: to all peers, or to Fanout of them.                        *)
Targets(n, b) ==
    IF Fanout = 0 \/ Cardinality(PeersOf(n)) <= Fanout \/ b.miner = n
    THEN {PeersOf(n)}
    ELSE {T \in SUBSET PeersOf(n) : Cardinality(T) = Fanout}

Propagated(n, b, attack, to) == SetToBag({BlockMsg(p, b, n, attack) : p \in to})

(* Times are compared at one node only: its clock counts the blocks it has *)
(* seen.  Blocks that come at one time are left to BlockTree.              *)
Clock(c) == Cardinality(Positions(c))

(* statsMineBlockSelfish and statsSwitchToSelfishChain.                    *)
Mined(st, n) == [st EXCEPT ![n].mined = @ + 1]
Switched(st, n) == [st EXCEPT ![n].switches = @ + 1]

TotalMined == MapThenSumSet(LAMBDA n : stats[n].mined, Miners)

----------------------------------------------------------------------------
(* AttackerNodeState beyond the state of a node, and the counters of a     *)
(* SelfishStatsState that Chain does not keep.                             *)
InitAttacker == [last |-> 0, mining |-> FALSE, failed |-> 0, conceals |-> 0]
InitStats == [mined |-> 0, switches |-> 0]

GossipInit ==
    /\ chain = [n \in Miners |-> InitBlockchain]
    /\ attacker = [a \in Attackers |-> InitAttacker]
    /\ stats = [n \in Miners |-> InitStats]
    /\ msgs = EmptyBag
    /\ started = FALSE
    /\ aborted = FALSE

\* fault: a switch of the chain is not noticed
AttackGoesOnBlind(a, c, b, late) ==
    IF late /\ ~a.mining THEN [a EXCEPT !.mining = TRUE, !.last = b.height - 1] ELSE a

(* A new block of the attacker: when it was mined on another's block the   *)
(* chain was switched, and the attack starts again with this block.        *)
AttackGoesOn(a, c, b, late) ==
    LET switched == a.mining /\ b.prev # b.miner /\ FindChainNode(c, b.prev, b.height - 1) # 0
        a1 == IF switched THEN [a EXCEPT !.mining = FALSE, !.failed = @ + 1] ELSE a
    IN IF late /\ ~a1.mining
       THEN [a1 EXCEPT !.mining = TRUE, !.last = b.height - 1] ELSE a1

AncestorsOf(b, concealed) == (b.height - concealed + 1)..(b.height - 1)

(* propagateBlockAndNAncestors: own blocks go to all peers.                *)
Published(n, c, b, concealed) ==
    LET block(h) == IF h = b.height THEN b ELSE Retrieve(c, n, h)
    IN SetToBag({BlockMsg(p, block(h), n, h = b.height) :
                   p \in PeersOf(n), h \in AncestorsOf(b, concealed) \cup {b.height}})

AfterPublication(a, b) ==
    [a EXCEPT !.conceals = @ + 1, !.last = b.height, !.mining = FALSE]

(* GENERATE_BLOCK of the selfish miner.                                    *)
MineSelfish(n, c, b) ==
  \E late \in BOOLEAN :
    LET a == AttackGoesOn(attacker[n], c, b, late)
        concealed == c.height - a.last
        publishes == a.mining /\ concealed >= ConcealDepth
        lost == {h \in AncestorsOf(b, concealed) : FindChainNode(c, n, h) = 0}
    IN /\ started => late
       /\ started' = late
       /\ attacker' = [attacker EXCEPT ![n] = IF publishes THEN AfterPublication(a, b) ELSE a]
       /\ aborted' = (publishes /\ lost # {})
       /\ msgs' = IF publishes /\ lost = {} THEN msgs (+) Published(n, c, b, concealed) ELSE msgs
       /\ stats' = IF publishes THEN Switched(Mined(stats, n), n) ELSE Mined(stats, n)

(* GENERATE_BLOCK.                                                         *)
Mine(n) ==
    LET b == NextBlock(chain[n], n)
        c == GenerateBlock(chain[n], Clock(chain[n]), n)
    IN /\ ~aborted /\ TotalMined < MaxMined /\ chain[n].height < MaxHeight
       /\ chain' = [chain EXCEPT ![n] = c]
       /\ IF Selfish /\ IsAttacker(n)
          THEN MineSelfish(n, c, b)
          ELSE /\ msgs' = msgs (+) Propagated(n, b, FALSE, PeersOf(n))
               /\ stats' = Mined(stats, n)
               /\ UNCHANGED <<attacker, started, aborted>>

Taken(m) == msgs (-) SetToBag({m})

\* fault: only blocks that could be linked are relayed
RelayedIfLinked(n, m, linked, to) ==
    IF linked THEN Propagated(n, m.block, m.attack, to) ELSE EmptyBag

\* A block is relayed when it is new, also when it is an orphan.
Relayed(n, m, linked, to) == Propagated(n, m.block, m.attack, to)

(* RECEIVE_BLOCK of a block the node has: an orphan is asked for again.    *)
ReceiveAgain(m) ==
    LET n == m.to
        i == FindChainNode(chain[n], m.block.miner, m.block.height)
    IN /\ i # 0
       /\ msgs' = IF chain[n].level[m.block.height][i].orphan
                  THEN Taken(m) (+) SetToBag({RequestParent(n, m)}) ELSE Taken(m)
       /\ UNCHANGED <<chain, attacker, stats, started, aborted>>

(* RECEIVE_BLOCK of a new block.                                           *)
ReceiveNew(m) ==
    LET n == m.to
        c == AddBlock(chain[n], m.block, Clock(chain[n]), n)
        linked == ~Last(c.level[m.block.height]).orphan
        updated == MainChain(c) # MainChain(chain[n])
    IN /\ FindChainNode(chain[n], m.block.miner, m.block.height) = 0
       /\ chain' = [chain EXCEPT ![n] = c]
       /\ \E to \in Targets(n, m.block) :
            msgs' = Taken(m) (+) Relayed(n, m, linked, to)
                      (+) (IF linked THEN EmptyBag ELSE SetToBag({RequestParent(n, m)}))
       /\ stats' = IF updated /\ m.attack THEN Switched(stats, n) ELSE stats
       /\ attacker' = IF updated /\ IsAttacker(n)
                      THEN [attacker EXCEPT ![n].last = m.block.height] ELSE attacker
       /\ UNCHANGED <<started, aborted>>

(* REQUEST_BLOCK: one that the node does not have is not answered.         *)
Answer(m) ==
    LET c == chain[m.to] IN
    /\ msgs' = IF FindChainNode(c, m.miner, m.height) = 0 THEN Taken(m)
               ELSE Taken(m) (+) SetToBag({BlockMsg(m.requester, Retrieve(c, m.miner, m.height),
                                                    m.to, FALSE)})
    /\ UNCHANGED <<chain, attacker, stats, started, aborted>>

Deliver(m) ==
    /\ ~aborted
    /\ \/ m.kind = "RECEIVE_BLOCK" /\ (ReceiveAgain(m) \/ ReceiveNew(m))
       \/ m.kind = "REQUEST_BLOCK" /\ Answer(m)

(* scheduleNextBlockGeneration: each event sets the time of the next block *)
(* of a node with hash power anew, so that it may mine at any time.        *)
MayMine(n) == n \in WithPower

GossipNext ==
    \/ \E n \in Miners : MayMine(n) /\ Mine(n)
    \/ \E m \in BagToSet(msgs) : Deliver(m)

GossipSpec == GossipInit /\ [][GossipNext]_gossipVars

----------------------------------------------------------------------------
Holds(n, m, h) == FindChainNode(chain[n], m, h) # 0
Tip(n) == At(chain[n], MainChain(chain[n])).miner
MainAt(n, h) == At(chain[n], <<h, Ancestry(chain[n], MainChain(chain[n]))[h]>>).miner

(* What the selfish miner conceals are the blocks of its main chain above  *)
(* last_propagated_height: they are all its own, so that it finds them all *)
(* when it publishes them, and nobody else has one of them, whatever it    *)
(* receives, relays and is asked for meanwhile.  The unsigned difference   *)
(* of the heights never goes below zero.                                   *)
ConcealedIsOwn ==
    /\ ~aborted
    /\ \A a \in Attackers :
         /\ attacker[a].last <= chain[a].height
         /\ attacker[a].mining /\ Tip(a) = a =>
              \A h \in (attacker[a].last + 1)..chain[a].height :
                 /\ MainAt(a, h) = a
                 /\ \A n \in Miners \ {a} : ~Holds(n, a, h)

(* Once nothing is under way, with peers that all get each block, honest   *)
(* nodes have the same blocks, can link all of them, and agree on the      *)
(* height: each parent that was missing has come, by an answer or by a     *)
(* relay, although requests for unknown blocks are dropped.                *)
EndsInAgreement ==
    msgs = EmptyBag /\ ~aborted =>
        \A n \in Miners \ Attackers :
            /\ \A p \in Positions(chain[n]) : ~At(chain[n], p).orphan
            /\ \A k \in Miners \ Attackers, p \in Positions(chain[n]) :
                  /\ chain[k].height = chain[n].height
                  /\ Holds(k, At(chain[n], p).miner, p[1])

(* Every delivery makes progress, so that relays, repeated requests and    *)
(* their answers come to an end: either a node gets a block it did not     *)
(* have, or a block is replaced by a request for one that is lower, or a   *)
(* request by the block it asks for, or nothing.                           *)
Held == MapThenSumSet(LAMBDA n : Clock(chain[n]), Miners)
UnderWay ==
    MapThenSumSet(LAMBDA m : CopiesIn(m, msgs)
                             * (IF m.kind = "RECEIVE_BLOCK" THEN 2 * m.block.height + 1
                                ELSE 2 * m.height + 2),
                  BagToSet(msgs))

DeliveriesProgress ==
    [][TotalMined' = TotalMined =>
         \/ Held' > Held
         \/ Held' = Held /\ UnderWay' < UnderWay]_gossipVars
=============================================================================
