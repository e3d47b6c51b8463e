----------------------------- MODULE BlockTree -----------------------------
(* One miner of the simulated network and the blocks that reach it, in any *)
(* order: a child may come long before its parent.  The network is the     *)
(* environment; what the miner sends to it is left to another module.      *)
EXTENDS Chain

CONSTANTS
    Me,        \* the miner
    Network,   \* bound: the blocks of other miners that may reach it
    MaxBlocks, \* bound: the number of blocks it ever sees
    MaxOrphans,\* bound: the number of orphans it holds when one more comes
    Steps,     \* bound: by how much time may pass between two events
    MineAgain  \* bound: the miner may mine at a height where it has mined

Block == [miner : Miners, prev : Miners \cup {NodeIdMax}, height : 1..MaxHeight]

ASSUME BlockTreeAssumption ==
    /\ Me \in Miners /\ MaxBlocks \in Nat /\ MaxOrphans \in Nat
    /\ Steps \subseteq Nat /\ MineAgain \in BOOLEAN
    /\ Network \subseteq {b \in Block : b.miner # Me /\ (b.prev = NodeIdMax <=> b.height = 1)}

VARIABLES
    chain,   \* blockchainState.chain and the counters of statsState
    now,     \* simulated time of the last event
    tree     \* history: <<miner, height>> of each block seen, and the miner
             \* of the block it was mined on

vars == <<chain, now, tree>>

Init ==
    /\ chain = InitBlockchain
    /\ now = 1
    /\ tree = <<>>

Add(b) == tree' = [id \in DOMAIN tree \cup {<<b.miner, b.height>>} |->
                        IF id \in DOMAIN tree THEN tree[id] ELSE b.prev]
(* Two events may carry the same simulated time, when Steps has 0.         *)
Passes == \E step \in Steps : now' = now + step
MayAdd == ~chain.aborted /\ Cardinality(DOMAIN tree) < MaxBlocks

(* GENERATE_BLOCK.                                                         *)
Mine ==
    /\ MayAdd
    /\ chain.height < MaxHeight
    /\ MineAgain \/ <<Me, chain.height + 1>> \notin DOMAIN tree
    /\ Passes
    /\ chain' = GenerateBlock(chain, now', Me)
    /\ Add(NextBlock(chain, Me))

----------------------------------------------------------------------------
(* What is true of the blocks seen, whatever the chain made of them.       *)

(* The miners of the blocks from height 0 up to the block of m at h.       *)
TruePath(m, h) ==
    LET path[g \in 0..h] == IF g = h THEN m ELSE tree[<<path[g + 1], g + 1>>] IN path

(* At each height, the miners whose block has all its ancestors seen.      *)
Connected ==
    LET f[h \in Heights] ==
          IF h = 0 THEN {NodeIdMax}
          ELSE {m \in Miners : <<m, h>> \in DOMAIN tree /\ tree[<<m, h>>] \in f[h - 1]}
    IN f

MainMiner == At(chain, MainChain(chain)).miner

ForkHeight(m, h) ==
    LET a == TruePath(m, h)
        b == TruePath(MainMiner, chain.height)
        common == {g \in DOMAIN a \cap DOMAIN b : a[g] = b[g]}
    IN CHOOSE g \in common : \A k \in common : k <= g

Larger(x, y) == IF x > y THEN x ELSE y

(* Bound: no block is more than Depth away from what the miner knows, and  *)
(* no fork is longer than Depth.                                           *)
WithinDepth(b) ==
    /\ b.height + Depth > chain.max
    /\ b.height <= chain.height + Depth
    /\ b.prev \in Connected[b.height - 1] =>
         ForkHeight(b.prev, b.height - 1) + Depth >= Larger(chain.max, b.height)

(* RECEIVE_BLOCK.  A block already held is not added again.  Its parent is *)
(* a block of another miner, known or not, or one that this miner mined;   *)
(* the others mine once at each height.                                    *)
Receive(b) ==
    /\ MayAdd
    /\ FindChainNode(chain, b.miner, b.height) = 0
    /\ <<b.miner, b.height>> \notin DOMAIN tree
    /\ b.prev = Me => <<Me, b.height - 1>> \in DOMAIN tree
    /\ WithinDepth(b)
    /\ Cardinality({p \in Positions(chain) : At(chain, p).orphan}) <= MaxOrphans
    /\ Passes
    /\ chain' = AddBlock(chain, b, now', Me)
    /\ Add(b)

(* REQUEST_BLOCK, for a block less than Depth below the highest one.       *)
Answer(m, h) ==
    /\ ~chain.aborted
    /\ h + Depth > chain.max
    /\ chain' = IF MayRetrieve(chain, m, h) THEN chain ELSE Abort(chain)
    /\ UNCHANGED <<now, tree>>

Next ==
    \/ Mine
    \/ \E b \in Network : Receive(b)
    \/ \E m \in Miners, h \in 1..MaxHeight : Answer(m, h)

Spec == Init /\ [][Next]_vars

----------------------------------------------------------------------------
(* Every field keeps its type; the main chain is a node of the tree and    *)
(* nothing is held outside the window.                                     *)
TypeOK ==
    /\ chain.min \in Heights /\ chain.max \in Heights /\ chain.height \in Heights
    /\ \A h \in Heights : \A i \in DOMAIN chain.level[h] : chain.level[h][i] \in Node
    /\ \A h \in 0..(chain.min - 1) : chain.level[h] = <<>>
    /\ chain.index \in DOMAIN chain.level[chain.height]
    /\ chain.aborted \in BOOLEAN /\ now \in Nat

(* As long as neither blocks nor forks are more than Depth apart, no level *)
(* that was dropped, and none that does not fit, is ever looked up: the    *)
(* program does not abort (getChainLevel, moveChainForward).               *)
NeverAborts == ~chain.aborted

(* The number of blocks mined by the miners of S on the chain that ends in *)
(* the block of m at height h.                                             *)
MinedBy(S, m, h) ==
    LET path == TruePath(m, h) IN Cardinality({g \in 1..h : path[g] \in S})

(* A block is an orphan exactly when one of its ancestors has not been     *)
(* seen, however the blocks came.  A linked node points to the node of the *)
(* block it was mined on, and carries the length of its chain and the      *)
(* number of blocks in it that this miner mined, also when it was linked   *)
(* late and by a block several levels below (unorphanBlocks, addBlock).    *)
LinksAreRight ==
    \A p \in Positions(chain) :
        LET n == At(chain, p) IN
        /\ n.orphan <=> n.miner \notin Connected[p[1]]
        /\ ~n.orphan /\ p[1] > 0 =>
            /\ n.score = p[1]
            /\ n.mined = MinedBy({Me}, n.miner, p[1])
            /\ p[1] > chain.min => chain.level[p[1] - 1][n.parent].miner = tree[<<n.miner, p[1]>>]

(* No linked block would be a better tip than the main chain's: none is    *)
(* higher, none as high holds more blocks of this miner's own, and of the  *)
(* others none was seen earlier, or at that time with a smaller id.        *)
(* addBlock compares only the best of the blocks it links with the main    *)
(* chain, so nothing else may have been better before.                     *)
MainIsBest ==
    LET main == At(chain, MainChain(chain)) IN
    /\ ~main.orphan
    /\ \A p \in Positions(chain) :
         LET n == At(chain, p) IN
         ~n.orphan /\ p # MainChain(chain) =>
            /\ p[1] <= chain.height
            /\ p[1] = chain.height =>
                 \/ n.mined < main.mined
                 \/ n.mined = main.mined /\ n.time > main.time
                 \/ n.mined = main.mined /\ n.time = main.time /\ n.miner > main.miner

(* After any number of reorganisations the counters are those of the main  *)
(* chain as a whole: what is reverted and what is applied cancel out       *)
(* (switchChains, statsAddBlockSelfish, statsRemoveBlockSelfish).          *)
StatsMatchMain ==
    chain.stats = [total    |-> chain.height,
                   own      |-> MinedBy({Me}, MainMiner, chain.height),
                   attacker |-> MinedBy(Attackers, MainMiner, chain.height)]

(* No miner mines twice at the same height (Block.h:29), which is what     *)
(* lets a block be named by its miner and its height.                      *)
OneBlockPerHeight ==
    \A h \in Heights : Cardinality({i \in DOMAIN chain.level[h] : chain.level[h][i].miner = Me}) <= 1

(* An attacker gives up a block of its own only for a chain that is longer *)
(* by the tolerance at least.                                              *)
OwnBlocksAreKept ==
    [][LET was == At(chain, MainChain(chain))
           is == At(chain', MainChain(chain'))
       IN is.mined < was.mined => is.score >= was.score + Tolerance]_vars
=============================================================================
