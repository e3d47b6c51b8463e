------------------------------- MODULE Chain -------------------------------
(* The block tree that one simulated miner keeps (RBlockSim/src/Block.c).  *)
(* A chain is a record: the levels of the window (for each height, the     *)
(* nodes in order of arrival), the tip of the main chain, and the counters *)
(* kept while the main chain changes.  The operators here are the          *)
(* functions of Block.c, from one chain to the next; modules that give     *)
(* them a schedule extend this one.  Transactions carried by the blocks    *)
(* are left out.                                                           *)
EXTENDS Naturals, Sequences, FiniteSets, SequencesExt

CONSTANTS
    NNodes,      \* node ids are 0..NNodes-1
    Attackers,   \* the ids for which is_attacker holds
    Tolerance,   \* attackConfig.*.catchupTolerance
    Depth,       \* DEPTH_TO_KEEP
    MaxHeight    \* bound: no block is mined above it

ASSUME ChainAssumption ==
    /\ NNodes \in Nat \ {0}
    /\ Attackers \subseteq 0..(NNodes - 1)
    /\ Tolerance \in Nat
    /\ Depth \in Nat \ {0}
    /\ MaxHeight \in Nat

Miners == 0..(NNodes - 1)
NodeIdMax == NNodes
Heights == 0..MaxHeight

(* The union of parent_index and parentMinerId is one field, read as the   *)
(* former when the node is linked and as the latter when it is an orphan.  *)
Node == [miner : Miners \cup {NodeIdMax}, orphan : BOOLEAN, parent : Nat,
         score : Heights, mined : 0..(MaxHeight + 1), time : Nat]

GenesisBlock == [miner |-> NodeIdMax, orphan |-> FALSE, parent |-> NodeIdMax,
                 score |-> 0, mined |-> 0, time |-> 0]

InitBlockchain ==
    [level   |-> [h \in Heights |-> IF h = 0 THEN <<GenesisBlock>> ELSE <<>>],
     index   |-> 1,
     height  |-> 0,
     max     |-> 0,
     min     |-> 0,
     stats   |-> [total |-> 0, own |-> 0, attacker |-> 0],
     aborted |-> FALSE]

(* A node of the tree is found at its position, <<height, index>>.         *)
At(c, p) == c.level[p[1]][p[2]]
MainChain(c) == <<c.height, c.index>>
Positions(c) == UNION {{h} \X DOMAIN c.level[h] : h \in Heights}
Abort(c) == [c EXCEPT !.aborted = TRUE]

(* getChainLevel aborts below the least height held.  Above the 2 * Depth   *)
(* held, the debug build aborts one level late and the release build reads *)
(* past the array: here all of this counts as aborting.                    *)
HasLevel(c, h) == c.min <= h /\ h < c.min + 2 * Depth

(* The index of the first node of that miner at that height, or 0.         *)
FindChainNode(c, miner, h) ==
    IF h > c.max THEN 0 ELSE SelectInSeq(c.level[h], LAMBDA n : n.miner = miner)

(* retrieveBlock: the node as a block again, with the miner of its parent. *)
Retrieve(c, miner, h) ==
    LET n == c.level[h][FindChainNode(c, miner, h)] IN
    [miner |-> miner, height |-> h,
     prev |-> IF n.orphan THEN n.parent ELSE At(c, <<h - 1, n.parent>>).miner]

(* Retrieving needs the level of the block and, unless it is an orphan,    *)
(* the one below.                                                          *)
MayRetrieve(c, miner, h) ==
    h <= c.max => /\ HasLevel(c, h)
                  /\ FindChainNode(c, miner, h) = 0
                       \/ c.level[h][FindChainNode(c, miner, h)].orphan
                       \/ HasLevel(c, h - 1)

----------------------------------------------------------------------------
(* chainNodeMax: each operator says whether it returns its first argument. *)

\* fault: the time is not looked at
EarlierByMiner(a, b) == a.miner <= b.miner

EarlierSeen(a, b) == a.time < b.time \/ (a.time = b.time /\ a.miner <= b.miner)

\* fault: the latest node wins, whatever its score
KeepsLatest(a, b) == b.time <= a.time

KeepsHonest(a, b) ==
    \/ a.score > b.score
    \/ /\ a.score = b.score
       /\ \/ a.mined > b.mined
          \/ a.mined = b.mined /\ EarlierSeen(a, b)

\* fault: an equal chain is enough to give up its own
KeepsOwnIfLonger(a, b) == a.score > b.score

(* The attacker's rule, for a node with more ancestors of its own than b.  *)
KeepsOwn(a, b) ==
    \/ a.score >= b.score
    \/ a.score + Tolerance > b.score
    \/ a.score + Tolerance = b.score /\ EarlierSeen(a, b)

KeepsAttacker(a, b) ==
    CASE a.mined = b.mined -> KeepsHonest(a, b)
      [] a.mined > b.mined -> KeepsOwn(a, b)
      [] a.mined < b.mined -> ~KeepsOwn(b, a)

(* is_attacker reads a bit of a map that is filled once, before the LPs.   *)
IsAttacker(n) == n \in Attackers

Keeps(me, a, b) == IF IsAttacker(me) THEN KeepsAttacker(a, b) ELSE KeepsHonest(a, b)

----------------------------------------------------------------------------
(* switchChains.                                                           *)

(* The indexes of the ancestors of the node at p that the window holds.    *)
Ancestry(c, p) ==
    LET up[h \in c.min..p[1]] == IF h = p[1] THEN p[2] ELSE At(c, <<h + 1, up[h + 1]>>).parent
    IN up

(* Whose blocks each counter counts.  Under a 51% attack, own is left out. *)
CountedFor(me) == [total |-> Miners, own |-> {me}, attacker |-> {n \in Miners : IsAttacker(n)}]

(* applyChainNode and revertAppliedChainNode for the blocks at the heights.*)
StatsOf(c, up, heights, me) ==
    [k \in DOMAIN CountedFor(me) |->
        Cardinality({h \in heights : c.level[h][up[h]].miner \in CountedFor(me)[k]})]

\* fault: reverting starts at the height of the new tip
SwitchChainsFromTip(c, p, me) ==
    LET old == Ancestry(c, MainChain(c))
        new == Ancestry(c, p)
        common == {h \in DOMAIN old \cap DOMAIN new : old[h] = new[h]}
        fork == CHOOSE h \in common : \A g \in common : g <= h
        off == StatsOf(c, old, {h \in DOMAIN old : h > fork /\ h <= p[1]}, me)
        on == StatsOf(c, new, {h \in DOMAIN new : h > fork}, me)
    IN [c EXCEPT !.height = p[1], !.index = p[2], !.stats = [k \in DOMAIN @ |-> (@[k] - off[k]) + on[k]]]

(* Blocks are reverted down to the highest common ancestor, those of the   *)
(* new branch applied from there up.  A fork older than the window aborts. *)
SwitchChains(c, p, me) ==
    LET old == Ancestry(c, MainChain(c))
        new == Ancestry(c, p)
        common == {h \in DOMAIN old \cap DOMAIN new : old[h] = new[h]}
        fork == CHOOSE h \in common : \A g \in common : g <= h
        off == StatsOf(c, old, {h \in DOMAIN old : h > fork}, me)
        on == StatsOf(c, new, {h \in DOMAIN new : h > fork}, me)
    IN IF common = {} THEN Abort(c)
       ELSE [c EXCEPT !.height = p[1], !.index = p[2],
                      !.stats = [k \in DOMAIN @ |-> (@[k] - off[k]) + on[k]]]

MaybeSwitchChains(c, p, me) ==
    IF ~HasLevel(c, c.height) THEN Abort(c)
    ELSE IF Keeps(me, At(c, MainChain(c)), At(c, p)) THEN c ELSE SwitchChains(c, p, me)

----------------------------------------------------------------------------
(* addBlock.                                                               *)

MoveChainForward(c) ==
    [c EXCEPT !.level = [h \in Heights |-> IF h < c.min + Depth THEN <<>> ELSE @[h]],
              !.min = @ + Depth]

\* fault: the window moves when its second half is entered
MakeRoomEarly(c, h) ==
    LET raised == [c EXCEPT !.max = h]
    IN IF h <= c.max THEN c
       ELSE IF h >= c.min + Depth THEN MoveChainForward(raised) ELSE raised

MakeRoom(c, h) ==
    LET raised == [c EXCEPT !.max = h]
    IN IF h <= c.max THEN c
       ELSE IF h >= c.min + 2 * Depth THEN MoveChainForward(raised) ELSE raised

(* unorphanBlocks: the orphans that descend from the node at <<h, i>>, as  *)
(* the indexes at each height from h up.                                   *)
IsChild(n, parent) == n.orphan /\ n.parent = parent.miner
Descendants(c, h, i) ==
    LET found[g \in h..c.max] ==
          IF g = h THEN {i}
          ELSE {j \in DOMAIN c.level[g] :
                  \E p \in found[g - 1] : IsChild(c.level[g][j], c.level[g - 1][p])}
    IN found

\* fault: all that is linked gets the score of a child
UnorphanBlocksFlat(c, h, i, found) ==
    [c EXCEPT !.level = [g \in Heights |-> [j \in DOMAIN @[g] |->
        IF g \in (h + 1)..c.max /\ j \in found[g]
        THEN [@[g][j] EXCEPT
                !.orphan = FALSE,
                !.parent = CHOOSE p \in found[g - 1] : IsChild(c.level[g][j], c.level[g - 1][p]),
                !.mined = c.level[h][i].mined,
                !.score = c.level[h][i].score + 1]
        ELSE @[g][j]]]]

UnorphanBlocks(c, h, i, found) ==
    LET top == c.level[h][i]
        linked(g, j) ==
          [c.level[g][j] EXCEPT
             !.orphan = FALSE,
             !.parent = CHOOSE p \in found[g - 1] : IsChild(c.level[g][j], c.level[g - 1][p]),
             !.mined = top.mined,
             !.score = top.score + (g - h)]
    IN [c EXCEPT !.level = [g \in Heights |-> [j \in DOMAIN @[g] |->
                              IF g \in (h + 1)..c.max /\ j \in found[g]
                              THEN linked(g, j) ELSE @[g][j]]]]

(* The node at <<h, i>> is linked: link what descends from it, and let the *)
(* best of them all contend with the main chain.  They share ancestors of  *)
(* the node's own and are compared two by two as nodes of equal mined.     *)
JoinBranch(c, h, i, me) ==
    LET found == Descendants(c, h, i)
        d == UnorphanBlocks(c, h, i, found)
        branch == UNION {{g} \X found[g] : g \in DOMAIN found}
        best == CHOOSE p \in branch : \A q \in branch : Keeps(me, At(d, p), At(d, q))
    IN MaybeSwitchChains(d, best, me)

(* populateChainNode, and the time at which the block was seen.            *)
ChainNodeOf(b, now) ==
    [miner |-> b.miner, orphan |-> TRUE, parent |-> b.prev, score |-> 0, mined |-> 0, time |-> now]

(* The new node is the last one of its level.                              *)
AddBlock(c, b, now, me) ==
    LET r == MakeRoom(c, b.height)
        i == SelectInSeq(r.level[b.height - 1], LAMBDA n : n.miner = b.prev)
        linked == i > 0 /\ ~r.level[b.height - 1][i].orphan
        parent == r.level[b.height - 1][i]
        node == IF linked
                THEN [ChainNodeOf(b, now) EXCEPT !.orphan = FALSE, !.parent = i,
                                                 !.score = parent.score + 1,
                                                 !.mined = parent.mined]
                ELSE ChainNodeOf(b, now)
        added == [r EXCEPT !.level[b.height] = Append(@, node)]
    IN IF ~HasLevel(r, b.height) \/ ~HasLevel(r, b.height - 1) THEN Abort(r)
       ELSE IF linked THEN JoinBranch(added, b.height, Len(added.level[b.height]), me)
       ELSE added

----------------------------------------------------------------------------
(* generateBlock extends the main chain, then counts its own block.        *)
NextBlock(c, me) == [miner |-> me, prev |-> At(c, MainChain(c)).miner, height |-> c.height + 1]

GenerateBlock(c, now, me) ==
    LET b == NextBlock(c, me)
        d == AddBlock(c, b, now, me)
    IN IF d.aborted THEN d ELSE [d EXCEPT !.level[b.height][Len(d.level[b.height])].mined = @ + 1]
=============================================================================
