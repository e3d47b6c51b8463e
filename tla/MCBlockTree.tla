---------------------------- MODULE MCBlockTree ----------------------------
(* The blocks that reach the miner in the runs of BlockTree.               *)
EXTENDS BlockTree

EveryBlock ==
    {b \in Block : b.miner # Me /\ (b.prev = NodeIdMax <=> b.height = 1)}

(* Miner 1 extends its own chain from the genesis block; miner 2 extends   *)
(* the block of miner 0 at height `from`.                                  *)
Branches(top, from, to) ==
    {[miner |-> 1, prev |-> IF h = 1 THEN NodeIdMax ELSE 1, height |-> h] : h \in 1..top}
      \cup {[miner |-> 2, prev |-> IF h = from + 1 THEN 0 ELSE 2, height |-> h] : h \in (from + 1)..to}

MiningBranches == Branches(4, 2, 4)

(* And a fork when the window of 2 * 5 levels is about to move.            *)
LateBranches == MiningBranches \cup {[miner |-> 1, prev |-> 0, height |-> 9]}
=============================================================================
