------------------------- MODULE MCBlockTreeHonest -------------------------
(***************************************************************************)
(* Two scenes of an honest miner.  In the first, it sees up to five blocks *)
(* of every tree of height 3, in every order, also several at one time.    *)
(* In the second, the window moves while a fork lies over its border, with *)
(* up to three orphans.                                                    *)
(***************************************************************************)
EXTENDS MCBlockTree

VARIABLE scene

BushyBlocks == {b \in EveryBlock : b.height <= 3}

(* Early branches, and a late fork by the two others in turns.             *)
BorderBlocks ==
    {[miner |-> 0, prev |-> NodeIdMax, height |-> 1], [miner |-> 0, prev |-> 0, height |-> 2],
     [miner |-> 2, prev |-> 1, height |-> 3], [miner |-> 0, prev |-> 1, height |-> 8],
     [miner |-> 2, prev |-> 0, height |-> 9], [miner |-> 0, prev |-> 2, height |-> 10]}

SceneInit == Init /\ scene \in {"bushy", "border"}

SceneNext ==
    /\ UNCHANGED scene
    /\ \/ /\ scene = "bushy" /\ Cardinality(DOMAIN tree) < 5
          /\ (chain.height < 3 /\ Mine) \/ \E b \in BushyBlocks : Receive(b)
       \/ /\ scene = "border"
          /\ Mine \/ \E b \in BorderBlocks : Receive(b)
          /\ now' = now + 1
       \/ \E m \in Miners, h \in 1..MaxHeight : Answer(m, h)

SceneSpec == SceneInit /\ [][SceneNext]_<<vars, scene>>
=============================================================================
