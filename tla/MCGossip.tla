------------------------------ MODULE MCGossip ------------------------------
(***************************************************************************)
(* Two scenes of Gossip, with three nodes in a row and a selfish miner at  *)
(* one end.  In the first, both ends mine three blocks in all.  In the     *)
(* second, what is for the far end stays under way, and the selfish miner  *)
(* and its neighbour mine five: enough to overtake it, and for it to go on *)
(* from there until it publishes.                                          *)
(***************************************************************************)
EXTENDS Gossip

VARIABLE scene

Row == [n \in Miners |-> {p \in Miners : p = n + 1 \/ n = p + 1}]

SceneInit == GossipInit /\ scene \in {"relays", "overtaken"}

SceneNext ==
    /\ UNCHANGED scene
    /\ \/ /\ scene = "relays"
          /\ \/ /\ TotalMined < 3
                /\ \E n \in {0, 2} : chain[n].height < 3 /\ MayMine(n) /\ Mine(n)
             \/ \E m \in BagToSet(msgs) : Deliver(m)
       \/ /\ scene = "overtaken"
          /\ \/ \E n \in {0, 1} : stats[n].mined < 3 /\ MayMine(n) /\ Mine(n)
             \/ \E m \in BagToSet(msgs) : m.to # 2 /\ Deliver(m)

SceneSpec == SceneInit /\ [][SceneNext]_<<gossipVars, scene>>
=============================================================================
