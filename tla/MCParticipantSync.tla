-------------------------- MODULE MCParticipantSync --------------------------
(* Forks at a1, at a2 and at b2.  Peer 1 goes from the first branch to the      *)
(* second, peer 2 from the second to x3 on the first and back.                  *)
EXTENDS ParticipantSync, TLC

TreeSlot == "a1" :> 1 @@ "a2" :> 2 @@ "a3" :> 5 @@ "b2" :> 3 @@ "b3" :> 4 @@ "c3" :> 6
              @@ "x3" :> 4 @@ "b4" :> 7
TreeBlockNo == "a1" :> 1 @@ "a2" :> 2 @@ "a3" :> 3 @@ "b2" :> 2 @@ "b3" :> 3 @@ "c3" :> 3
                 @@ "x3" :> 3 @@ "b4" :> 4
TreeParent == "a1" :> "anchor" @@ "a2" :> "a1" @@ "a3" :> "a2" @@ "b2" :> "a1"
                @@ "b3" :> "b2" @@ "c3" :> "b2" @@ "x3" :> "a2" @@ "b4" :> "b3"
TreeView == [b \in DOMAIN TreeSlot |->
    [slot |-> TreeSlot[b], issuer |-> IF b = "x3" THEN 2 ELSE 1, counter |-> 0, vrf |-> 0]]
TreeBody == [b \in DOMAIN TreeSlot |-> b]
TreeReaches == 1 :> {"a1", "a2", "a3", "b3"} @@ 2 :> {"a1", "b2", "c3", "x3", "b3", "b4"}

(* One fork of two blocks against one.                                           *)
Fork == {"a1", "a2", "b2", "b3"}
ForkSlot == [b \in Fork |-> TreeSlot[b]]
ForkBlockNo == [b \in Fork |-> TreeBlockNo[b]]
ForkParent == [b \in Fork |-> TreeParent[b]]
ForkView == [b \in Fork |-> TreeView[b]]
ForkBody == [b \in Fork |-> b]
ForkReaches == 1 :> {"a2"} @@ 2 :> {"b3"}

=============================================================================
