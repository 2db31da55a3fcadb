---------------------------- MODULE MCWalReplay -----------------------------
(* A block tree for model-checking WalReplayLoops: two branches after a1     *)
(* whose second blocks share a slot, and a block above both.                 *)
EXTENDS WalReplayLoops

TreeSlot == "a1" :> 1 @@ "a2" :> 2 @@ "b2" :> 2 @@ "a3" :> 3
TreeBlockNo == "a1" :> 1 @@ "a2" :> 2 @@ "b2" :> 2 @@ "a3" :> 3
TreeParent == "a1" :> "anchor" @@ "a2" :> "a1" @@ "b2" :> "a1" @@ "a3" :> "a2"

=============================================================================
