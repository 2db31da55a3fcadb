----------------------------- MODULE MCLiveFeed -----------------------------
(* The peer goes from a1 to b1, which has the same height, and back to a1 when   *)
(* it is extended by a2.                                                         *)
EXTENDS LiveFeed

TreeSlot == "a1" :> 1 @@ "b1" :> 2 @@ "a2" :> 3
TreeBlockNo == "a1" :> 1 @@ "b1" :> 1 @@ "a2" :> 2
TreeParent == "a1" :> "anchor" @@ "b1" :> "anchor" @@ "a2" :> "a1"
PeerPath == {<<"anchor", "a1">>, <<"a1", "b1">>, <<"b1", "a2">>}

=============================================================================
