-------------------------- MODULE MCChainSelector --------------------------
(* A header tree over three epochs of four slots, frozen for the last two.    *)
EXTENDS ChainSelector, TLC

\* Forks before the window of epoch 0 closes (b1), within it (d3) and in epoch 1
\* (e5, f6); d9 leaves epoch 1 empty; h7 is on c6 too but of the epoch before that of
\* c9; x7 re-uses an old certificate and y2 fails its checks.
TreeSlot ==
    "a1" :> 1 @@ "b1" :> 1 @@ "a2" :> 2 @@ "c3" :> 3 @@ "d3" :> 3 @@ "c5" :> 5
      @@ "e5" :> 5 @@ "c6" :> 6 @@ "f6" :> 6 @@ "c9" :> 9 @@ "f9" :> 9 @@ "g9" :> 10
      @@ "d9" :> 9 @@ "x7" :> 7 @@ "y2" :> 2 @@ "d6" :> 6 @@ "d10" :> 10
      @@ "h7" :> 7
TreeBlockNo ==
    "a1" :> 1 @@ "b1" :> 1 @@ "a2" :> 2 @@ "c3" :> 3 @@ "d3" :> 3 @@ "c5" :> 4
      @@ "e5" :> 4 @@ "c6" :> 5 @@ "f6" :> 5 @@ "c9" :> 6 @@ "f9" :> 6 @@ "g9" :> 6
      @@ "d9" :> 2 @@ "x7" :> 6 @@ "y2" :> 2 @@ "d6" :> 4 @@ "d10" :> 5
      @@ "h7" :> 6
TreeParent ==
    "a1" :> "anchor" @@ "b1" :> "anchor" @@ "a2" :> "a1" @@ "c3" :> "a2" @@ "d3" :> "a2"
      @@ "c5" :> "c3" @@ "e5" :> "c3" @@ "c6" :> "c5" @@ "f6" :> "c5" @@ "c9" :> "c6"
      @@ "f9" :> "f6" @@ "g9" :> "c6" @@ "d9" :> "b1" @@ "x7" :> "f6" @@ "y2" :> "a1"
      @@ "d6" :> "d3" @@ "d10" :> "d6" @@ "h7" :> "c6"
TreeKey ==
    "a1" :> 1 @@ "b1" :> 2 @@ "a2" :> 2 @@ "c3" :> 1 @@ "d3" :> 2 @@ "c5" :> 2
      @@ "e5" :> 1 @@ "c6" :> 1 @@ "f6" :> 2 @@ "c9" :> 1 @@ "f9" :> 1 @@ "g9" :> 2
      @@ "d9" :> 1 @@ "x7" :> 2 @@ "y2" :> 1 @@ "d6" :> 2 @@ "d10" :> 1 @@ "h7" :> 1
TreeCounter ==
    "a1" :> 0 @@ "b1" :> 1 @@ "a2" :> 1 @@ "c3" :> 0 @@ "d3" :> 2 @@ "c5" :> 2
      @@ "e5" :> 1 @@ "c6" :> 0 @@ "f6" :> 3 @@ "c9" :> 1 @@ "f9" :> 0 @@ "g9" :> 2
      @@ "d9" :> 0 @@ "x7" :> 1 @@ "y2" :> 0 @@ "d6" :> 2 @@ "d10" :> 0 @@ "h7" :> 0
TreeView == [b \in DOMAIN TreeSlot |->
    [slot |-> TreeSlot[b], issuer |-> TreeKey[b], counter |-> TreeCounter[b], vrf |-> 0]]

=============================================================================
