------------------------- MODULE MCEpochContinuity -------------------------
(* Block trees for model-checking EpochContinuity, with epochs of four slots.*)
EXTENDS EpochContinuity, TLC

\* Epoch 0 forks after a1 and epoch 1 after a5, each time at the slot of the
\* block that is replaced or later; a8 and d8 begin epoch 2.
TreeSlot ==
    "a1" :> 1 @@ "a2" :> 2 @@ "b2" :> 2 @@ "b3" :> 3 @@ "a4" :> 4 @@ "b4" :> 5
      @@ "a5" :> 5 @@ "a6" :> 6 @@ "c6" :> 7 @@ "d6" :> 6 @@ "a8" :> 8 @@ "d8" :> 9
      @@ "y4" :> 4 @@ "z8" :> 8
TreeBlockNo ==
    "a1" :> 1 @@ "a2" :> 2 @@ "b2" :> 2 @@ "b3" :> 3 @@ "a4" :> 3 @@ "b4" :> 4
      @@ "a5" :> 4 @@ "a6" :> 5 @@ "c6" :> 5 @@ "d6" :> 5 @@ "a8" :> 6 @@ "d8" :> 6
      @@ "y4" :> 1 @@ "z8" :> 3
TreeParent ==
    "a1" :> "anchor" @@ "a2" :> "a1" @@ "b2" :> "a1" @@ "b3" :> "b2" @@ "a4" :> "a2"
      @@ "b4" :> "b3" @@ "a5" :> "a4" @@ "a6" :> "a5" @@ "c6" :> "a5" @@ "d6" :> "a5"
      @@ "a8" :> "a6" @@ "d8" :> "d6" @@ "y4" :> "anchor" @@ "z8" :> "a2"

=============================================================================
