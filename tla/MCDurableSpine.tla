--------------------------- MODULE MCDurableSpine ---------------------------
(* Block trees for model-checking DurableSpine.                              *)
EXTENDS DurableSpine, TLC

\* One branch of five blocks with gaps between their slots.
LinearSlot == "a1" :> 1 @@ "a2" :> 2 @@ "a3" :> 4 @@ "a4" :> 5 @@ "a5" :> 8
LinearBlockNo == "a1" :> 1 @@ "a2" :> 2 @@ "a3" :> 3 @@ "a4" :> 4 @@ "a5" :> 5
LinearParent ==
    "a1" :> "anchor" @@ "a2" :> "a1" @@ "a3" :> "a2" @@ "a4" :> "a3" @@ "a5" :> "a4"

\* Three branches: b forks after a1, c after a2.  c3 falls between the slots of
\* a2 and a3, and b3 has the slot of a3.
ForkSlot ==
    "a1" :> 1 @@ "a2" :> 2 @@ "a3" :> 4 @@ "b2" :> 3 @@ "b3" :> 4
      @@ "c3" :> 3 @@ "c4" :> 5
ForkBlockNo ==
    "a1" :> 1 @@ "a2" :> 2 @@ "a3" :> 3 @@ "b2" :> 2 @@ "b3" :> 3
      @@ "c3" :> 3 @@ "c4" :> 4
ForkParent ==
    "a1" :> "anchor" @@ "a2" :> "a1" @@ "a3" :> "a2" @@ "b2" :> "a1"
      @@ "b3" :> "b2" @@ "c3" :> "a2" @@ "c4" :> "c3"

=============================================================================
