---------------------------- MODULE DurableChain ----------------------------
(***************************************************************************)
(* What the durable spine promises to whoever reads the node's state: one  *)
(* chain, which grows by a block that extends it or is cut back to one of  *)
(* its slots, and only while the node is busy; whenever the node is at     *)
(* rest its state is that of the whole chain.  A crash is a busy period in *)
(* which the chain does not change.                                        *)
(***************************************************************************)
EXTENDS Chain

VARIABLES
    chain,  \* the blocks on the chain
    view    \* {S} while the node is at rest in ledger state S, {} while busy

Init == chain = {} /\ view = {{}}

Busy ==
    /\ view # {}
    /\ view' = {}
    /\ UNCHANGED chain

Extend(b) ==
    /\ view = {}
    /\ ExtendsState(chain, b)
    /\ chain' = chain \cup {b}
    /\ UNCHANGED view

Truncate(b) ==
    /\ view = {}
    /\ b \in chain
    /\ chain' = Upto(chain, Slot[b])
    /\ view' = {chain'}

Rest ==
    /\ view = {}
    /\ view' = {chain}
    /\ UNCHANGED chain

Next == Busy \/ Rest \/ \E b \in Blocks : Extend(b) \/ Truncate(b)

Spec == Init /\ [][Next]_<<chain, view>>

=============================================================================
