------------------------------- MODULE Chain -------------------------------
(***************************************************************************)
(* The blocks a node may be given, and what the ledger makes of them.      *)
(*                                                                         *)
(* Header validation accepts a block only if its slot and its block number *)
(* are greater than those of the last block applied, so a ledger state     *)
(* (with its Praos chain-dependent state) is determined by the SET of      *)
(* blocks applied since the bootstrap anchor: they can have been applied   *)
(* in no other order than that of their slots.  A ledger state is that set *)
(* throughout this development.                                            *)
(***************************************************************************)
EXTENDS Naturals

CONSTANTS
    Blocks,      \* the blocks above the anchor, on every branch
    Anchor,      \* the bootstrap anchor point; no stored block stands for it
    AnchorSlot,  \* the slot of the anchor
    MaxSlot,     \* the greatest SlotNo, a u64
    Slot,        \* Slot[b]: the slot of block b
    BlockNo,     \* BlockNo[b]: its height above the anchor
    Parent,      \* Parent[b]: the block, or the anchor, that it extends
    TrackUtxo    \* LedgerState.track_utxo: FALSE on a node that follows live

ASSUME AnchorAssumption == /\ Anchor \notin Blocks
                           /\ AnchorSlot \in Nat

ASSUME TreeAssumption ==
    /\ MaxSlot \in Nat
    /\ Slot \in [Blocks -> 0..MaxSlot]
    /\ BlockNo \in [Blocks -> Nat]
    /\ Parent \in [Blocks -> Blocks \cup {Anchor}]
    /\ \A b \in Blocks :
          /\ Slot[b] > AnchorSlot
          /\ Parent[b] # Anchor => /\ Slot[b] > Slot[Parent[b]]
                                   /\ BlockNo[b] > BlockNo[Parent[b]]

ASSUME TrackUtxoAssumption == TrackUtxo \in BOOLEAN

-----------------------------------------------------------------------------

\* The blocks of S at or below slot s: what ChainDb::rollback_to_slot(s) keeps.
Upto(S, s) == {b \in S : Slot[b] <= s}

\* The block of S with the greatest slot: ChainDb::tip.
Tip(S) == CHOOSE b \in S : \A c \in S : Slot[c] <= Slot[b]

\* The point a node at S is at: its tip, or the anchor when S is empty.
TipPoint(S) == IF S = {} THEN Anchor ELSE Tip(S)

LastSlot(S) == IF S = {} THEN AnchorSlot ELSE Slot[Tip(S)]

\* The header checks that compare a block with the state it is applied to.
\* There is no check that b's parent is the last block applied.
ExtendsState(S, b) == \A c \in S : Slot[c] < Slot[b] /\ BlockNo[c] < BlockNo[b]

\* The points a chain-sync server whose read pointer is at p may roll back to.
Ancestors(p) ==
    LET up[q \in Blocks \cup {Anchor}] ==
            IF q = Anchor THEN {} ELSE {Parent[q]} \cup up[Parent[q]]
    IN  up[p]

\* The blocks from the anchor to p.
Lineages == [p \in Blocks \cup {Anchor} |-> (Ancestors(p) \cup {p}) \ {Anchor}]

Lineage(p) == Lineages[p]

\* LedgerState fingerprint.  Without UTxO tracking a block leaves nothing in
\* the ledger but its slot: UTxO, certificate and governance state are carried
\* forward unchanged, and the fingerprint sees only where the chain ends.
Fingerprint(S) == [slot |-> LastSlot(S), utxo |-> IF TrackUtxo THEN S ELSE {}]

=============================================================================
