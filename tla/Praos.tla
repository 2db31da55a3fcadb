------------------------------- MODULE Praos -------------------------------
(***************************************************************************)
(* The Praos chain-dependent state and what a header does to it            *)
(* (header_validate.rs, nonce.rs, op_cert.rs).                             *)
(*                                                                         *)
(* Hashes are symbolic.  The evolving nonce is the sequence of headers     *)
(* mixed into it; an epoch nonce is the pair its combination is made of; a *)
(* block nonce is the block.  A header's VRF proof is over the epoch nonce *)
(* of the chain it was forged on, so it verifies under that nonce only.    *)
(* Slots are within the forecast horizon, and the schedule has a           *)
(* randomness stabilisation window.                                        *)
(***************************************************************************)
EXTENDS Chain, Sequences

CONSTANTS
    EpochLength,    \* slots in an epoch; the anchor is in epoch 0
    Rsw,            \* randomness stabilisation window, in slots
    CertKey,        \* CertKey[b]: the pool and KES period of b's certificate
    Counter,        \* Counter[b]: that certificate's issue number
    Unsound         \* headers whose key, leader claim or KES signature fails

ASSUME PraosAssumption ==
    /\ EpochLength \in Nat \ {0} /\ Rsw \in 0..EpochLength
    /\ Counter \in [Blocks -> Nat]
    /\ DOMAIN CertKey = Blocks
    /\ Unsound \subseteq Blocks

EpochOf(slot) == slot \div EpochLength

\* Slots from here to the end of the epoch of this slot leave the candidate alone.
FreezeBoundary(slot) == (EpochOf(slot) + 1) * EpochLength - Rsw

\* A state recovered at the anchor; the nonce of the last block of the epoch
\* before it may be unknown (PraosChainDepState::genesis), or is the anchor's.
InitialState(leb) ==
    [evolving |-> <<>>, candidate |-> <<>>, lab |-> Anchor,
     lastEpochBlock |-> leb, epochNonce |-> <<>>,
     lastSlot |-> AnchorSlot, lastNo |-> 0, counters |-> [k \in {CertKey[b] : b \in Blocks} |-> 0]]

\* Faulty: the candidate nonce is never frozen.
ContributeUnfrozen(cd, b) ==
    [cd EXCEPT !.evolving = Append(@, b),
               !.candidate = Append(cd.evolving, b),
               !.lab = Parent[b], !.lastSlot = Slot[b]]

\* apply_header_contribution
HeaderContribution(cd, b) ==
    [cd EXCEPT !.evolving = Append(@, b),
               !.candidate = IF Slot[b] < FreezeBoundary(Slot[b])
                             THEN Append(cd.evolving, b) ELSE @,
               !.lab = Parent[b], !.lastSlot = Slot[b]]

\* Faulty: the block nonce is combined before it is rotated.
BoundaryRotatedFirst(cd) ==
    [cd EXCEPT !.epochNonce = <<cd.candidate, cd.lab>>,
               !.lastEpochBlock = {cd.lab}]

\* apply_epoch_boundary; without the operand of the combination it fails.
BoundaryPossible(cd) == cd.lastEpochBlock # {}

EpochBoundary(cd) ==
    [cd EXCEPT !.epochNonce = <<cd.candidate, CHOOSE n \in cd.lastEpochBlock : TRUE>>,
               !.lastEpochBlock = {cd.lab}]

\* validate_and_apply_header: the checks, nonce being what b's proof is over.
HeaderValid(cd, b, nonce) ==
    /\ Slot[b] > cd.lastSlot
    /\ BlockNo[b] > cd.lastNo
    /\ Counter[b] >= cd.counters[CertKey[b]]
    /\ nonce = cd.epochNonce
    /\ b \notin Unsound

\* ... and what they lead to.
ApplyHeader(cd, b) ==
    [HeaderContribution(cd, b) EXCEPT !.lastNo = BlockNo[b],
                                      !.counters[CertKey[b]] = Counter[b]]

=============================================================================
