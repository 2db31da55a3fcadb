----------------------------- MODULE ForkChoice -----------------------------
(***************************************************************************)
(* Praos chain selection (ade_core::consensus): which of several candidate *)
(* fragments, if any, replaces the current chain, and which rollbacks are  *)
(* followed.  Pure: the selector's state is an argument and a result.      *)
(*                                                                         *)
(* A point is a block; a view is a TiebreakerView; a fragment is given by  *)
(* its anchor, the block it ends in, the number of headers between them    *)
(* and the depth of the rollback it asks for.                              *)
(***************************************************************************)
EXTENDS Naturals, Sequences

CONSTANT SecurityParam  \* k, in blocks

ASSUME SecurityParamAssumption == SecurityParam \in Nat

\* tiebreaker_prefer(a, b) = Less: the earlier slot, then the lesser issuer, then
\* the greater certificate counter, then the lesser VRF output.
TiebreakerPrefer(a, b) ==
    \/ a.slot < b.slot
    \/ /\ a.slot = b.slot
       /\ \/ a.issuer < b.issuer
          \/ /\ a.issuer = b.issuer
             /\ \/ a.counter > b.counter
                \/ a.counter = b.counter /\ a.vrf < b.vrf

\* compare_select_view = Less: the longer chain first.
ComparePrefer(no, view, otherNo, otherView) ==
    \/ no > otherNo
    \/ no = otherNo /\ TiebreakerPrefer(view, otherView)

CandidateTipNo(c) == c.anchorNo + c.length

\* A fragment that forks before the immutable tip, or asks for a rollback deeper
\* than k, is no candidate.
Eligible(state, c) == /\ c.anchorSlot >= state.immutableSlot
                      /\ c.depth <= SecurityParam

RejectReason(state, c) == IF c.anchorSlot < state.immutableSlot
                          THEN "ForkBeforeImmutableTip" ELSE "ExceededRollback"

\* The candidate the loop over the eligible ones ends with: one that none is
\* preferred to, and the first of those that tie with it.
BestEligible(state, cands) ==
    LET E == {i \in DOMAIN cands : Eligible(state, cands[i])}
        Beats(i, j) == ComparePrefer(CandidateTipNo(cands[i]), cands[i].view,
                                     CandidateTipNo(cands[j]), cands[j].view)
    IN  CHOOSE i \in E : \A j \in E : ~Beats(j, i) /\ (j < i => Beats(i, j))

\* The ineligible candidate whose reason is reported: the first of the longest.
LongestIneligible(cands) ==
    CHOOSE i \in DOMAIN cands :
        \A j \in DOMAIN cands :
            \/ CandidateTipNo(cands[i]) > CandidateTipNo(cands[j])
            \/ CandidateTipNo(cands[i]) = CandidateTipNo(cands[j]) /\ i <= j

\* Faulty: a candidate as long as the current chain replaces it, whatever the tie-break.
ReplacesIfAsLong(state, best) == CandidateTipNo(best) >= state.tipNo

\* The best candidate against the current tip.
Replaces(state, best) ==
    ComparePrefer(CandidateTipNo(best), best.view, state.tipNo, state.view)

\* select_best_chain, for a non-empty sequence of candidates: the state after it,
\* and the reason when nothing is selected.
SelectBestChain(state, cands) ==
    IF \A i \in DOMAIN cands : ~Eligible(state, cands[i])
    THEN [state |-> state,
          event |-> RejectReason(state, cands[LongestIneligible(cands)])]
    ELSE LET best == cands[BestEligible(state, cands)]
         IN  IF Replaces(state, best)
             THEN [state |-> [state EXCEPT !.tip = best.tip,
                                           !.tipNo = CandidateTipNo(best),
                                           !.view = best.view],
                   event |-> "ChainSelected"]
             ELSE [state |-> state, event |-> "TiebreakerLossKeepCurrent"]

\* apply_rollback to a point whose tiebreaker is view.
ApplyRollback(state, req, view) ==
    IF req.toNo < state.immutableNo
    THEN [state |-> state, event |-> "ForkBeforeImmutableTip"]
    ELSE IF req.depth > SecurityParam
    THEN [state |-> state, event |-> "ExceededRollback"]
    ELSE [state |-> [state EXCEPT !.tip = req.to, !.tipNo = req.toNo, !.view = view],
          event |-> "RolledBack"]

=============================================================================
