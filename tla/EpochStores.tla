---------------------------- MODULE EpochStores ----------------------------
(***************************************************************************)
(* The two stores derived from the durable chain: the epoch accumulator    *)
(* (ledger state per epoch, with the leadership frozen at each boundary)   *)
(* and the reduced-UTxO checkpoint.  Each operator is one redb transaction *)
(* of EpochAccumulatorStore, or one decision taken over it.                *)
(*                                                                         *)
(* A store's content is the set of blocks folded into it since the seed;   *)
(* its cursor LAST_SLOT is the greatest slot in that set.  The anchor      *)
(* LastAdvancedPoint is written in the same commit as the cursor, so it is *)
(* present or absent ("certified") and, when present, is the cursor block. *)
(***************************************************************************)
EXTENDS Chain

CONSTANTS
    EpochLength,    \* slots in an epoch; the seed is in epoch 0
    SecurityParam   \* k, in blocks

ASSUME EpochAssumption == /\ EpochLength \in Nat \ {0}
                          /\ AnchorSlot < EpochLength
                          /\ SecurityParam \in Nat

EpochOf(slot) == slot \div EpochLength

\* The epoch and the height a set of blocks ends at; the seed is at height 0.
EpochAt(S) == EpochOf(LastSlot(S))
Height(S) == IF S = {} THEN 0 ELSE BlockNo[Tip(S)]

\* The stored block after the cursor of S, as a singleton or the empty set.
NextStored(db, S) ==
    LET later == {b \in db : Slot[b] > LastSlot(S)}
    IN  {b \in later : \A c \in later : Slot[b] <= Slot[c]}

-----------------------------------------------------------------------------
\* A rewind target: accumulator content with the leadership table of that time.
Baseline(s) == [folded |-> s.folded, lead |-> s.lead]

\* seal_bootstrap: the accumulator at the seed, its own rewind baseline.
Sealed == [folded |-> {}, lead |-> {}, certified |-> FALSE,
           staged |-> {}, settled |-> {}]

\* advance, and advance_with_current_leadership at a boundary: content, cursor,
\* anchor and the new epoch's frozen leadership in one commit.
AdvanceStore(s, b) == [s EXCEPT !.folded = @ \cup {b}, !.certified = TRUE]

AdvanceWithLeadership(s, b, frozen) ==
    [AdvanceStore(s, b) EXCEPT
        !.lead = {l \in @ : l.epoch # frozen.epoch} \cup {frozen}]

\* Faulty: the anchor is cleared and the content stays.
ResetAnchorOnly(s) == [s EXCEPT !.certified = FALSE]

\* reset_to_bootstrap: nothing survives as a rewind target.
ResetToBootstrap(s) == Sealed

\* Faulty: the staged point outlives the rewind.
ResetToSettledKeepStaged(s) ==
    LET p == CHOOSE q \in s.settled : TRUE
    IN  [s EXCEPT !.folded = p.folded, !.lead = p.lead, !.certified = FALSE]

\* reset_to_settled: the staged point dies with the chain it was taken on.
ResetToSettled(s) ==
    LET p == CHOOSE q \in s.settled : TRUE
    IN  [s EXCEPT !.folded = p.folded, !.lead = p.lead,
                  !.certified = FALSE, !.staged = {}]

\* roll_settled_rewind_point: a staged point that the tip has outrun by k
\* becomes the settled one, and the current content is staged in its place.
RollSettled(s, tipNo) ==
    LET aged == {p \in s.staged : Height(p.folded) + SecurityParam <= tipNo}
    IN  IF ~s.certified \/ (s.staged # {} /\ aged = {})
        THEN s
        ELSE [s EXCEPT !.settled = IF aged = {} THEN @ ELSE aged,
                       !.staged = {Baseline(s)}]

-----------------------------------------------------------------------------
\* settled_rewind_admissible: a settled point k blocks below the tip, not above
\* the rollback target, and still on the chain about to be rolled back.
SettledRewindAdmissible(s, db, target) ==
    \E p \in s.settled :
        /\ Height(p.folded) + SecurityParam <= Height(db)
        /\ LastSlot(p.folded) <= Slot[target]
        /\ Tip(p.folded) \in db

\* admit_rollback, for a target that is on the chain: at most k below the tip.
AdmitRollback(tipNo, target) == tipNo <= BlockNo[target] + SecurityParam

\* Faulty: the anchor is carried across the rollback.
ClearNothing(s, db, target) == s

\* accumulator_admit_and_clear_for_rollback, once the rollback is admitted.
ClearForRollback(s, db, target) ==
    IF ~s.certified THEN s
    ELSE IF SettledRewindAdmissible(s, db, target)
         THEN ResetToSettled(s)
         ELSE ResetToBootstrap(s)

\* accumulator_recertify_settled_after_rollback and recertify_settled_anchor:
\* the anchor returns only at a settled point the new chain still carries,
\* k blocks deep, with the accumulator's cursor on it.
RecertifySettled(s, db) ==
    IF \E p \in s.settled : /\ Tip(p.folded) \in db
                            /\ Height(p.folded) + SecurityParam <= Height(db)
                            /\ LastSlot(p.folded) = LastSlot(s.folded)
    THEN [s EXCEPT !.certified = TRUE]
    ELSE s

\* reconcile_recovery.  A certified anchor that the chain no longer carries is
\* never reset silently: recovery fails closed.  The code's last branch, an
\* anchor still stored but above the tip, needs a block stored above the tip.
Reconcile(s, db) ==
    IF ~s.certified THEN "reset"
    ELSE IF Tip(s.folded) \notin db THEN "fail"
    ELSE "forward"

\* promotion_leadership_authority_for_epoch: the object frozen for exactly this
\* epoch.  It does not ask whether the store is certified.
Promotable(s, epoch) == {l \in s.lead : l.epoch = epoch}

=============================================================================
