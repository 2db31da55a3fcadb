-------------------------- MODULE EpochContinuity --------------------------
(***************************************************************************)
(* Crossing epochs on the follow path of `ade_node --mode node`.           *)
(*                                                                         *)
(* A sync pass admits blocks and follows rollbacks; before the first block *)
(* of an epoch is validated, the leadership authority is promoted and the  *)
(* promotion is logged.  After each pass the co-advancer brings the epoch  *)
(* accumulator and the reduced-UTxO checkpoint to the durable tip, one     *)
(* commit at a time, freezing the leadership of a later epoch at each      *)
(* boundary it crosses.  A restart runs the co-advancer first and then     *)
(* recovers the promoted authority from the log.                           *)
(*                                                                         *)
(* The process may stop between any two commits.  The ChainDb trim and the *)
(* log's RollBack entry are one step here: DurableSpine separates them.    *)
(***************************************************************************)
EXTENDS EpochStores, Sequences

CONSTANTS
    Collateral,     \* blocks that spend, as collateral, an output of their parent
    MaxRollBacks,   \* bound: rollbacks the peer may send
    MaxCrashes      \* bound: restarts of the process

ASSUME ContinuityAssumption == /\ Collateral \subseteq Blocks
                               /\ MaxRollBacks \in Nat /\ MaxCrashes \in Nat

VARIABLES
    db,         \* durable: the blocks of the ChainDb
    store,      \* durable: the EpochAccumulatorStore
    cp,         \* durable: the blocks folded into the ReducedUtxoCheckpoint
    wal,        \* durable: activation records and rollbacks of the log
    authority,  \* ActiveEpochAuthority: the view in force
    memo,       \* StalledBoundary: a boundary that failed, at which cursor
    warm,       \* the co-advance under way is the one of a warm start
    pc, arg,    \* where the process is, and the block that step is about
    fault,      \* why the process last exited by itself
    spliced,    \* history: a pass met an abandoned block in cp at or below the tip
    rollBacks, crashes

vars == <<db, store, cp, wal, authority, memo, warm, pc, arg, fault, spliced,
          rollBacks, crashes>>

SeedView == [epoch |-> 0, source |-> Anchor, mark |-> {}, nonce |-> {}]

Init ==
    /\ db = {} /\ store = Sealed /\ cp = {} /\ wal = <<>>
    /\ authority = SeedView /\ memo = {} /\ warm = FALSE
    /\ pc = "sync" /\ arg = Anchor /\ fault = "none" /\ spliced = FALSE
    /\ rollBacks = 0 /\ crashes = 0

Halt(cause) == /\ pc' = "halted" /\ fault' = cause
               /\ UNCHANGED <<db, store, cp, wal, authority, memo, warm, arg,
                              spliced, rollBacks, crashes>>

-----------------------------------------------------------------------------
(* The sync pass: run_node_sync.                                             *)

\* The nonce of epoch e: the tick over the headers of the epochs before it.
Nonce(e) == {b \in db : EpochOf(Slot[b]) < e}

\* The view a promotion to epoch e binds: the imported bridge for the epoch
\* after the seed, the object frozen for e beyond it.  At most one.
BoundView(e) ==
    IF e = 1
    THEN {[epoch |-> 1, source |-> Anchor, mark |-> {}, nonce |-> Nonce(1)]}
    ELSE {[epoch |-> e, source |-> l.source, mark |-> l.mark, nonce |-> Nonce(e)] :
             l \in Promotable(store, e)}

\* A block of the epoch in force, admitted by the pump.
AdmitBlock(b) ==
    /\ pc = "sync"
    /\ Parent[b] = TipPoint(db)
    /\ EpochOf(Slot[b]) = authority.epoch
    /\ db' = db \cup {b}
    /\ UNCHANGED <<store, cp, wal, authority, memo, warm, pc, arg, fault,
                   spliced, rollBacks, crashes>>

\* prepare_authority_for_candidate_slot: the activation record is logged before
\* the view is published, and both before the candidate is validated.
PrepareAuthority(b) ==
    LET e == EpochOf(Slot[b]) IN
    /\ pc = "sync"
    /\ Parent[b] = TipPoint(db)
    /\ e > authority.epoch
    /\ \/ /\ db = {}
          /\ Halt("Pump")
       \/ /\ db # {} /\ e # authority.epoch + 1
          /\ Halt("CandidateSlotSkipsBoundary")
       \/ /\ db # {} /\ e = authority.epoch + 1 /\ BoundView(e) = {}
          /\ Halt("PromotionLeadershipUnavailable")
       \/ /\ db # {} /\ e = authority.epoch + 1
          /\ \E v \in BoundView(e) :
                /\ wal' = Append(wal, [kind |-> "Activated", epoch |-> e, view |-> v])
                /\ authority' = v
          /\ pc' = "pump" /\ arg' = b
          /\ UNCHANGED <<db, store, cp, memo, warm, fault, spliced,
                         rollBacks, crashes>>

\* The first block of the new epoch is admitted, and the pass yields.
PumpFirstBlock ==
    /\ pc = "pump"
    /\ db' = db \cup {arg}
    /\ pc' = "coadvance" /\ warm' = FALSE
    /\ UNCHANGED <<store, cp, wal, authority, memo, arg, fault, spliced,
                   rollBacks, crashes>>

\* Faulty: a rollback below the epoch in force is followed.
RollBackAnyEpoch(t) ==
    /\ pc = "sync"
    /\ t \in db /\ t # Tip(db)
    /\ rollBacks < MaxRollBacks
    /\ store' = ClearForRollback(store, db, t)
    /\ pc' = "trim" /\ arg' = t /\ rollBacks' = rollBacks + 1
    /\ UNCHANGED <<db, cp, wal, authority, memo, warm, fault, spliced, crashes>>

\* resolve_and_apply_peer_rollback, up to the accumulator's pre-clear.
RollBack(t) ==
    /\ pc = "sync"
    /\ t \in db /\ t # Tip(db)
    /\ rollBacks < MaxRollBacks
    /\ \/ /\ EpochOf(Slot[t]) < authority.epoch
          /\ Halt("UnexpectedRollback")
       \/ /\ EpochOf(Slot[t]) >= authority.epoch
          /\ store.certified /\ ~AdmitRollback(Height(store.folded), t)
          /\ Halt("ExceededRollback")
       \/ /\ EpochOf(Slot[t]) >= authority.epoch
          /\ store.certified => AdmitRollback(Height(store.folded), t)
          /\ store' = ClearForRollback(store, db, t)
          /\ pc' = "trim" /\ arg' = t /\ rollBacks' = rollBacks + 1
          /\ UNCHANGED <<db, cp, wal, authority, memo, warm, fault, spliced,
                         crashes>>

\* apply_chain_event: the ChainDb is trimmed and the rollback logged.
CommitRollBack ==
    /\ pc = "trim"
    /\ db' = Upto(db, Slot[arg])
    /\ wal' = Append(wal, [kind |-> "RollBack", epoch |-> EpochOf(Slot[arg])])
    /\ pc' = "recertify"
    /\ UNCHANGED <<store, cp, authority, memo, warm, arg, fault, spliced,
                   rollBacks, crashes>>

Recertify ==
    /\ pc = "recertify"
    /\ store' = RecertifySettled(store, db)
    /\ pc' = "sync"
    /\ UNCHANGED <<db, cp, wal, authority, memo, warm, arg, fault, spliced,
                   rollBacks, crashes>>

\* The feed is idle: the relay loop goes on to the co-advancer.
EndPass ==
    /\ pc = "sync"
    /\ pc' = "coadvance" /\ warm' = FALSE
    /\ UNCHANGED <<db, store, cp, wal, authority, memo, arg, fault, spliced,
                   rollBacks, crashes>>

-----------------------------------------------------------------------------
(* The co-advancer: advance_ledger_state_to_durable_tip_memo.                *)

Coadvancing == <<db, wal, authority, warm, rollBacks, crashes>>

\* Faulty: a checkpoint ahead of the tip is left as it is.
CheckpointKeptAhead == cp

\* reduced_checkpoint_reset_if_ahead compares slots only.
CheckpointResetIfAhead ==
    IF LastSlot(cp) > LastSlot(db) THEN {} ELSE cp

StartCoadvance ==
    /\ pc = "coadvance"
    /\ cp' = IF db = {} THEN cp ELSE CheckpointResetIfAhead
    /\ spliced' = (spliced \/ (~(cp \subseteq db) /\ LastSlot(cp) <= LastSlot(db)))
    /\ pc' = IF db = {} THEN "caughtup" ELSE "reconcile"
    /\ UNCHANGED <<Coadvancing, store, memo, arg, fault>>

\* accumulator_recover_admit
RecoverAdmit ==
    /\ pc = "reconcile"
    /\ store' = IF Reconcile(store, db) = "reset" THEN ResetToBootstrap(store) ELSE store
    /\ pc' = IF Reconcile(store, db) = "fail" THEN "halted" ELSE "fold"
    /\ fault' = IF Reconcile(store, db) = "fail" THEN "RecoveryAdmission" ELSE fault
    /\ UNCHANGED <<Coadvancing, cp, memo, arg, spliced>>

\* Whether block b applies: the checkpoint resolves its collateral.
Applies(b) == b \in Collateral => Parent[b] \in cp \cup {Anchor}

\* advance_accumulator_over_chaindb, one stored block.
FoldBlock ==
    /\ pc = "fold"
    /\ \E b \in NextStored(db, store.folded) :
       \/ /\ EpochOf(Slot[b]) = EpochAt(store.folded) /\ Applies(b)
          /\ store' = AdvanceStore(store, b)
          /\ UNCHANGED <<Coadvancing, cp, memo, pc, arg, fault, spliced>>
       \/ /\ EpochOf(Slot[b]) = EpochAt(store.folded) /\ ~Applies(b)
          /\ LastSlot(cp) < Slot[b]
          /\ pc' = "catchup" /\ arg' = b
          /\ UNCHANGED <<Coadvancing, cp, store, memo, fault, spliced>>
       \/ /\ EpochOf(Slot[b]) = EpochAt(store.folded) /\ ~Applies(b)
          /\ LastSlot(cp) >= Slot[b]
          /\ Halt("AccumulatorWalkHalted")
       \/ /\ EpochOf(Slot[b]) > EpochAt(store.folded)
          /\ pc' = IF <<b, LastSlot(store.folded)>> \in memo
                   THEN "caughtup" ELSE "position"
          /\ arg' = b
          /\ UNCHANGED <<Coadvancing, cp, store, memo, fault, spliced>>

\* The checkpoint was behind the block: advance it to the block and retry.
CatchUp ==
    /\ pc = "catchup"
    /\ \/ /\ LastSlot(cp) < Slot[arg]
          /\ cp' = cp \cup NextStored(db, cp)
          /\ UNCHANGED pc
       \/ /\ LastSlot(cp) >= Slot[arg]
          /\ pc' = "fold"
          /\ UNCHANGED cp
    /\ UNCHANGED <<Coadvancing, store, memo, arg, fault, spliced>>

\* Faulty: the checkpoint is rewound whenever it is not at the boundary point.
PositionAlwaysRewinds ==
    /\ pc = "position"
    /\ LastSlot(cp) # LastSlot(store.folded)
    /\ cp' = {}
    /\ UNCHANGED <<Coadvancing, store, memo, pc, arg, fault, spliced>>

\* position_reduced_checkpoint_at_boundary: rewind a checkpoint that is past
\* the boundary point, then fold forward to exactly that slot.
PositionCheckpoint ==
    /\ pc = "position"
    /\ LastSlot(cp) # LastSlot(store.folded)
    /\ cp' = IF LastSlot(cp) > LastSlot(store.folded)
             THEN {} ELSE cp \cup NextStored(db, cp)
    /\ UNCHANGED <<Coadvancing, store, memo, pc, arg, fault, spliced>>

\* Faulty: the source point is the block that crosses the boundary.
FrozenAtCrossing(b) == [epoch  |-> EpochOf(Slot[b]) + 1,
                        source |-> b,
                        mark   |-> cp]

\* The leadership the boundary into the epoch of block b freezes.
FrozenAt(b) == [epoch  |-> EpochOf(Slot[b]) + 1,
                source |-> Tip(store.folded),
                mark   |-> cp]

\* cross_accumulator_over_boundary_block, with the mark read off the checkpoint.
\* A block two epochs on, and a boundary met at the seed itself, are refused by
\* the sync pass before they are stored.
CrossBoundary ==
    /\ pc = "position"
    /\ LastSlot(cp) = LastSlot(store.folded)
    /\ \/ /\ Applies(arg)
          /\ store' = AdvanceWithLeadership(store, arg, FrozenAt(arg))
          /\ pc' = "fold"
          /\ UNCHANGED memo
       \/ /\ ~Applies(arg)
          /\ memo' = {<<arg, LastSlot(store.folded)>>}
          /\ pc' = "caughtup"
          /\ UNCHANGED store
    /\ UNCHANGED <<Coadvancing, cp, arg, fault, spliced>>

ReachedTip ==
    /\ pc = "fold"
    /\ NextStored(db, store.folded) = {}
    /\ store' = RollSettled(store, Height(db))
    /\ pc' = "caughtup"
    /\ UNCHANGED <<Coadvancing, cp, memo, arg, fault, spliced>>

\* The checkpoint is brought to the tip whatever the accumulator did.
CheckpointToTip ==
    /\ pc = "caughtup"
    /\ cp' = cp \cup NextStored(db, cp)
    /\ pc' = IF NextStored(db, cp) # {} THEN pc
             ELSE IF warm THEN "recover" ELSE "sync"
    /\ UNCHANGED <<Coadvancing, store, memo, arg, fault, spliced>>

-----------------------------------------------------------------------------
(* Crash and warm start.                                                     *)

\* resolve_active_activation_at_tip: the records no later rollback un-crossed.
ActiveRecords ==
    {i \in 1..Len(wal) :
        /\ wal[i].kind = "Activated"
        /\ \A j \in i+1..Len(wal) :
              wal[j].kind = "RollBack" => wal[j].epoch >= wal[i].epoch}

\* Faulty: the oldest record is taken for the active one.
EarliestRecord == {i \in ActiveRecords : \A j \in ActiveRecords : i <= j}

\* The record for the latest epoch, if any.
SelectedRecord ==
    {i \in ActiveRecords : \A j \in ActiveRecords : /\ wal[j].epoch <= wal[i].epoch
                                                    /\ wal[j].epoch = wal[i].epoch => i <= j}

\* maybe_recover_promoted_authority
RecoverAuthority ==
    /\ pc = "recover"
    /\ \/ /\ ActiveRecords = {}
          /\ pc' = "sync"
          /\ UNCHANGED <<authority, fault>>
       \/ \E i \in SelectedRecord :
            LET r == wal[i] IN
            \/ /\ r.epoch > EpochAt(db)
               /\ pc' = "halted" /\ fault' = "ActivationAboveDurableTip"
               /\ UNCHANGED authority
            \/ /\ r.epoch <= EpochAt(db)
               /\ r.epoch # EpochAt(db) \/ r.view \notin BoundView(r.epoch)
               /\ pc' = "halted" /\ fault' = "EpochViewPostPromotionMismatch"
               /\ UNCHANGED authority
            \/ /\ r.epoch = EpochAt(db) /\ r.view \in BoundView(r.epoch)
               /\ authority' = r.view
               /\ pc' = "sync"
               /\ UNCHANGED fault
    /\ UNCHANGED <<db, store, cp, wal, memo, warm, arg, spliced, rollBacks, crashes>>

\* The process stops, or has halted, and is started again.
Crash ==
    /\ crashes < MaxCrashes
    /\ crashes' = crashes + 1
    /\ authority' = SeedView /\ memo' = {} /\ warm' = TRUE
    /\ pc' = "coadvance" /\ arg' = Anchor /\ fault' = "none"
    /\ UNCHANGED <<db, store, cp, wal, spliced, rollBacks>>

-----------------------------------------------------------------------------
CoadvanceStep ==
    \/ StartCoadvance \/ RecoverAdmit \/ CatchUp \/ PositionCheckpoint
    \/ FoldBlock \/ CrossBoundary \/ ReachedTip \/ CheckpointToTip \/ RecoverAuthority

Next ==
    \/ \E b \in Blocks : AdmitBlock(b) \/ PrepareAuthority(b) \/ RollBack(b)
    \/ PumpFirstBlock \/ CommitRollBack \/ Recertify \/ EndPass
    \/ CoadvanceStep
    \/ Crash

Spec == Init /\ [][Next]_vars

\* Each await of the pass and each step of the co-advancer is run to its end.
FairSpec == Spec /\ WF_vars(CoadvanceStep)

-----------------------------------------------------------------------------
\* A certified accumulator is a fold of exactly the stored chain up to its
\* anchor, and so is each rewind point it keeps.  This holds at every commit,
\* the ones between a rollback's pre-clear and its trim included: no crash
\* leaves an anchor over an abandoned prefix
\* (accumulator_admit_and_clear_for_rollback).
CertifiedOnChain ==
    store.certified =>
        /\ store.folded = Upto(db, LastSlot(store.folded))
        /\ \A p \in store.staged \cup store.settled :
              p.folded = Upto(db, LastSlot(p.folded))

\* Recovery never meets a certified anchor the chain does not carry, so the
\* fail-closed arm of accumulator_recover_admit is for corruption only.
RecoveryAdmitted == fault # "RecoveryAdmission"

\* While every pass began with the checkpoint on the chain, the leadership
\* frozen in a certified accumulator is that of the stored chain: each epoch's
\* source is the last block two epochs before it, the mark is the UTxO at
\* exactly that block, and no epoch up to the one after the anchor's is missing
\* (DC-EPOCH-11: a reorganisation restores the exact lineage).
LeadershipFaithful ==
    (store.certified /\ ~spliced) =>
        /\ {l.epoch : l \in store.lead} = 2..EpochAt(store.folded) + 1
        /\ \A l \in store.lead :
              LET lineage == {b \in db : EpochOf(Slot[b]) + 2 <= l.epoch}
              IN  l.source = Tip(lineage) /\ l.mark = lineage

\* While every pass began with the checkpoint on the chain, the checkpoint
\* stays a fold of the stored chain throughout the pass (DC-EPOCH-20: no mixed
\* prefix is ever run on).
CheckpointOnChain ==
    (~spliced /\ pc \in {"reconcile", "fold", "catchup", "position", "caughtup"})
        => cp = Upto(db, LastSlot(cp))

\* Outside a promotion, the authority in force is the one for the epoch of the
\* durable tip, and its nonce is that of the stored chain: no rollback and no
\* restart leaves headers to be judged by another epoch's stake.
AuthorityAtTip ==
    (pc = "sync" /\ db # {}) => /\ authority.epoch = EpochAt(db)
                               /\ authority.nonce = Nonce(authority.epoch)

\* A restart can always rebuild from its own stores the very view its log records
\* last, and the accumulator's walk never meets a block it cannot apply, as long as
\* no pass began on a spliced checkpoint.  The record is for the epoch of the durable
\* tip, and its view is then published; or for the epoch after, and then
\* resolve_active_activation_at_tip refuses it (ActivationAboveDurableTip), although
\* the view is there.  No running node has such a record but between the promotion
\* and the store of its block, so a stop anywhere else leaves one that is accepted.
RecoversExactView ==
    /\ ~spliced =>
          /\ fault \notin {"EpochViewPostPromotionMismatch", "AccumulatorWalkHalted"}
          /\ pc = "recover" =>
                \A i \in SelectedRecord : /\ wal[i].epoch \in {EpochAt(db), EpochAt(db) + 1}
                                         /\ wal[i].view \in BoundView(wal[i].epoch)
    /\ pc \in {"sync", "trim", "recertify"} \/ (~warm /\ pc \notin {"pump", "halted"}) =>
          \A i \in ActiveRecords : wal[i].epoch <= EpochAt(db)

\* A pass that is through leaves the accumulator certified at the durable tip,
\* and no chain the node stores skips an epoch or begins with a boundary, which
\* is where the walk would stop for good.
CaughtUp ==
    (pc \in {"caughtup", "recover"} /\ ~spliced /\ db # {}) =>
        /\ store.certified /\ store.folded = db
        /\ \A e \in 0..EpochAt(db) : \E b \in db : EpochOf(Slot[b]) = e

\* The co-advancer ends: no checkpoint rewind, catch-up and retry cycle forever.
CoadvanceEnds == (pc = "coadvance") ~> (pc \in {"sync", "halted"})

=============================================================================
