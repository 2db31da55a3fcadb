---------------------------- MODULE DurableSpine ----------------------------
(***************************************************************************)
(* The durable spine of `ade_node --mode node`: the relay loop follows one *)
(* upstream peer, admits blocks through the forward-sync pump, follows the *)
(* peer's rollbacks, captures recovery checkpoints, may stop at any step,  *)
(* and comes back through warm-start recovery.                             *)
(*                                                                         *)
(* Three stores survive a crash: the ChainDb, the snapshot table and the   *)
(* write-ahead log.  Each action below ends at one durable write or at one *)
(* hand-over between functions, so a crash may fall between any two of the *)
(* writes the code makes.                                                  *)
(*                                                                         *)
(* The epoch accumulator is taken to be there and to answer for the epoch  *)
(* of the seed: warm start refuses a node without one.  What it folds,     *)
(* freezes and refuses is EpochContinuity.                                 *)
(***************************************************************************)
EXTENDS WalReplay, FiniteSets

CONSTANTS
    CadenceSlots,   \* RECOVERY_CHECKPOINT_CADENCE_SLOTS
    RetainLatest,   \* RECOVERY_CHECKPOINT_RETAIN_LATEST
    MaxRollBacks,   \* bound: rollbacks the peer may send, reconnects included
    MaxCrashes,     \* bound: crashes of the process
    None            \* no block, no pending log entry

ASSUME CadenceAssumption == CadenceSlots \in Nat \ {0} /\ RetainLatest \in Nat \ {0}
ASSUME BoundAssumption == MaxRollBacks \in Nat /\ MaxCrashes \in Nat
ASSUME NoneAssumption == None \notin Blocks \cup {Anchor}

VARIABLES
    db,              \* durable: the blocks of the ChainDb
    snaps,           \* durable: slot |-> ledger state, the recovery checkpoints
    wal,             \* durable: the log
    pc,              \* where the process is
    ledger,          \* ReceiveState: ledger and chain-dependent state in memory
    priorFp,         \* ForwardSyncState.prior_fp
    pending,         \* the log entry decided and not yet appended
    selected,        \* selected_tip of the current run_node_sync pass
    recoveredAnchor, \* ForwardSyncState.recovered_anchor
    lastDelivered,   \* last_block_bytes of the wire-pump supervisor
    cursor,          \* external: the peer's chain-sync read pointer
    acked,           \* history: the blocks reported as the durable tip's chain
    fault,           \* why the process last exited by itself
    rollBacks, crashes

durable  == <<db, snaps, wal>>
memory   == <<ledger, priorFp, recoveredAnchor>>
bounds   == <<rollBacks, crashes>>
vars     == <<durable, memory, bounds, pc, pending, selected, lastDelivered,
              cursor, acked, fault>>

Faults == {"none", "Pump", "UnexpectedRollback", "Apply",
           "WarmStartWalReplay", "DurableBlockBytesMissing",
           "WarmStartBootstrap", "FingerprintMismatch"}

-----------------------------------------------------------------------------
(* Materialize: nearest checkpoint at or below a slot, then replay forward.  *)

\* PersistentSnapshotCache::nearest_le
NearestLe(s) == Greatest({t \in DOMAIN snaps : t <= s})

\* Faulty: skips the slot after the checkpoint.
BlocksInRangeLate(from, to) == {b \in db : from + 1 < Slot[b] /\ Slot[b] <= to}

\* ChainDbBlockSource::blocks_in_range(from, to]
BlocksInRange(from, to) == {b \in db : from < Slot[b] /\ Slot[b] <= to}

\* block_validity_trusted_replay accepts every replayed block in turn.
ReplaySucceeds(s) ==
    LET base == NearestLe(s)
        span == BlocksInRange(base, s)
    IN  /\ \E t \in DOMAIN snaps : t <= s
        /\ \A b \in span :
              ExtendsState(snaps[base] \cup {c \in span : Slot[c] < Slot[b]}, b)

\* Faulty: keeps the state in memory.
MaterializedInPlace(s) == ledger

\* materialize_rolled_back_state; with a checkpoint at s the span is empty.
Materialized(s) == snaps[NearestLe(s)] \cup BlocksInRange(NearestLe(s), s)

-----------------------------------------------------------------------------

Init ==
    /\ db = {}
    /\ snaps = [s \in {AnchorSlot} |-> {}]
    /\ wal = <<>>
    /\ pc = "follow"
    /\ ledger = {}
    /\ priorFp = Fingerprint({})
    /\ pending = None
    /\ selected = None
    /\ recoveredAnchor = Anchor
    /\ lastDelivered = None
    /\ cursor = Anchor
    /\ acked = {}
    /\ fault = "none"
    /\ rollBacks = 0
    /\ crashes = 0

\* The process ends: memory is lost, what is durable stays.
Exit(f) ==
    /\ pc' = "down"
    /\ fault' = f
    /\ ledger' = {}
    /\ priorFp' = Fingerprint({})
    /\ pending' = None
    /\ selected' = None
    /\ recoveredAnchor' = Anchor
    /\ lastDelivered' = None
    /\ cursor' = Anchor

-----------------------------------------------------------------------------
(* Following the peer forward: run_node_sync and pump_block.                 *)

\* The feed delivers b.
Deliver(b) ==
    /\ pc = "follow"
    /\ Parent[b] = cursor
    /\ cursor' = b
    /\ lastDelivered' = b

\* A block already stored under the same hash is a no-op.
PumpStored(b) ==
    /\ Deliver(b)
    /\ b \in db
    /\ UNCHANGED <<durable, memory, bounds, pc, pending, selected, acked, fault>>

Admissible(b) ==
    /\ ExtendsState(ledger, b)
    /\ \A c \in db : Slot[c] # Slot[b]

\* block_delivered writes the block and advances memory, forward_sync_step
\* moves prior_fp and makes the plan.  The plan's own StoreBlockBytes repeats
\* the same write and changes nothing.
PumpAdmit(b) ==
    /\ Deliver(b)
    /\ b \notin db
    /\ Admissible(b)
    /\ db' = db \cup {b}
    /\ ledger' = ledger \cup {b}
    /\ priorFp' = Fingerprint(ledger')
    /\ pending' = AdmitBlock(priorFp, b, priorFp')
    /\ pc' = "appendWal"
    /\ UNCHANGED <<snaps, wal, bounds, recoveredAnchor, selected, acked, fault>>

\* A block the header checks or the store refuse ends the process.
PumpRefuse ==
    /\ pc = "follow"
    /\ \E b \in Blocks \ db : Parent[b] = cursor /\ ~Admissible(b)
    /\ Exit("Pump")
    /\ UNCHANGED <<durable, bounds, acked>>

\* Faulty: the entry never reaches the log.
AppendWalLost ==
    /\ pc = "appendWal"
    /\ pc' = "advanceTip"
    /\ UNCHANGED <<durable, memory, bounds, pending, selected, lastDelivered,
                   cursor, acked, fault>>

\* SyncEffect::AppendWal
AppendWal ==
    /\ pc = "appendWal"
    /\ wal' = Append(wal, pending)
    /\ pc' = "advanceTip"
    /\ UNCHANGED <<db, snaps, memory, bounds, pending, selected, lastDelivered,
                   cursor, acked, fault>>

\* SyncEffect::AdvanceTip, issued only once bytes and log entry are durable.
AdvanceTip ==
    /\ pc = "advanceTip"
    /\ selected' = pending.block
    /\ acked' = acked \cup {pending.block}
    /\ pending' = None
    /\ pc' = "follow"
    /\ UNCHANGED <<durable, memory, bounds, lastDelivered, cursor, fault>>

-----------------------------------------------------------------------------
(* Following the peer back: resolve_and_apply_peer_rollback.                 *)

\* Where the supervisor resumes after a lost connection: at the last block
\* delivered, or where the node started if there was none.
ResumePoint == IF lastDelivered = None THEN recoveredAnchor ELSE lastDelivered

\* The peer switches to another branch, or answers a reconnect.
RollBackTargets == Ancestors(cursor) \cup {ResumePoint}

RollBackward ==
    /\ pc = "follow"
    /\ rollBacks < MaxRollBacks
    /\ rollBacks' = rollBacks + 1
    /\ UNCHANGED <<snaps, wal, crashes>>

\* DC-NODE-33: the recovered anchor is a no-op, wherever the node now is.
RollBackNoOp(p) ==
    /\ RollBackward
    /\ p = recoveredAnchor
    /\ cursor' = p
    /\ UNCHANGED <<db, memory, pc, pending, selected, lastDelivered, acked, fault>>

RollBackUnknown(p) ==
    /\ RollBackward
    /\ p # recoveredAnchor
    /\ p \notin db
    /\ Exit("UnexpectedRollback")
    /\ UNCHANGED <<db, acked>>

\* apply_chain_event up to commit_rollback: materialize, trim the ChainDb,
\* replace the state in memory, re-anchor prior_fp.  selected_tip is not reset.
RollBackCommit(p) ==
    /\ RollBackward
    /\ p # recoveredAnchor
    /\ p \in db
    /\ ReplaySucceeds(Slot[p])
    /\ db' = Upto(db, Slot[p])
    /\ ledger' = Materialized(Slot[p])
    /\ priorFp' = Fingerprint(ledger')
    /\ pending' = RollBack(p)
    /\ pc' = "appendRollBack"
    /\ cursor' = p
    /\ acked' = Upto(acked, Slot[p])
    /\ UNCHANGED <<recoveredAnchor, selected, lastDelivered, fault>>

RollBackFail(p) ==
    /\ RollBackward
    /\ p # recoveredAnchor
    /\ p \in db
    /\ ~ReplaySucceeds(Slot[p])
    /\ Exit("Apply")
    /\ UNCHANGED <<db, acked>>

\* Faulty: the rollback is not logged.
AppendRollBackUnlogged ==
    /\ pc = "appendRollBack"
    /\ pending' = None
    /\ pc' = "follow"
    /\ UNCHANGED <<durable, memory, bounds, selected, lastDelivered, cursor,
                   acked, fault>>

\* The log entry comes last.
AppendRollBack ==
    /\ pc = "appendRollBack"
    /\ wal' = Append(wal, pending)
    /\ pending' = None
    /\ pc' = "follow"
    /\ UNCHANGED <<db, snaps, memory, bounds, selected, lastDelivered, cursor,
                   acked, fault>>

-----------------------------------------------------------------------------
(* The end of a run_node_sync pass: the recovery checkpoint.                 *)

CaptureDue ==
    \A s \in DOMAIN snaps : Slot[selected] >= s + CadenceSlots

\* Faulty: one slot early.
CaptureSlotEarly == Slot[selected] - 1

\* The key of a checkpoint: the slot of the pass's last admitted block.
CaptureSlot == Slot[selected]

\* The state captured is the one in memory.
Capture ==
    /\ pc = "follow"
    /\ selected # None
    /\ CaptureDue
    /\ snaps' = [s \in DOMAIN snaps \cup {CaptureSlot} |->
                    IF s = CaptureSlot THEN ledger ELSE snaps[s]]
    /\ selected' = None
    /\ pc' = "prune"
    /\ UNCHANGED <<db, wal, memory, bounds, pending, lastDelivered, cursor,
                   acked, fault>>

EndPassWithoutCapture ==
    /\ pc = "follow"
    /\ selected # None
    /\ ~CaptureDue
    /\ selected' = None
    /\ UNCHANGED <<durable, memory, bounds, pc, pending, lastDelivered, cursor,
                   acked, fault>>

\* Faulty: the oldest checkpoint is not exempt.
PrunableOldest ==
    {s \in DOMAIN snaps :
        Cardinality({t \in DOMAIN snaps : t > s}) >= RetainLatest}

\* The checkpoints neither oldest nor among the RetainLatest newest.
Prunable ==
    {s \in DOMAIN snaps :
        /\ \E t \in DOMAIN snaps : t < s
        /\ Cardinality({t \in DOMAIN snaps : t > s}) >= RetainLatest}

\* prune_recovery_checkpoints deletes them one transaction at a time, in
\* ascending order.
PruneRecoveryCheckpoints ==
    /\ pc = "prune"
    /\ IF Prunable = {}
       THEN pc' = "follow" /\ UNCHANGED snaps
       ELSE LET dropped == CHOOSE s \in Prunable : \A t \in Prunable : s <= t
            IN  /\ snaps' = [s \in DOMAIN snaps \ {dropped} |-> snaps[s]]
                /\ UNCHANGED pc
    /\ UNCHANGED <<db, wal, memory, bounds, pending, selected, lastDelivered,
                   cursor, acked, fault>>

-----------------------------------------------------------------------------
(* Crash and warm start.                                                     *)

Crash ==
    /\ pc # "down"
    /\ crashes < MaxCrashes
    /\ crashes' = crashes + 1
    /\ Exit("none")
    /\ UNCHANGED <<durable, rollBacks, acked>>

\* The fault the first half of warm_start_recovery ends with, if any.
ReplayFault ==
    IF ~SupersedeOk(wal) THEN "WarmStartWalReplay"
    ELSE IF ~(Effective(wal) \subseteq db) THEN "DurableBlockBytesMissing"
    ELSE IF ~WalkOk(wal) THEN "WarmStartWalReplay"
    ELSE "none"

\* Replay the log, then trim the ChainDb to the log's tail.
WarmStartReplay ==
    /\ pc = "down"
    /\ IF ReplayFault = "none"
       THEN /\ pc' = "bootstrap"
            /\ fault' = "none"
            /\ db' = Upto(db, WalTailSlot(wal))
            /\ UNCHANGED <<memory, pending, selected, lastDelivered, cursor>>
       ELSE Exit(ReplayFault) /\ UNCHANGED db
    /\ UNCHANGED <<snaps, wal, bounds, acked>>

\* The slot bootstrap_initial_state materializes at.
BootstrapSlot == IF db = {} THEN Greatest(DOMAIN snaps) ELSE Slot[Tip(db)]

\* T-REC-05: with an admitted block in the log, fingerprints must agree.
BootstrapFault ==
    IF ~ReplaySucceeds(BootstrapSlot) THEN "WarmStartBootstrap"
    ELSE IF /\ Active(wal) # {}
            /\ Fingerprint(Materialized(BootstrapSlot)) # TailFp(wal)
         THEN "FingerprintMismatch"
    ELSE "none"

\* Faulty: the recovered anchor wins over a stored tip.
FollowFromAnchor == Anchor

\* resolve_live_follow_start
LiveFollowStart == TipPoint(db)

\* Materialize at the reconciled tip, verify, and enter the relay loop.  The
\* peer intersects at the recovered tip.
BootstrapInitialState ==
    /\ pc = "bootstrap"
    /\ IF BootstrapFault = "none"
       THEN /\ pc' = "follow"
            /\ ledger' = Materialized(BootstrapSlot)
            /\ priorFp' = Fingerprint(ledger')
            /\ recoveredAnchor' = LiveFollowStart
            /\ cursor' = LiveFollowStart
            /\ UNCHANGED <<pending, selected, lastDelivered, fault>>
       ELSE Exit(BootstrapFault)
    /\ UNCHANGED <<durable, bounds, acked>>

-----------------------------------------------------------------------------

PumpBlock == PumpRefuse \/ \E b \in Blocks : PumpStored(b) \/ PumpAdmit(b)

FollowRollBack ==
    \E p \in RollBackTargets :
        \/ RollBackNoOp(p)
        \/ RollBackUnknown(p)
        \/ RollBackCommit(p)
        \/ RollBackFail(p)

\* The steps the process takes by itself once it has begun them.
Proceed ==
    \/ AppendWal
    \/ AdvanceTip
    \/ AppendRollBack
    \/ PruneRecoveryCheckpoints
    \/ WarmStartReplay
    \/ BootstrapInitialState

Next ==
    \/ PumpBlock
    \/ FollowRollBack
    \/ Capture
    \/ EndPassWithoutCapture
    \/ Proceed
    \/ Crash

Spec == Init /\ [][Next]_vars

\* The process is one thread that runs to the end of what it has begun; the
\* supervisor restarts it.
FairSpec == Spec /\ WF_vars(Proceed)

-----------------------------------------------------------------------------
(* Properties.                                                               *)

AtRest == pc = "follow"

\* Every variable holds a value of its kind; the anchor checkpoint is never
\* lost, and an entry is pending exactly while the process is about to log it.
TypeOK ==
    /\ db \subseteq Blocks
    /\ AnchorSlot \in DOMAIN snaps
    /\ DOMAIN snaps \subseteq {AnchorSlot} \cup {Slot[b] : b \in Blocks}
    /\ \A s \in DOMAIN snaps : snaps[s] \subseteq Blocks
    /\ wal \in Seq(LogEntries)
    /\ pc \in {"follow", "appendWal", "advanceTip", "appendRollBack", "prune",
               "down", "bootstrap"}
    /\ ledger \subseteq Blocks
    /\ priorFp \in Fingerprints
    /\ \/ pc \in {"appendWal", "advanceTip"} /\ pending \in LogEntries
                                            /\ IsAdmit(pending)
       \/ pc = "appendRollBack" /\ pending \in LogEntries /\ IsRollBack(pending)
       \/ pc \in {"follow", "prune", "down", "bootstrap"} /\ pending = None
    /\ selected \in Blocks \cup {None}
    /\ recoveredAnchor \in Blocks \cup {Anchor}
    /\ lastDelivered \in Blocks \cup {None}
    /\ cursor \in Blocks \cup {Anchor}
    /\ acked \subseteq Blocks
    /\ fault \in Faults
    /\ rollBacks \in 0..MaxRollBacks
    /\ crashes \in 0..MaxCrashes

\* DC-WAL-04, DC-SYNC-01: whenever the relay loop runs, the ChainDb holds
\* exactly the blocks the log records as admitted and not rolled back, however
\* the process stopped before: no orphan of a torn admit, no lost block.
DbMatchesWal == AtRest => db = Effective(wal)

\* DC-CONS-20, T-REC-01: ledger and chain-dependent state in memory are those
\* of the chain in the ChainDb, after an admit, a rollback or a warm start.
LedgerMatchesDb == AtRest => ledger = db

\* DC-SYNC-01: a block reported as durable is still on the node's chain after
\* any crash and warm start, until a rollback removes it.
AckedSurvives == AtRest => acked \subseteq db

\* DC-WAL-02: the running fingerprint the next AdmitBlock will chain from is
\* the one replay of the log arrives at.
FingerprintAtTail == AtRest => priorFp = TailFp(wal)

\* DC-CONS-06: a checkpoint at or below the tip is the state a replay from the
\* anchor reaches at that slot.
SnapshotsFaithful ==
    \A s \in DOMAIN snaps : s <= LastSlot(db) => snaps[s] = Upto(db, s)

Durable == INSTANCE DurableChain WITH
    chain <- Effective(wal),
    view  <- IF AtRest THEN {ledger} ELSE {}

\* DC-CONS-20, T-REC-01: the spine implements DurableChain.  The chain the log
\* stands for changes by one extension or one truncation at a time, never while
\* the relay loop is at rest, and never in a crash or a recovery; at rest the
\* ledger is the state of that chain.
ImplementsDurableChain == Durable!Spec

\* The node is where its peer's chain-sync pointer says it is: every roll
\* forward and every rollback of the peer was applied.
FollowsPeer == AtRest => TipPoint(db) = cursor

\* T-REC-01: the log a run left behind replays: compute_superseded finds the
\* target of every RollBack and the fingerprint chain is unbroken.
LogReplays == fault # "WarmStartWalReplay"

\* DC-WAL-05: a WAL admission record never outlives its block bytes.
BytesOutlastLog == fault # "DurableBlockBytesMissing"

\* DC-CONS-06: the checkpoint chosen and the stored blocks above it replay to
\* a state at the reconciled tip.
CheckpointReplays == fault # "WarmStartBootstrap"

\* DC-SYNC-01, DC-WAL-04: recovery drops the block of a torn admit, so the
\* recovered ledger has the fingerprint at the tail of the log.
OrphanReconciled == fault # "FingerprintMismatch"

\* T-REC-01: what a refusal of warm start takes on a node whose only checkpoint
\* is the anchor's.  The log fails to replay only after two rollbacks, the later
\* one deeper; bytes are missing only after a crash before the RollBack entry
\* of a rollback that trimmed the ChainDb; fingerprints differ only when a crash
\* after a rollback left a block that the log does not stand for.
RefusalsExplained ==
    LET rolled == {j \in 1..Len(wal) : IsRollBack(wal[j])}
    IN  /\ CheckpointReplays
        /\ ~LogReplays =>
              \E i, j \in rolled :
                  i < j /\ Slot[wal[j].to_point] < Slot[wal[i].to_point]
        /\ ~BytesOutlastLog => crashes > 0 /\ rollBacks > Cardinality(rolled)
        /\ ~OrphanReconciled =>
              crashes > 0 /\ rolled # {} /\ db # Effective(wal)

\* T-REC-01: a stopped node comes back to following its peer.
RecoveryCompletes == (pc = "down") ~> (pc = "follow")

=============================================================================
