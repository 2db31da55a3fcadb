------------------------- MODULE DurableSpineProofs -------------------------
(***************************************************************************)
(* Theorems about the durable spine for every tree of blocks, cadence and  *)
(* number of rollbacks and crashes: its type invariant, that no            *)
(* acknowledged block is lost, and, for a node that has not both taken a   *)
(* checkpoint of its own and followed a rollback, that ChainDb, log,       *)
(* ledger and checkpoints agree, that every refusal of warm start has a    *)
(* known cause, and that the spine implements DurableChain.                *)
(***************************************************************************)
EXTENDS DurableSpine, WalReplayProofs, FiniteSetTheorems

-----------------------------------------------------------------------------
(* The operators the actions are made of.                                    *)

\* The rollbacks followed so far are counted from zero.
LEMMA CountIsNat == \A n \in 0..MaxRollBacks : n \in Nat
  BY BoundAssumption

\* The last slot applied to a ledger is a slot.
LEMMA LastSlotIsNat ==
    ASSUME NEW S, S \subseteq Blocks
    PROVE  LastSlot(S) \in Nat
  BY TipIsMax, TreeAssumption, AnchorAssumption DEF LastSlot

\* A fingerprint is made of a slot and a set of blocks.
LEMMA FingerprintTyped ==
    ASSUME NEW S, S \subseteq Blocks
    PROVE  Fingerprint(S) \in Fingerprints
  BY LastSlotIsNat, TrackUtxoAssumption DEF Fingerprint, Fingerprints

\* A block the header checks accept moves the slot of the fingerprint forward,
\* to its own slot.
LEMMA FingerprintAdvances ==
    ASSUME NEW S, S \subseteq Blocks, NEW b \in Blocks, ExtendsState(S, b)
    PROVE  /\ Fingerprint(S).slot < Slot[b]
           /\ Fingerprint(S \cup {b}).slot = Slot[b]
<1>1. LastSlot(S) < Slot[b]
  BY TipIsMax, TreeAssumption, AnchorAssumption DEF LastSlot, ExtendsState
<1>2. Tip(S \cup {b}) = b
  <2>1. Tip(S \cup {b}) \in S \cup {b} /\ Slot[b] <= Slot[Tip(S \cup {b})]
    BY TipIsMax
  <2> QED
    BY <2>1, TreeAssumption DEF ExtendsState
<1>3. LastSlot(S \cup {b}) = Slot[b]
  BY <1>2 DEF LastSlot
<1> QED
  BY <1>1, <1>3 DEF Fingerprint

\* The keys of the snapshot table are slots.
LEMMA CheckpointSlots ==
    ASSUME TypeOK
    PROVE  /\ DOMAIN snaps \subseteq Nat
           /\ \E n \in Nat : \A s \in DOMAIN snaps : s <= n
           /\ \A s \in DOMAIN snaps : AnchorSlot <= s
<1>1. PICK n \in Nat : AnchorSlot <= n /\ MaxSlot <= n
  <2>1. /\ AnchorSlot + MaxSlot \in Nat /\ AnchorSlot <= AnchorSlot + MaxSlot
        /\ MaxSlot <= AnchorSlot + MaxSlot
    BY TreeAssumption, AnchorAssumption
  <2> QED
    BY <2>1
<1>2. ASSUME NEW b \in Blocks
      PROVE  Slot[b] \in Nat /\ Slot[b] <= n /\ AnchorSlot <= Slot[b]
  <2>1. Slot[b] \in 0..MaxSlot /\ Slot[b] > AnchorSlot /\ MaxSlot \in Nat
    BY TreeAssumption
  <2> QED
    BY <1>1, <2>1, AnchorAssumption
<1>3. \A s \in DOMAIN snaps : s = AnchorSlot \/ \E b \in Blocks : s = Slot[b]
  BY DEF TypeOK
<1>4. \A s \in DOMAIN snaps : s \in Nat /\ s <= n /\ AnchorSlot <= s
  BY <1>1, <1>2, <1>3, AnchorAssumption
<1> QED
  BY <1>4

\* nearest_le returns a checkpoint at or below the slot if there is one.
LEMMA NearestLeIn ==
    ASSUME TypeOK, NEW s, \E t \in DOMAIN snaps : t <= s
    PROVE  NearestLe(s) \in DOMAIN snaps
<1> DEFINE I == {t \in DOMAIN snaps : t <= s}
<1>1. PICK n \in Nat : \A t \in DOMAIN snaps : t <= n
  BY CheckpointSlots
<1>2. I \subseteq Nat /\ I # {} /\ \A t \in I : t <= n
  BY <1>1, CheckpointSlots
<1> HIDE DEF I
<1>3. Greatest(I) \in I
  BY <1>2, GreatestIsMax, Zenon
<1> QED
  BY <1>3 DEF NearestLe, I

\* What materialize_rolled_back_state returns is a ledger.
LEMMA MaterializedTyped ==
    ASSUME TypeOK, NEW s, ReplaySucceeds(s)
    PROVE  Materialized(s) \subseteq Blocks
<1>1. NearestLe(s) \in DOMAIN snaps
  BY NearestLeIn DEF ReplaySucceeds
<1> QED
  BY <1>1 DEF TypeOK, Materialized, BlocksInRange

\* Pruning spares the anchor checkpoint: it is the oldest.
LEMMA PrunedIsNotAnchor ==
    ASSUME TypeOK, Prunable # {}
    PROVE  (CHOOSE s \in Prunable : \A t \in Prunable : s <= t) # AnchorSlot
<1>1. Prunable \subseteq Nat
  BY CheckpointSlots DEF Prunable
<1>2. PICK s \in Prunable : \A t \in Prunable : s <= t
  BY <1>1, LeastNatural, Zenon
<1>3. (CHOOSE x \in Prunable : \A t \in Prunable : x <= t) \in Prunable
  BY <1>2
<1>4. AnchorSlot \notin Prunable
  BY CheckpointSlots, AnchorAssumption DEF Prunable
<1> QED
  BY <1>3, <1>4, Zenon

\* The tip is a block of the tree or the anchor.
LEMMA TipPointTyped ==
    ASSUME NEW S, S \subseteq Blocks
    PROVE  TipPoint(S) \in Blocks \cup {Anchor}
  BY TipIsMax DEF TipPoint

-----------------------------------------------------------------------------
(* The type invariant.                                                       *)

\* A freshly bootstrapped node is well typed.
LEMMA TypeInit == Init => TypeOK
<1> SUFFICES ASSUME Init PROVE TypeOK
  OBVIOUS
<1>1. Fingerprint({}) \in Fingerprints
  BY FingerprintTyped
<1> QED
  BY <1>1, BoundAssumption DEF Init, TypeOK, Faults

\* An error that ends the process leaves a well-typed state.
LEMMA ExitTyped ==
    ASSUME TypeOK, NEW f \in Faults, Exit(f), UNCHANGED <<durable>>,
           acked' = acked, rollBacks' \in 0..MaxRollBacks,
           crashes' \in 0..MaxCrashes
    PROVE  TypeOK'
<1>1. Fingerprint({}) \in Fingerprints
  BY FingerprintTyped
<1> QED
  BY <1>1 DEF TypeOK, Exit, durable

\* Every step of the node keeps the type invariant.
LEMMA TypeStep == TypeOK /\ [Next]_vars => TypeOK'
<1> SUFFICES ASSUME TypeOK, [Next]_vars PROVE TypeOK'
  OBVIOUS
<1>1. CASE PumpRefuse
  BY <1>1, ExitTyped DEF PumpRefuse, TypeOK, Faults, bounds
<1>2. ASSUME NEW b \in Blocks, PumpStored(b) PROVE TypeOK'
  BY <1>2 DEF PumpStored, Deliver, TypeOK, durable, memory, bounds
<1>3. ASSUME NEW b \in Blocks, PumpAdmit(b) PROVE TypeOK'
  <2>1. priorFp' \in Fingerprints
    BY <1>3, FingerprintTyped DEF PumpAdmit, TypeOK
  <2>2. pending' \in LogEntries /\ IsAdmit(pending')
    BY <1>3, <2>1 DEF PumpAdmit, TypeOK, AdmitBlock, LogEntries, IsAdmit
  <2> QED
    BY <1>3, <2>1, <2>2 DEF PumpAdmit, Deliver, TypeOK, bounds
<1>4. CASE AppendWal
  <2>1. wal' \in Seq(LogEntries)
    BY <1>4, AppendEntry DEF AppendWal, TypeOK
  <2> QED
    BY <1>4, <2>1, Zenon DEF AppendWal, TypeOK, memory, bounds
<1>5. CASE AdvanceTip
  <2>1. pending.block \in Blocks
    BY <1>5, EntryFields DEF AdvanceTip, TypeOK
  <2> QED
    BY <1>5, <2>1 DEF AdvanceTip, TypeOK, durable, memory, bounds
<1>6. ASSUME NEW p, RollBackNoOp(p) PROVE TypeOK'
  BY <1>6, BoundAssumption DEF RollBackNoOp, RollBackward, TypeOK, memory
<1>7. ASSUME NEW p, RollBackUnknown(p) PROVE TypeOK'
  <2>1. rollBacks' \in 0..MaxRollBacks /\ crashes' \in 0..MaxCrashes
    BY <1>7, BoundAssumption DEF RollBackUnknown, RollBackward, TypeOK
  <2>2. /\ Exit("UnexpectedRollback") /\ "UnexpectedRollback" \in Faults
        /\ UNCHANGED <<durable>> /\ acked' = acked
    BY <1>7 DEF RollBackUnknown, RollBackward, Faults, durable
  <2> QED
    BY <2>1, <2>2, ExitTyped
<1>8. ASSUME NEW p, RollBackCommit(p) PROVE TypeOK'
  <2>1. p \in Blocks
    BY <1>8 DEF RollBackCommit, TypeOK
  <2>2. ledger' \subseteq Blocks
    BY <1>8, MaterializedTyped DEF RollBackCommit
  <2>3. priorFp' \in Fingerprints
    BY <1>8, <2>2, FingerprintTyped DEF RollBackCommit
  <2>4. pending' \in LogEntries /\ IsRollBack(pending')
    BY <1>8, <2>1 DEF RollBackCommit, RollBack, LogEntries, IsRollBack
  <2> QED
    BY <1>8, <2>1, <2>2, <2>3, <2>4, BoundAssumption
       DEF RollBackCommit, RollBackward, TypeOK, Upto
<1>9. ASSUME NEW p, RollBackFail(p) PROVE TypeOK'
  <2>1. rollBacks' \in 0..MaxRollBacks /\ crashes' \in 0..MaxCrashes
    BY <1>9, BoundAssumption DEF RollBackFail, RollBackward, TypeOK
  <2>2. /\ Exit("Apply") /\ "Apply" \in Faults
        /\ UNCHANGED <<durable>> /\ acked' = acked
    BY <1>9 DEF RollBackFail, RollBackward, Faults, durable
  <2> QED
    BY <2>1, <2>2, ExitTyped
<1>10. CASE AppendRollBack
  <2>1. wal' \in Seq(LogEntries)
    BY <1>10, AppendEntry DEF AppendRollBack, TypeOK
  <2> QED
    BY <1>10, <2>1 DEF AppendRollBack, TypeOK, memory, bounds
<1>11. CASE Capture
  BY <1>11, NoneAssumption DEF Capture, CaptureSlot, TypeOK, memory, bounds
<1>12. CASE EndPassWithoutCapture
  BY <1>12 DEF EndPassWithoutCapture, TypeOK, durable, memory, bounds
<1>13. CASE PruneRecoveryCheckpoints
  <2>1. CASE Prunable = {}
    BY <1>13, <2>1, Zenon DEF PruneRecoveryCheckpoints, TypeOK, memory, bounds
  <2>2. CASE Prunable # {}
    <3> DEFINE dropped == CHOOSE s \in Prunable : \A t \in Prunable : s <= t
    <3>1. dropped # AnchorSlot
      BY <2>2, PrunedIsNotAnchor
    <3>2. snaps' = [s \in DOMAIN snaps \ {dropped} |-> snaps[s]] /\ pc' = pc
      BY <1>13, <2>2 DEF PruneRecoveryCheckpoints
    <3> HIDE DEF dropped
    <3> QED
      BY <1>13, <3>1, <3>2, Zenon DEF PruneRecoveryCheckpoints, TypeOK, memory, bounds
  <2> QED
    BY <2>1, <2>2
<1>14. CASE WarmStartReplay
  <2>1. CASE ReplayFault = "none"
    BY <1>14, <2>1, Zenon DEF WarmStartReplay, TypeOK, Faults, memory, bounds, Upto
  <2>2. CASE ReplayFault # "none"
    <3>1. ReplayFault \in Faults
      BY Zenon DEF ReplayFault, Faults
    <3> QED
      BY <1>14, <2>2, <3>1, ExitTyped, Zenon DEF WarmStartReplay, TypeOK, durable, bounds
  <2> QED
    BY <2>1, <2>2
<1>15. CASE BootstrapInitialState
  <2>1. CASE BootstrapFault = "none"
    <3>1. ledger' \subseteq Blocks
      BY <1>15, <2>1, MaterializedTyped DEF BootstrapInitialState, BootstrapFault
    <3>2. priorFp' \in Fingerprints
      BY <1>15, <2>1, <3>1, FingerprintTyped, Zenon DEF BootstrapInitialState
    <3>3. LiveFollowStart \in Blocks \cup {Anchor}
      BY TipPointTyped, Zenon DEF LiveFollowStart, TypeOK
    <3> QED
      BY <1>15, <2>1, <3>1, <3>2, <3>3, Zenon
         DEF BootstrapInitialState, TypeOK, durable, bounds
  <2>2. CASE BootstrapFault # "none"
    <3>1. BootstrapFault \in Faults
      BY DEF BootstrapFault, Faults
    <3> QED
      BY <1>15, <2>2, <3>1, ExitTyped, Zenon DEF BootstrapInitialState, TypeOK, bounds
  <2> QED
    BY <2>1, <2>2
<1>16. CASE Crash
  <2>1. rollBacks' \in 0..MaxRollBacks /\ crashes' \in 0..MaxCrashes
    BY <1>16, BoundAssumption DEF Crash, TypeOK
  <2>2. Exit("none") /\ "none" \in Faults /\ UNCHANGED <<durable>> /\ acked' = acked
    BY <1>16, Zenon DEF Crash, Faults, durable
  <2> QED
    BY <2>1, <2>2, ExitTyped
<1>17. CASE UNCHANGED vars
  BY <1>17 DEF vars, durable, memory, bounds, TypeOK
<1> QED
  BY <1>1, <1>2, <1>3, <1>4, <1>5, <1>6, <1>7, <1>8, <1>9, <1>10, <1>11, <1>12,
     <1>13, <1>14, <1>15, <1>16, <1>17, Zenon
     DEF Next, PumpBlock, FollowRollBack, Proceed

\* Every state of the node's stores and memory is of its type; in particular
\* prune_recovery_checkpoints never deletes the bootstrap anchor's checkpoint,
\* and an entry is pending exactly between a decision and its log write.
THEOREM TypeCorrect == Spec => []TypeOK
  BY TypeInit, TypeStep, PTL DEF Spec

-----------------------------------------------------------------------------
(* No acknowledged block is lost.                                            *)

\* Every entry written, or about to be, records the slots it should.
EntriesOk ==
    /\ \A i \in 1..Len(wal) : EntryOk(wal[i])
    /\ pc \in {"appendWal", "advanceTip"} => EntryOk(pending)
    /\ priorFp = Fingerprint(ledger)

\* An acknowledged block is both stored and standing in the log, in every
\* state; the step about to be taken keeps it so.
AckedHeld ==
    /\ acked \subseteq db
    /\ acked \subseteq Effective(wal)
    /\ pc \in {"appendWal", "advanceTip"} => pending.block \in db
    /\ pc = "advanceTip" => pending.block \in Effective(wal)
    /\ pc = "appendRollBack" =>
          \A b \in acked : Slot[b] <= Slot[pending.to_point]

IInv == TypeOK /\ EntriesOk /\ AckedHeld

\* No block is at or below the anchor's slot.
LEMMA NothingUptoAnchor ==
    ASSUME NEW S, S \subseteq Blocks
    PROVE  Upto(S, AnchorSlot) = {}
  BY SlotIsNat DEF Upto

\* A freshly bootstrapped node satisfies the inductive invariant.
LEMMA IInvInit == Init => IInv
<1> SUFFICES ASSUME Init PROVE IInv
  OBVIOUS
<1>1. TypeOK
  BY TypeInit
<1>2. EntriesOk
  BY DEF Init, EntriesOk
<1>3. AckedHeld
  BY DEF Init, AckedHeld
<1> QED
  BY <1>1, <1>2, <1>3 DEF IInv

\* A step that leaves the log and what it hinges on alone, and takes the
\* process out of the middle of a write, keeps the invariant.
LEMMA ExitKeeps ==
    ASSUME EntriesOk, AckedHeld, NEW f, Exit(f),
           wal' = wal, db' = db, acked' = acked
    PROVE  EntriesOk' /\ AckedHeld'
  BY DEF EntriesOk, AckedHeld, Exit

\* Every entry a step leaves in the log, or holds for it, records what it should.
LEMMA EntriesOkStep == IInv /\ [Next]_vars => EntriesOk'
<1> SUFFICES ASSUME TypeOK, EntriesOk, AckedHeld, [Next]_vars PROVE EntriesOk'
  BY DEF IInv
<1>1. CASE PumpRefuse
  BY <1>1, ExitKeeps DEF PumpRefuse, durable
<1>2. ASSUME NEW b \in Blocks, PumpStored(b) PROVE EntriesOk'
  BY <1>2 DEF PumpStored, Deliver, EntriesOk, durable, memory
<1>3. ASSUME NEW b \in Blocks, PumpAdmit(b) PROVE EntriesOk'
  <2>1. ledger \subseteq Blocks /\ ExtendsState(ledger, b)
    BY <1>3 DEF PumpAdmit, Admissible, TypeOK
  <2>2. /\ Fingerprint(ledger).slot < Slot[b]
        /\ Fingerprint(ledger \cup {b}).slot = Slot[b]
    BY <2>1, FingerprintAdvances
  <2>3. pending' = AdmitBlock(Fingerprint(ledger), b, Fingerprint(ledger \cup {b}))
    BY <1>3 DEF PumpAdmit, EntriesOk
  <2>4. EntryOk(pending')
    BY <2>2, <2>3, Zenon DEF EntryOk, AdmitBlock
  <2> QED
    BY <1>3, <2>4, Zenon DEF PumpAdmit, EntriesOk
<1>4. CASE AppendWal
  <2>1. pending \in LogEntries /\ EntryOk(pending) /\ wal' = Append(wal, pending)
    BY <1>4 DEF AppendWal, TypeOK, EntriesOk
  <2>2. \A i \in 1..Len(wal') : EntryOk(wal'[i])
    BY <2>1, AppendEntry DEF TypeOK, EntriesOk
  <2> QED
    BY <1>4, <2>1, <2>2 DEF AppendWal, EntriesOk, memory
<1>5. CASE AdvanceTip
  BY <1>5 DEF AdvanceTip, EntriesOk, durable, memory
<1>6. ASSUME NEW p, RollBackNoOp(p) PROVE EntriesOk'
  BY <1>6 DEF RollBackNoOp, RollBackward, EntriesOk, memory
<1>7. ASSUME NEW p, RollBackUnknown(p) PROVE EntriesOk'
  BY <1>7, ExitKeeps DEF RollBackUnknown, RollBackward
<1>8. ASSUME NEW p, RollBackCommit(p) PROVE EntriesOk'
  BY <1>8 DEF RollBackCommit, RollBackward, EntriesOk
<1>9. ASSUME NEW p, RollBackFail(p) PROVE EntriesOk'
  BY <1>9, ExitKeeps DEF RollBackFail, RollBackward
<1>10. CASE AppendRollBack
  <2>1. pending \in LogEntries /\ EntryOk(pending) /\ wal' = Append(wal, pending)
    BY <1>10, EntryFields, Zenon DEF AppendRollBack, TypeOK, EntryOk
  <2>2. \A i \in 1..Len(wal') : EntryOk(wal'[i])
    BY <2>1, AppendEntry DEF TypeOK, EntriesOk
  <2> QED
    BY <1>10, <2>2 DEF AppendRollBack, EntriesOk, memory
<1>11. CASE Capture \/ EndPassWithoutCapture \/ PruneRecoveryCheckpoints
  BY <1>11 DEF Capture, EndPassWithoutCapture, PruneRecoveryCheckpoints,
               EntriesOk, durable, memory
<1>12. CASE WarmStartReplay
  BY <1>12, Zenon DEF WarmStartReplay, Exit, EntriesOk, memory
<1>13. CASE BootstrapInitialState
  BY <1>13, Zenon DEF BootstrapInitialState, Exit, EntriesOk, durable
<1>14. CASE Crash
  BY <1>14, ExitKeeps DEF Crash, durable
<1>15. CASE UNCHANGED vars
  BY <1>15 DEF vars, durable, memory, EntriesOk
<1> QED
  BY <1>1, <1>2, <1>3, <1>4, <1>5, <1>6, <1>7, <1>8, <1>9, <1>10, <1>11, <1>12,
     <1>13, <1>14, <1>15, Zenon
     DEF Next, PumpBlock, FollowRollBack, Proceed

\* Every step keeps the acknowledged blocks stored and standing in the log.
LEMMA AckedHeldStep == IInv /\ [Next]_vars => AckedHeld'
<1> SUFFICES ASSUME TypeOK, EntriesOk, AckedHeld, [Next]_vars PROVE AckedHeld'
  BY DEF IInv
<1>1. CASE PumpRefuse
  BY <1>1, ExitKeeps DEF PumpRefuse, durable
<1>2. ASSUME NEW b \in Blocks, PumpStored(b) PROVE AckedHeld'
  BY <1>2 DEF PumpStored, Deliver, AckedHeld, durable
<1>3. ASSUME NEW b \in Blocks, PumpAdmit(b) PROVE AckedHeld'
  BY <1>3 DEF PumpAdmit, AckedHeld, AdmitBlock
<1>4. CASE AppendWal
  <2>1. /\ wal \in Seq(LogEntries) /\ pending \in LogEntries /\ IsAdmit(pending)
        /\ wal' = Append(wal, pending)
    BY <1>4 DEF AppendWal, TypeOK
  <2>2. Effective(wal') = Effective(wal) \cup {pending.block}
    BY <2>1, EffectiveAdmit
  <2> QED
    BY <1>4, <2>2, Zenon DEF AppendWal, AckedHeld
<1>5. CASE AdvanceTip
  BY <1>5 DEF AdvanceTip, AckedHeld, durable
<1>6. ASSUME NEW p, RollBackNoOp(p) PROVE AckedHeld'
  BY <1>6 DEF RollBackNoOp, RollBackward, AckedHeld
<1>7. ASSUME NEW p, RollBackUnknown(p) PROVE AckedHeld'
  BY <1>7, ExitKeeps DEF RollBackUnknown, RollBackward
<1>8. ASSUME NEW p, RollBackCommit(p) PROVE AckedHeld'
  BY <1>8 DEF RollBackCommit, RollBackward, AckedHeld, RollBack, Upto
<1>9. ASSUME NEW p, RollBackFail(p) PROVE AckedHeld'
  BY <1>9, ExitKeeps, Zenon DEF RollBackFail, RollBackward
<1>10. CASE AppendRollBack
  <2>1. /\ wal \in Seq(LogEntries) /\ pending \in LogEntries /\ IsRollBack(pending)
        /\ wal' = Append(wal, pending)
    BY <1>10 DEF AppendRollBack, TypeOK
  <2>2. Effective(wal') = Upto(Effective(wal), Slot[pending.to_point])
    BY <2>1, EffectiveRollBack
  <2>3. acked' \subseteq Effective(wal')
    BY <1>10, <2>2 DEF AppendRollBack, AckedHeld, Upto
  <2> QED
    BY <1>10, <2>3, Zenon DEF AppendRollBack, AckedHeld
<1>11. CASE Capture \/ EndPassWithoutCapture \/ PruneRecoveryCheckpoints
  BY <1>11 DEF Capture, EndPassWithoutCapture, PruneRecoveryCheckpoints,
               AckedHeld, durable
<1>12. CASE WarmStartReplay
  <2>1. CASE ReplayFault = "none"
    <3>1. wal \in Seq(LogEntries) /\ WalkOk(wal)
      BY <2>1 DEF ReplayFault, TypeOK
    <3>2. \A b \in acked : Slot[b] <= WalTailSlot(wal)
      BY <3>1, TailSlotCoversLog DEF EntriesOk, AckedHeld
    <3>3. acked \subseteq Upto(db, WalTailSlot(wal))
      BY <3>2 DEF AckedHeld, Upto
    <3> QED
      BY <1>12, <2>1, <3>3 DEF WarmStartReplay, AckedHeld
  <2>2. CASE ReplayFault # "none"
    BY <1>12, <2>2, ExitKeeps DEF WarmStartReplay
  <2> QED
    BY <2>1, <2>2, Zenon
<1>13. CASE BootstrapInitialState
  BY <1>13 DEF BootstrapInitialState, Exit, AckedHeld, durable
<1>14. CASE Crash
  BY <1>14, ExitKeeps, Zenon DEF Crash, durable
<1>15. CASE UNCHANGED vars
  BY <1>15 DEF vars, durable, AckedHeld
<1> QED
  BY <1>1, <1>2, <1>3, <1>4, <1>5, <1>6, <1>7, <1>8, <1>9, <1>10, <1>11, <1>12,
     <1>13, <1>14, <1>15, Zenon
     DEF Next, PumpBlock, FollowRollBack, Proceed

\* DC-SYNC-01: a block reported as durable by AdvanceTip stays in the ChainDb
\* through any crash and warm start until a rollback removes it, whatever the
\* tree of blocks and however many rollbacks and crashes.
THEOREM AckedBlocksSurvive == Spec => []AckedSurvives
<1>1. Init => IInv
  BY IInvInit
<1>2. IInv /\ [Next]_vars => IInv'
  BY TypeStep, EntriesOkStep, AckedHeldStep DEF IInv
<1>3. IInv => AckedSurvives
  BY Zenon DEF IInv, AckedHeld, AckedSurvives
<1> QED
  BY <1>1, <1>2, <1>3, PTL DEF Spec

-----------------------------------------------------------------------------
(* The stores and the log agree.  Two things can part them for good: a       *)
(* checkpoint that a rollback leaves standing above its target, and so a     *)
(* node is calm until it has both taken a checkpoint of its own and followed *)
(* a rollback; and a crash between the trim of a rollback and its log entry, *)
(* after which warm start refuses.                                           *)

\* No rollback has come yet, or the anchor's is the only checkpoint.
Calm == rollBacks = 0 \/ DOMAIN snaps = {AnchorSlot}

\* Checkpoints change where a pass of run_node_sync captures or prunes one, and nowhere else.
LEMMA SnapsChange ==
    ASSUME [Next]_vars
    PROVE  snaps' = snaps \/ Capture \/ (PruneRecoveryCheckpoints /\ Prunable # {})
  BY DEF Next, PumpBlock, PumpRefuse, PumpStored, PumpAdmit, FollowRollBack, RollBackNoOp,
     RollBackUnknown, RollBackCommit, RollBackFail, RollBackward, EndPassWithoutCapture,
     Proceed, AppendWal, AdvanceTip, AppendRollBack, PruneRecoveryCheckpoints,
     WarmStartReplay, BootstrapInitialState, Crash, vars, durable

\* A node that is calm has been so all along: the newest checkpoint is never pruned.
LEMMA CalmBefore ==
    ASSUME TypeOK, [Next]_vars, Calm'
    PROVE  Calm
<1>1. rollBacks \in Nat /\ (rollBacks' = rollBacks \/ rollBacks' = rollBacks + 1)
  <2>1. rollBacks \in Nat
    BY CountIsNat, Zenon DEF TypeOK
  <2>2. rollBacks' = rollBacks \/ rollBacks' = rollBacks + 1
    BY DEF Next, PumpBlock, PumpRefuse, PumpStored, PumpAdmit, FollowRollBack, RollBackNoOp,
       RollBackUnknown, RollBackCommit, RollBackFail, RollBackward, Capture,
       EndPassWithoutCapture, Proceed, AppendWal, AdvanceTip, AppendRollBack,
       PruneRecoveryCheckpoints, WarmStartReplay, BootstrapInitialState, Crash, vars, bounds
  <2> QED
    BY <2>1, <2>2
<1>2. CASE rollBacks' = 0
  BY <1>1, <1>2 DEF Calm
<1>3. CASE DOMAIN snaps' = {AnchorSlot}
  <2>1. snaps' = snaps \/ Capture \/ (PruneRecoveryCheckpoints /\ Prunable # {})
    BY SnapsChange
  <2>2. CASE snaps' = snaps
    BY <1>3, <2>2, Zenon DEF Calm
  <2>3. CASE Capture
    <3>1. DOMAIN snaps \subseteq DOMAIN snaps'
      BY <2>3 DEF Capture
    <3> QED
      BY <1>3, <3>1, Zenon DEF Calm, TypeOK
  <2>4. CASE PruneRecoveryCheckpoints /\ Prunable # {}
    <3> DEFINE dropped == CHOOSE s \in Prunable : \A t \in Prunable : s <= t
    <3>1. dropped \in Prunable
      <4>1. Prunable \subseteq Nat
        BY CheckpointSlots DEF Prunable
      <4>2. PICK s \in Prunable : \A t \in Prunable : s <= t
        BY <2>4, <4>1, LeastNatural, Zenon
      <4> QED
        BY <4>2
    <3>2. DOMAIN snaps' = DOMAIN snaps \ {dropped}
      BY <2>4 DEF PruneRecoveryCheckpoints
    <3> HIDE DEF dropped
    <3>3. dropped \in Nat /\ AnchorSlot \in Nat /\ AnchorSlot <= dropped
      BY <3>1, CheckpointSlots, AnchorAssumption DEF Prunable
    <3>4. {t \in DOMAIN snaps : t > dropped} = {}
      BY <1>3, <3>2, <3>3
    <3>5. Cardinality({t \in DOMAIN snaps : t > dropped}) >= RetainLatest
      BY <3>1 DEF Prunable
    <3> QED
      BY <3>4, <3>5, FS_EmptySet, CadenceAssumption
  <2> QED
    BY <2>1, <2>2, <2>3, <2>4
<1> QED
  BY <1>2, <1>3, Zenon DEF Calm

\* A peer that never rolls back, or a cadence no block's slot reaches, keeps the node
\* calm: the instances on which the refinement is model-checked are of these two kinds.
THEOREM StaysCalm ==
    ASSUME MaxRollBacks = 0 \/ MaxSlot < AnchorSlot + CadenceSlots
    PROVE  Spec => []Calm
<1> DEFINE Few == DOMAIN snaps = {AnchorSlot} \/ MaxRollBacks = 0
<1>1. Init => Few
  BY DEF Init
<1>2. TypeOK /\ Few /\ [Next]_vars => Few'
  <2> SUFFICES ASSUME TypeOK, DOMAIN snaps = {AnchorSlot}, [Next]_vars,
                      MaxSlot < AnchorSlot + CadenceSlots
               PROVE  DOMAIN snaps' = {AnchorSlot}
    BY Zenon
  <2>1. snaps' = snaps \/ Capture \/ (PruneRecoveryCheckpoints /\ Prunable # {})
    BY SnapsChange
  <2>2. ~Capture
    <3> SUFFICES ASSUME Capture PROVE FALSE
      BY Zenon
    <3>1. selected \in Blocks /\ Slot[selected] >= AnchorSlot + CadenceSlots
      BY Zenon DEF Capture, CaptureDue, TypeOK
    <3>2. Slot[selected] \in Nat /\ Slot[selected] <= MaxSlot
      BY <3>1, TreeAssumption, AnchorAssumption
    <3> QED
      BY <3>1, <3>2, TreeAssumption, AnchorAssumption, CadenceAssumption
  <2>3. Prunable = {}
    BY AnchorAssumption DEF Prunable
  <2> QED
    BY <2>1, <2>2, <2>3
<1>3. TypeOK /\ Few => Calm
  BY DEF TypeOK, Calm
<1> HIDE DEF Few
<1> QED
  BY <1>1, <1>2, <1>3, TypeCorrect, PTL DEF Spec

\* The blocks of S can be applied one after the other.
Ordered(S) == \A c, d \in S : /\ Slot[c] = Slot[d] => c = d
                              /\ Slot[c] < Slot[d] => BlockNo[c] < BlockNo[d]

Rolled(w) == {j \in 1..Len(w) : IsRollBack(w[j])}

\* Every checkpoint is at or below the tip and holds the state at its slot.
SnapsOk ==
    \A s \in DOMAIN snaps : s <= LastSlot(Effective(wal)) /\ snaps[s] = Upto(Effective(wal), s)

\* A block was stored and the crash came before its log entry.
Orphan == \E b \in Blocks \ Effective(wal) :
             db = Effective(wal) \cup {b} /\ ExtendsState(Effective(wal), b)

\* The ChainDb was trimmed and the crash came before the log entry of the rollback.
Torn == \E p \in Effective(wal) : db = Upto(Effective(wal), Slot[p])

\* What a process that stopped may have left.
StoresOk ==
    \/ db = Effective(wal)
    \/ Orphan /\ crashes > 0
    \/ Torn /\ crashes > 0 /\ Cardinality(Rolled(wal)) < rollBacks

\* What holds of the ChainDb, the ledger in memory and the entry to be logged at each
\* point the process can be at.
PlaceOk ==
    /\ pc \in {"follow", "advanceTip", "prune"} => db = Effective(wal) /\ ledger = Effective(wal)
    /\ pc = "appendWal" =>
          /\ ledger = db /\ db = Effective(wal) \cup {pending.block}
          /\ pending.block \notin Effective(wal) /\ ExtendsState(Effective(wal), pending.block)
          /\ pending.prior_fp = Fingerprint(Effective(wal))
          /\ pending.post_fp = Fingerprint(ledger)
    /\ pc = "appendRollBack" =>
          /\ ledger = db /\ pending.to_point \in Effective(wal)
          /\ db = Upto(Effective(wal), Slot[pending.to_point])
          /\ Cardinality(Rolled(wal)) < rollBacks
    /\ pc = "down" => StoresOk
    /\ pc = "bootstrap" =>
          /\ WalkOk(wal)
          /\ db = Effective(wal) \/ (Orphan /\ crashes > 0 /\ Rolled(wal) # {})

\* Until the first rollback the node is where its peer is, and what the pass selected
\* is its tip.
PeerOk ==
    rollBacks = 0 =>
       /\ pc \in {"follow", "advanceTip", "prune"} => cursor = TipPoint(Effective(wal))
       /\ pc = "appendWal" => cursor = pending.block
       /\ pc = "advanceTip" => pending.block = cursor
       /\ pc \in {"follow", "prune", "down", "bootstrap"} =>
             selected \in {None, TipPoint(Effective(wal))}

\* Why the process last exited.
FaultOk ==
    /\ fault # "WarmStartBootstrap"
    /\ fault \in {"UnexpectedRollback", "Apply"} => rollBacks > 0
    /\ fault = "WarmStartWalReplay" => pc = "down" /\ ~WalkOk(wal)
    /\ fault = "DurableBlockBytesMissing" => pc = "down" /\ ~(Effective(wal) \subseteq db)
    /\ fault = "FingerprintMismatch" =>
          pc = "down" /\ Orphan /\ crashes > 0 /\ Rolled(wal) # {}

LogInv == /\ LogOk(wal) /\ Ordered(Effective(wal))
          /\ Cardinality(Rolled(wal)) <= rollBacks

SInv == LogInv /\ SnapsOk /\ PlaceOk /\ PeerOk /\ FaultOk

\* The blocks the log stands for are blocks.
LEMMA EffectiveTyped ==
    ASSUME TypeOK
    PROVE  Effective(wal) \subseteq Blocks /\ wal \in Seq(LogEntries)
<1>1. wal \in Seq(LogEntries)
  BY DEF TypeOK
<1>2. \A i \in Active(wal) : wal[i].block \in Blocks
  BY <1>1, ActiveFacts
<1> QED
  BY <1>1, <1>2 DEF Effective

\* The log has finitely many RollBack entries.
LEMMA RolledFinite ==
    ASSUME NEW w \in Seq(LogEntries)
    PROVE  IsFiniteSet(Rolled(w)) /\ Cardinality(Rolled(w)) \in Nat
<1>1. IsFiniteSet(1..Len(w))
  BY FS_Interval
<1>2. IsFiniteSet(Rolled(w))
  BY <1>1, FS_Subset DEF Rolled
<1> QED
  BY <1>2, FS_CardinalityType

\* Each RollBack entry was logged for a rollback that was followed.
LEMMA RollBackCounts ==
    ASSUME TypeOK, SInv
    PROVE  /\ rollBacks \in Nat /\ Cardinality(Rolled(wal)) \in Nat
           /\ Cardinality(Rolled(wal)) <= rollBacks
           /\ Cardinality(Rolled(wal)) < rollBacks => rollBacks # 0
<1>1. rollBacks \in Nat
  BY CountIsNat, Zenon DEF TypeOK
<1>2. Cardinality(Rolled(wal)) \in Nat
  BY EffectiveTyped, RolledFinite, Zenon
<1>3. Cardinality(Rolled(wal)) <= rollBacks
  BY Zenon DEF SInv, LogInv
<1> QED
  BY <1>1, <1>2, <1>3

\* What the ChainDb holds at any point: the chain of the log, a block more, or after a
\* rollback a part of it.
LEMMA StoreShapes ==
    ASSUME TypeOK, SInv
    PROVE  db = Effective(wal) \/ Orphan \/ (Torn /\ rollBacks # 0)
<1>1. rollBacks \in Nat /\ Cardinality(Rolled(wal)) \in Nat
  BY RollBackCounts
<1>2. CASE pc \in {"follow", "advanceTip", "prune", "bootstrap"}
  BY <1>2, Zenon DEF SInv, PlaceOk
<1>3. CASE pc = "appendWal"
  BY <1>3, EntryFields, Zenon DEF SInv, PlaceOk, Orphan, TypeOK
<1>4. CASE pc = "appendRollBack"
  BY <1>1, <1>4 DEF SInv, PlaceOk, Torn
<1>5. CASE pc = "down"
  BY <1>1, <1>5 DEF SInv, PlaceOk, StoresOk
<1> QED
  BY <1>2, <1>3, <1>4, <1>5, Zenon DEF TypeOK

\* Until the first rollback a process that stopped left every block of the log stored.
LEMMA LogStored ==
    ASSUME TypeOK, SInv, rollBacks = 0, pc = "down"
    PROVE  Effective(wal) \subseteq db
<1>1. Cardinality(Rolled(wal)) \in Nat
  BY RollBackCounts
<1> QED
  BY <1>1 DEF SInv, PlaceOk, StoresOk, Orphan

\* An AdmitBlock adds no RollBack.
LEMMA RolledAdmit ==
    ASSUME NEW w \in Seq(LogEntries), NEW e \in LogEntries, IsAdmit(e)
    PROVE  Rolled(Append(w, e)) = Rolled(w)
  BY AppendEntry, EntryFields DEF Rolled

\* A RollBack adds one.
LEMMA RolledRollBack ==
    ASSUME NEW w \in Seq(LogEntries), NEW e \in LogEntries, IsRollBack(e)
    PROVE  Cardinality(Rolled(Append(w, e))) = Cardinality(Rolled(w)) + 1
<1>1. Rolled(Append(w, e)) = Rolled(w) \cup {Len(w) + 1}
  BY AppendEntry DEF Rolled
<1>2. Len(w) + 1 \notin Rolled(w)
  BY DEF Rolled
<1> QED
  BY <1>1, <1>2, RolledFinite, FS_AddElement, Zenon

\* A chain with a block above it can be applied in order, and ends in that block.
LEMMA OrderedExtend ==
    ASSUME NEW S, S \subseteq Blocks, Ordered(S), NEW b \in Blocks, ExtendsState(S, b)
    PROVE  /\ Ordered(S \cup {b}) /\ TipPoint(S \cup {b}) = b
           /\ LastSlot(S \cup {b}) = Slot[b] /\ LastSlot(S) < Slot[b]
<1>1. \A c \in S \cup {b} : Slot[c] \in Nat /\ BlockNo[c] \in Nat
  BY SlotIsNat, TreeAssumption
<1>2. Ordered(S \cup {b})
  <2> SUFFICES ASSUME NEW c \in S \cup {b}, NEW d \in S \cup {b}
               PROVE  /\ Slot[c] = Slot[d] => c = d
                      /\ Slot[c] < Slot[d] => BlockNo[c] < BlockNo[d]
    BY DEF Ordered
  <2>1. \A x \in S : Slot[x] < Slot[b] /\ BlockNo[x] < BlockNo[b]
    BY DEF ExtendsState
  <2>2. CASE c \in S /\ d \in S
    BY <2>2 DEF Ordered
  <2>3. CASE c = b \/ d = b
    BY <1>1, <2>1, <2>3
  <2> QED
    BY <2>2, <2>3, Zenon
<1>3. Tip(S \cup {b}) = b
  BY TipIs DEF ExtendsState
<1>4. LastSlot(S) < Slot[b]
  BY TipIsMax, SlotIsNat DEF LastSlot, ExtendsState
<1> QED
  BY <1>2, <1>3, <1>4 DEF TipPoint, LastSlot

\* With faithful checkpoints at or below the slot, materialize replays the stored blocks
\* and arrives at the chain up to there.
LEMMA Materializes ==
    ASSUME TypeOK, NEW s \in Nat, AnchorSlot <= s, Ordered(db),
           \A t \in DOMAIN snaps : t <= s => snaps[t] = Upto(db, t)
    PROVE  ReplaySucceeds(s) /\ Materialized(s) = Upto(db, s)
<1> DEFINE base == NearestLe(s)
           span == BlocksInRange(base, s)
<1>1. AnchorSlot \in DOMAIN snaps /\ db \subseteq Blocks
  BY DEF TypeOK
<1>2. base \in DOMAIN snaps /\ base <= s /\ base \in Nat
  <2> DEFINE I == {t \in DOMAIN snaps : t <= s}
  <2>1. I \subseteq Nat /\ I # {} /\ \A t \in I : t <= s
    BY <1>1, CheckpointSlots
  <2> HIDE DEF I
  <2>2. Greatest(I) \in I
    BY <2>1, GreatestIsMax, Zenon
  <2>3. base \in I /\ base \in Nat
    BY <2>1, <2>2 DEF NearestLe, I
  <2> QED
    BY <2>3 DEF I
<1>3. snaps[base] = Upto(db, base)
  BY <1>2
<1>4. \A c \in db : Slot[c] \in Nat
  BY <1>1, SlotIsNat
<1>5. span = {c \in db : base < Slot[c] /\ Slot[c] <= s}
  BY DEF BlocksInRange
<1> HIDE DEF base, span
<1>6. ASSUME NEW b \in span
      PROVE  ExtendsState(snaps[base] \cup {c \in span : Slot[c] < Slot[b]}, b)
  <2>1. b \in db /\ base < Slot[b]
    BY <1>5
  <2>2. \A c \in snaps[base] \cup {d \in span : Slot[d] < Slot[b]} : c \in db /\ Slot[c] < Slot[b]
    BY <1>2, <1>3, <1>4, <1>5, <2>1 DEF Upto
  <2> QED
    BY <2>1, <2>2 DEF ExtendsState, Ordered
<1>7. ReplaySucceeds(s)
  BY <1>2, <1>6 DEF ReplaySucceeds, base, span
<1>8. snaps[base] \cup span = Upto(db, s)
  BY <1>2, <1>3, <1>4, <1>5 DEF Upto
<1> QED
  BY <1>7, <1>8 DEF Materialized, base, span

-----------------------------------------------------------------------------
(* Each step keeps that agreement.                                           *)

\* A freshly bootstrapped node has nothing stored and nothing logged.
LEMMA SInvInit == Init => SInv
<1> SUFFICES ASSUME Init PROVE SInv
  OBVIOUS
<1>1. wal = <<>> /\ Len(wal) = 0 /\ wal \in Seq(LogEntries)
  BY DEF Init
<1>2. Active(wal) = {} /\ Rolled(wal) = {} /\ Effective(wal) = {}
  BY <1>1 DEF Active, Rolled, Effective
<1>3. LogInv
  <2>1. LogOk(wal)
    BY <1>1, <1>2 DEF LogOk
  <2>2. Cardinality(Rolled(wal)) = 0
    BY <1>2, FS_EmptySet
  <2> QED
    BY <1>2, <2>1, <2>2 DEF Init, LogInv, Ordered
<1>4. SnapsOk
  BY <1>2, AnchorAssumption DEF Init, SnapsOk, Upto, LastSlot
<1>5. PlaceOk /\ PeerOk /\ FaultOk
  BY <1>2 DEF Init, PlaceOk, PeerOk, FaultOk, TipPoint
<1> QED
  BY <1>3, <1>4, <1>5 DEF SInv

\* A step that leaves log and checkpoints alone.
LEMMA LogKept ==
    ASSUME TypeOK, SInv, UNCHANGED <<wal, snaps>>, rollBacks' = rollBacks \/ rollBacks' = rollBacks + 1
    PROVE  LogInv' /\ SnapsOk'
<1>1. Cardinality(Rolled(wal)) \in Nat /\ rollBacks \in Nat
  BY EffectiveTyped, RolledFinite, BoundAssumption DEF TypeOK
<1>2. LogInv'
  BY <1>1 DEF SInv, LogInv
<1>3. SnapsOk'
  BY DEF SInv, SnapsOk
<1> QED
  BY <1>2, <1>3, Zenon

\* The process ends with the stores as they are.
LEMMA ExitAgrees ==
    ASSUME TypeOK, SInv, NEW f, Exit(f), UNCHANGED <<db, snaps, wal>>,
           rollBacks' = rollBacks \/ rollBacks' = rollBacks + 1,
           StoresOk',
           f \in {"none", "Pump"}
             \/ (f \in {"UnexpectedRollback", "Apply"} /\ rollBacks' = rollBacks + 1)
    PROVE  SInv'
<1>1. LogInv' /\ SnapsOk'
  BY LogKept
<1>2. pc' = "down" /\ fault' = f /\ selected' = None
  BY Zenon DEF Exit
<1>3. PlaceOk' /\ PeerOk'
  BY <1>2, Zenon DEF PlaceOk, PeerOk
<1>4. rollBacks \in Nat
  BY BoundAssumption DEF TypeOK
<1>5. FaultOk'
  BY <1>2, <1>4 DEF FaultOk
<1> QED
  BY <1>1, <1>3, <1>5 DEF SInv

\* A crash leaves a stored block without its entry, a trimmed ChainDb without its
\* entry, or nothing undone.
LEMMA CrashAgrees ==
    ASSUME TypeOK, SInv, Crash
    PROVE  SInv'
<1>1. /\ Exit("none") /\ UNCHANGED <<db, snaps, wal, rollBacks>>
      /\ crashes' = crashes + 1 /\ crashes \in Nat /\ pc # "down"
  BY BoundAssumption DEF Crash, durable, TypeOK
<1>2. crashes' > 0
  BY <1>1
<1>3. CASE pc \in {"follow", "advanceTip", "prune"}
  <2>1. StoresOk'
    BY <1>1, <1>3, Zenon DEF SInv, PlaceOk, StoresOk
  <2> QED
    BY <1>1, <2>1, ExitAgrees, Zenon
<1>4. CASE pc = "appendWal"
  <2>1. pending.block \in Blocks
    BY <1>4, EntryFields, Zenon DEF TypeOK
  <2>2. Orphan'
    BY <1>1, <1>4, <2>1 DEF SInv, PlaceOk, Orphan
  <2>3. StoresOk'
    BY <1>2, <2>2, Zenon DEF StoresOk
  <2> QED
    BY <1>1, <2>3, ExitAgrees
<1>5. CASE pc = "appendRollBack"
  <2>1. Torn' /\ Cardinality(Rolled(wal)) < rollBacks
    BY <1>1, <1>5 DEF SInv, PlaceOk, Torn
  <2>2. StoresOk'
    BY <1>1, <1>2, <2>1, Zenon DEF StoresOk
  <2> QED
    BY <1>1, <2>2, ExitAgrees
<1>6. CASE pc = "bootstrap"
  <2>1. StoresOk'
    BY <1>1, <1>2, <1>6 DEF SInv, PlaceOk, StoresOk, Orphan
  <2> QED
    BY <1>1, <2>1, ExitAgrees
<1> QED
  BY <1>1, <1>3, <1>4, <1>5, <1>6, Zenon DEF TypeOK

\* A block at hand that the store has cannot be the next one of the peer's chain while
\* the node is where its peer is.
LEMMA PumpStoredAgrees ==
    ASSUME TypeOK, SInv, NEW b \in Blocks, PumpStored(b)
    PROVE  SInv'
<1>1. /\ pc = "follow" /\ Parent[b] = cursor /\ b \in db
      /\ UNCHANGED <<db, snaps, wal, ledger, rollBacks, crashes, pc, pending, selected, fault>>
  BY DEF PumpStored, Deliver, durable, memory, bounds
<1>2. LogInv' /\ SnapsOk'
  BY <1>1, LogKept, Zenon
<1>3. PlaceOk'
  BY <1>1, Zenon DEF SInv, PlaceOk
<1>4. FaultOk'
  BY <1>1 DEF SInv, FaultOk
<1>5. rollBacks # 0
  <2> SUFFICES ASSUME rollBacks = 0 PROVE FALSE
    BY Zenon
  <2>1. b \in Effective(wal) /\ cursor = TipPoint(Effective(wal))
    BY <1>1, Zenon DEF SInv, PlaceOk, PeerOk
  <2>2. Parent[b] = Tip(Effective(wal)) /\ Tip(Effective(wal)) \in Blocks
        /\ Slot[b] <= Slot[Tip(Effective(wal))]
    BY <1>1, <2>1, EffectiveTyped, TipIsMax, Zenon DEF TipPoint
  <2> QED
    BY <2>2, SlotIsNat, TreeAssumption, AnchorAssumption
<1>6. PeerOk'
  BY <1>1, <1>5 DEF PeerOk
<1> QED
  BY <1>2, <1>3, <1>4, <1>6 DEF SInv

\* pump_block stores a block above the chain and makes its log entry.
LEMMA PumpAdmitAgrees ==
    ASSUME TypeOK, EntriesOk, SInv, NEW b \in Blocks, PumpAdmit(b)
    PROVE  SInv'
<1>1. /\ pc = "follow" /\ cursor' = b /\ b \notin db /\ ExtendsState(ledger, b)
      /\ db' = db \cup {b} /\ ledger' = ledger \cup {b} /\ priorFp' = Fingerprint(ledger')
      /\ pending' = AdmitBlock(priorFp, b, priorFp') /\ pc' = "appendWal"
      /\ UNCHANGED <<snaps, wal, rollBacks, crashes, selected, fault>>
  BY Zenon DEF PumpAdmit, Deliver, Admissible, bounds
<1>2. db = Effective(wal) /\ ledger = Effective(wal) /\ priorFp = Fingerprint(ledger)
  BY <1>1 DEF SInv, PlaceOk, EntriesOk
<1>3. /\ pending'.block = b /\ pending'.prior_fp = Fingerprint(Effective(wal))
      /\ pending'.post_fp = Fingerprint(ledger')
  BY <1>1, <1>2 DEF AdmitBlock
<1>4. LogInv' /\ SnapsOk'
  BY <1>1, LogKept, Zenon
<1>5. PlaceOk'
  BY <1>1, <1>2, <1>3, Zenon DEF PlaceOk
<1>6. PeerOk'
  BY <1>1, <1>3 DEF PeerOk
<1>7. FaultOk'
  BY <1>1 DEF SInv, FaultOk
<1> QED
  BY <1>4, <1>5, <1>6, <1>7, Zenon DEF SInv

\* The log catches up with the ChainDb.
LEMMA AppendWalAgrees ==
    ASSUME TypeOK, SInv, AppendWal
    PROVE  SInv'
<1> DEFINE E == Effective(wal)
           b == pending.block
<1>1. /\ pc = "appendWal" /\ pc' = "advanceTip" /\ wal' = Append(wal, pending)
      /\ UNCHANGED <<db, snaps, ledger, rollBacks, crashes, pending, cursor, fault>>
  BY Zenon DEF AppendWal, memory, bounds
<1>2. /\ wal \in Seq(LogEntries) /\ pending \in LogEntries /\ IsAdmit(pending)
      /\ E \subseteq Blocks /\ b \in Blocks
  BY <1>1, EffectiveTyped, EntryFields, Zenon DEF TypeOK
<1>3. /\ ledger = db /\ db = E \cup {b} /\ b \notin E /\ ExtendsState(E, b)
      /\ pending.prior_fp = Fingerprint(E) /\ pending.post_fp = Fingerprint(E \cup {b})
  BY <1>1, Zenon DEF SInv, PlaceOk
<1>4. Effective(wal') = E \cup {b}
  BY <1>1, <1>2, EffectiveAdmit, Zenon
<1>5. LogOk(wal')
  <2>1. LogOk(wal) /\ \A c \in E : Slot[c] < Slot[b]
    BY <1>3, Zenon DEF SInv, LogInv, ExtendsState
  <2> QED
    BY <1>1, <1>2, <1>3, <2>1, LogAdmit
<1>6. /\ Ordered(E \cup {b}) /\ TipPoint(E \cup {b}) = b
      /\ LastSlot(E \cup {b}) = Slot[b] /\ LastSlot(E) < Slot[b]
  BY <1>2, <1>3, OrderedExtend, Zenon DEF SInv, LogInv
<1>7. Rolled(wal') = Rolled(wal)
  BY <1>1, <1>2, RolledAdmit
<1>8. LogInv'
  BY <1>1, <1>4, <1>5, <1>6, <1>7, Zenon DEF SInv, LogInv
<1>9. SnapsOk'
  <2> SUFFICES ASSUME NEW s \in DOMAIN snaps
               PROVE  s <= Slot[b] /\ snaps[s] = Upto(E \cup {b}, s)
    BY <1>1, <1>4, <1>6, Zenon DEF SnapsOk
  <2>1. s \in Nat /\ s <= LastSlot(E) /\ snaps[s] = Upto(E, s) /\ LastSlot(E) \in Nat /\ Slot[b] \in Nat
    BY <1>2, CheckpointSlots, LastSlotIsNat, SlotIsNat DEF SInv, SnapsOk
  <2> HIDE DEF E, b
  <2> QED
    BY <1>6, <2>1 DEF Upto
<1>10. PlaceOk'
  BY <1>1, <1>3, <1>4, Zenon DEF PlaceOk
<1>11. PeerOk'
  BY <1>1, <1>4, <1>6 DEF SInv, PeerOk
<1>12. FaultOk'
  BY <1>1 DEF SInv, FaultOk
<1> QED
  BY <1>8, <1>9, <1>10, <1>11, <1>12, Zenon DEF SInv

\* The tip is reported once block and entry are durable.
LEMMA AdvanceTipAgrees ==
    ASSUME TypeOK, SInv, AdvanceTip
    PROVE  SInv'
<1>1. /\ pc = "advanceTip" /\ pc' = "follow" /\ selected' = pending.block
      /\ UNCHANGED <<db, snaps, wal, ledger, rollBacks, crashes, cursor, fault>>
  BY DEF AdvanceTip, durable, memory, bounds
<1>2. LogInv' /\ SnapsOk'
  BY <1>1, LogKept, Zenon
<1>3. PlaceOk' /\ FaultOk'
  BY <1>1, Zenon DEF SInv, PlaceOk, FaultOk
<1>4. PeerOk'
  BY <1>1 DEF SInv, PeerOk
<1> QED
  BY <1>2, <1>3, <1>4 DEF SInv

\* The pass ends without a checkpoint, or the peer goes back to where the node started.
LEMMA AtRestAgrees ==
    ASSUME TypeOK, SInv, EndPassWithoutCapture \/ \E p : RollBackNoOp(p)
    PROVE  SInv'
<1>1. /\ pc = "follow" /\ pc' = "follow"
      /\ UNCHANGED <<db, snaps, wal, ledger, crashes, fault>>
  BY DEF EndPassWithoutCapture, RollBackNoOp, RollBackward, durable, memory, bounds
<1>2. \/ rollBacks' = rollBacks /\ cursor' = cursor /\ selected' = None
      \/ rollBacks' = rollBacks + 1
  BY DEF EndPassWithoutCapture, RollBackNoOp, RollBackward, bounds
<1>3. rollBacks \in Nat
  BY BoundAssumption DEF TypeOK
<1>4. LogInv' /\ SnapsOk'
  BY <1>1, <1>2, LogKept, Zenon
<1>5. PlaceOk'
  BY <1>1 DEF SInv, PlaceOk
<1>6. FaultOk'
  BY <1>1, <1>2, <1>3 DEF SInv, FaultOk
<1>7. PeerOk'
  BY <1>1, <1>2, <1>3 DEF SInv, PeerOk
<1> QED
  BY <1>4, <1>5, <1>6, <1>7 DEF SInv

\* On a node with no checkpoint of its own a rollback arrives at the chain up to its
\* target.
LEMMA RollBackCommitAgrees ==
    ASSUME TypeOK, SInv, NEW p, RollBackCommit(p), Calm'
    PROVE  SInv'
<1> DEFINE E == Effective(wal)
<1>1. /\ pc = "follow" /\ p \in db /\ db' = Upto(db, Slot[p]) /\ ledger' = Materialized(Slot[p])
      /\ pending' = RollBack(p) /\ pc' = "appendRollBack" /\ rollBacks' = rollBacks + 1
      /\ UNCHANGED <<snaps, wal, crashes, fault>>
  BY Zenon DEF RollBackCommit, RollBackward
<1>2. rollBacks \in Nat /\ Cardinality(Rolled(wal)) \in Nat /\ Cardinality(Rolled(wal)) <= rollBacks
  BY RollBackCounts, Zenon
<1>3. DOMAIN snaps = {AnchorSlot}
  BY <1>1, <1>2 DEF Calm
<1>4. db = E /\ Ordered(db) /\ p \in Blocks
  BY <1>1, Zenon DEF SInv, PlaceOk, LogInv, TypeOK
<1>5. Slot[p] \in Nat /\ AnchorSlot <= Slot[p]
  BY <1>4, SlotIsNat
<1>6. \A t \in DOMAIN snaps : snaps[t] = Upto(db, t)
  BY <1>4 DEF SInv, SnapsOk
<1>7. ledger' = db'
  BY <1>1, <1>4, <1>5, <1>6, Materializes, Zenon
<1>8. LogInv' /\ SnapsOk'
  BY <1>1, LogKept, Zenon
<1>9. PlaceOk'
  <2>1. pending'.to_point = p
    BY <1>1 DEF RollBack
  <2>2. Cardinality(Rolled(wal)) < rollBacks'
    BY <1>1, <1>2
  <2> QED
    BY <1>1, <1>4, <1>7, <2>1, <2>2, Zenon DEF PlaceOk
<1>10. PeerOk'
  BY <1>1, <1>2 DEF PeerOk
<1>11. FaultOk'
  BY <1>1, <1>2 DEF SInv, FaultOk
<1> QED
  BY <1>8, <1>9, <1>10, <1>11, Zenon DEF SInv

\* The log catches up with the trimmed ChainDb.
LEMMA AppendRollBackAgrees ==
    ASSUME TypeOK, SInv, AppendRollBack, Calm
    PROVE  SInv'
<1> DEFINE E == Effective(wal)
           p == pending.to_point
<1>1. /\ pc = "appendRollBack" /\ pc' = "follow" /\ wal' = Append(wal, pending)
      /\ UNCHANGED <<db, snaps, ledger, rollBacks, crashes, fault>>
  BY Zenon DEF AppendRollBack, memory, bounds
<1>2. /\ wal \in Seq(LogEntries) /\ pending \in LogEntries /\ IsRollBack(pending)
      /\ E \subseteq Blocks /\ p \in Blocks
  BY <1>1, EffectiveTyped, EntryFields, Zenon DEF TypeOK
<1>3. /\ ledger = db /\ p \in E /\ db = Upto(E, Slot[p])
      /\ Cardinality(Rolled(wal)) < rollBacks
  BY <1>1, Zenon DEF SInv, PlaceOk
<1>4. Effective(wal') = Upto(E, Slot[p])
  BY <1>1, <1>2, EffectiveRollBack, Zenon
<1>5. rollBacks \in Nat /\ Cardinality(Rolled(wal)) \in Nat /\ rollBacks # 0
  BY <1>3, RollBackCounts, Zenon
<1>6. LogInv'
  <2>1. LogOk(wal')
    BY <1>1, <1>2, <1>3, LogRollBack, Zenon DEF SInv, LogInv
  <2>2. Ordered(Upto(E, Slot[p]))
    BY Zenon DEF SInv, LogInv, Ordered, Upto
  <2>3. Cardinality(Rolled(wal')) <= rollBacks
    BY <1>1, <1>2, <1>3, <1>5, RolledRollBack
  <2> QED
    BY <1>1, <1>4, <2>1, <2>2, <2>3, Zenon DEF LogInv
<1>7. SnapsOk'
  <2>1. DOMAIN snaps = {AnchorSlot}
    BY <1>5 DEF Calm
  <2>2. snaps[AnchorSlot] = Upto(E, AnchorSlot)
    BY <2>1, Zenon DEF SInv, SnapsOk
  <2>3. Upto(E, Slot[p]) \subseteq Blocks
    BY <1>2 DEF Upto
  <2>4. AnchorSlot <= LastSlot(Upto(E, Slot[p]))
    BY <2>3, LastSlotBounds
  <2>5. Upto(Upto(E, Slot[p]), AnchorSlot) = Upto(E, AnchorSlot)
    <3>1. AnchorSlot < Slot[p] /\ Slot[p] \in Nat /\ AnchorSlot \in Nat
      BY <1>2, SlotIsNat
    <3>2. \A c \in E : Slot[c] \in Nat
      BY <1>2, SlotIsNat, Zenon
    <3> HIDE DEF E, p
    <3> QED
      BY <3>1, <3>2 DEF Upto
  <2> QED
    BY <1>1, <1>4, <2>1, <2>2, <2>4, <2>5, Zenon DEF SnapsOk
<1>8. PlaceOk'
  BY <1>1, <1>3, <1>4 DEF PlaceOk
<1>9. PeerOk'
  BY <1>1, <1>5 DEF PeerOk
<1>10. FaultOk'
  BY <1>1 DEF SInv, FaultOk
<1> QED
  BY <1>6, <1>7, <1>8, <1>9, <1>10 DEF SInv

\* The checkpoint taken is the state at the tip.
LEMMA CaptureAgrees ==
    ASSUME TypeOK, SInv, Capture, Calm'
    PROVE  SInv'
<1> DEFINE E == Effective(wal)
           t == Slot[selected]
<1>1. /\ pc = "follow" /\ pc' = "prune" /\ selected # None /\ selected' = None
      /\ snaps' = [s \in DOMAIN snaps \cup {t} |-> IF s = t THEN ledger ELSE snaps[s]]
      /\ UNCHANGED <<db, wal, ledger, rollBacks, crashes, cursor, fault>>
  BY Zenon DEF Capture, CaptureSlot, memory, bounds
<1>2. selected \in Blocks /\ db = E /\ ledger = E /\ E \subseteq Blocks
  BY <1>1, EffectiveTyped, Zenon DEF TypeOK, SInv, PlaceOk
<1>3. rollBacks = 0
  <2>1. t \in DOMAIN snaps' /\ t # AnchorSlot
    BY <1>1, <1>2, SlotIsNat
  <2> QED
    BY <1>1, <2>1, Zenon DEF Calm
<1>4. selected = Tip(E) /\ E # {}
  <2>1. selected = TipPoint(E)
    BY <1>1, <1>3 DEF SInv, PeerOk
  <2> QED
    BY <1>2, <2>1, AnchorAssumption, Zenon DEF TipPoint
<1>5. LastSlot(E) = t /\ t \in Nat
  BY <1>2, <1>4, SlotIsNat DEF LastSlot
<1>6. E = Upto(E, t)
  BY <1>2, <1>4, TipIsMax, Zenon DEF Upto
<1>7. LogInv'
  BY <1>1 DEF SInv, LogInv
<1>8. SnapsOk'
  <2>0. Effective(wal') = E
    BY <1>1, Zenon
  <2> SUFFICES ASSUME NEW s \in DOMAIN snaps' PROVE s <= LastSlot(E) /\ snaps'[s] = Upto(E, s)
    BY <2>0, Zenon DEF SnapsOk
  <2> HIDE DEF t, E
  <2>1. CASE s = t
    BY <1>1, <1>2, <1>5, <1>6, <2>1
  <2>2. CASE s # t
    <3>1. s \in DOMAIN snaps /\ snaps'[s] = snaps[s]
      BY <1>1, <2>2, Zenon
    <3> QED
      BY <3>1 DEF SInv, SnapsOk, E
  <2> QED
    BY <2>1, <2>2
<1>9. PlaceOk'
  BY <1>1, <1>2, Zenon DEF PlaceOk
<1>10. PeerOk'
  BY <1>1, Zenon DEF SInv, PeerOk
<1>11. FaultOk'
  BY <1>1 DEF SInv, FaultOk
<1> QED
  BY <1>7, <1>8, <1>9, <1>10, <1>11, Zenon DEF SInv

\* A checkpoint fewer.
LEMMA PruneAgrees ==
    ASSUME TypeOK, SInv, PruneRecoveryCheckpoints
    PROVE  SInv'
<1>1. /\ pc = "prune" /\ pc' \in {"follow", "prune"}
      /\ UNCHANGED <<db, wal, ledger, rollBacks, crashes, selected, cursor, fault>>
  BY DEF PruneRecoveryCheckpoints, memory, bounds
<1>2. \A s \in DOMAIN snaps' : s \in DOMAIN snaps /\ snaps'[s] = snaps[s]
  <2>1. snaps' = snaps \/ \E d : snaps' = [s \in DOMAIN snaps \ {d} |-> snaps[s]]
    BY Zenon DEF PruneRecoveryCheckpoints
  <2> QED
    BY <2>1, Zenon
<1>3. LogInv'
  BY <1>1 DEF SInv, LogInv
<1>4. SnapsOk'
  BY <1>1, <1>2, Zenon DEF SInv, SnapsOk
<1>5. PlaceOk' /\ FaultOk'
  BY <1>1, Zenon DEF SInv, PlaceOk, FaultOk
<1>6. PeerOk'
  BY <1>1 DEF SInv, PeerOk
<1> QED
  BY <1>3, <1>4, <1>5, <1>6, Zenon DEF SInv

\* An error of the relay loop ends the process with ChainDb and log in step.
LEMMA RefusalAgrees ==
    ASSUME TypeOK, SInv, PumpRefuse \/ \E p : RollBackUnknown(p) \/ RollBackFail(p)
    PROVE  SInv'
<1>1. pc = "follow" /\ UNCHANGED <<db, snaps, wal, crashes>>
  BY Zenon DEF PumpRefuse, RollBackUnknown, RollBackFail, RollBackward, durable, bounds
<1>2. StoresOk'
  BY <1>1 DEF SInv, PlaceOk, StoresOk
<1>3. CASE PumpRefuse
  BY <1>1, <1>2, <1>3, ExitAgrees DEF PumpRefuse, bounds
<1>4. CASE \E p : RollBackUnknown(p) \/ RollBackFail(p)
  <2>1. /\ rollBacks' = rollBacks + 1
        /\ Exit("UnexpectedRollback") \/ Exit("Apply")
    BY <1>4 DEF RollBackUnknown, RollBackFail, RollBackward
  <2> QED
    BY <1>1, <1>2, <2>1, ExitAgrees, Zenon
<1> QED
  BY <1>3, <1>4

\* Replay of the log and the trim to its tail leave the chain of the log, or an orphan
\* below the slot of a block that a rollback undid.
LEMMA WarmStartReplayAgrees ==
    ASSUME TypeOK, EntriesOk, SInv, WarmStartReplay
    PROVE  SInv'
<1> DEFINE E == Effective(wal)
           T == WalTailSlot(wal)
<1>1. pc = "down" /\ UNCHANGED <<snaps, wal, rollBacks, crashes>> /\ StoresOk
  BY DEF WarmStartReplay, bounds, SInv, PlaceOk
<1>2. LogInv' /\ SnapsOk'
  BY <1>1, LogKept
<1>3. wal \in Seq(LogEntries) /\ E \subseteq Blocks /\ SupersedeOk(wal)
  BY EffectiveTyped, WrittenLogReplays DEF SInv, LogInv
<1>4. CASE ReplayFault = "none"
  <2>1. /\ pc' = "bootstrap" /\ fault' = "none" /\ db' = Upto(db, T)
        /\ UNCHANGED <<selected, cursor>>
    BY <1>4 DEF WarmStartReplay
  <2>2. E \subseteq db /\ WalkOk(wal)
    BY <1>4 DEF ReplayFault
  <2>3. \A c \in E : Slot[c] <= T
    BY <1>3, <2>2, TailSlotCoversLog DEF EntriesOk
  <2> HIDE DEF T
  <2>4. db' = E \/ (Orphan' /\ crashes > 0 /\ Rolled(wal) # {})
    <3>1. CASE db = E
      BY <2>1, <2>3, <3>1 DEF Upto
    <3>2. CASE Orphan /\ crashes > 0
      <4>1. PICK b \in Blocks \ E : db = E \cup {b} /\ ExtendsState(E, b)
        BY <3>2 DEF Orphan
      <4>2. CASE Slot[b] <= T
        <5>1. db' = E \cup {b}
          BY <2>1, <2>3, <4>1, <4>2 DEF Upto
        <5>2. Orphan'
          BY <1>1, <4>1, <5>1, Zenon DEF Orphan
        <5>3. Rolled(wal) # {}
          <6> SUFFICES ASSUME Rolled(wal) = {} PROVE FALSE
            OBVIOUS
          <6>1. \A j \in 1..Len(wal) : ~IsRollBack(wal[j])
            BY Zenon DEF Rolled
          <6>2. T \in Nat /\ T < Slot[b]
            BY <1>3, <4>1, <6>1, TailSlotWithoutRollBacks DEF ExtendsState, T
          <6> QED
            BY <4>1, <4>2, <6>2, SlotIsNat
        <5> QED
          BY <3>2, <5>2, <5>3
      <4>3. CASE ~(Slot[b] <= T)
        BY <2>1, <2>3, <4>1, <4>3 DEF Upto
      <4> QED
        BY <4>2, <4>3
    <3>3. CASE Torn
      <4>1. db = E
        BY <2>2, <3>3, Zenon DEF Torn, Upto
      <4> QED
        BY <3>1, <4>1
    <3> QED
      BY <1>1, <3>1, <3>2, <3>3 DEF StoresOk
  <2>5. PlaceOk'
    BY <1>1, <2>1, <2>2, <2>4, Zenon DEF PlaceOk
  <2>6. PeerOk'
    BY <1>1, <2>1 DEF SInv, PeerOk
  <2>7. FaultOk'
    BY <2>1 DEF FaultOk
  <2> QED
    BY <1>2, <2>5, <2>6, <2>7, Zenon DEF SInv
<1>5. CASE ReplayFault # "none"
  <2>1. Exit(ReplayFault) /\ db' = db
    BY <1>5 DEF WarmStartReplay
  <2>2. pc' = "down" /\ fault' = ReplayFault /\ selected' = None
    BY <2>1 DEF Exit
  <2>3. \/ ReplayFault = "WarmStartWalReplay" /\ ~WalkOk(wal)
        \/ ReplayFault = "DurableBlockBytesMissing" /\ ~(E \subseteq db)
    BY <1>3, <1>5, Zenon DEF ReplayFault
  <2>4. StoresOk'
    BY <1>1, <2>1, Zenon DEF StoresOk, Orphan, Torn
  <2>5. PlaceOk' /\ PeerOk'
    BY <2>2, <2>4 DEF PlaceOk, PeerOk
  <2>6. FaultOk'
    BY <1>1, <2>1, <2>2, <2>3 DEF FaultOk
  <2> QED
    BY <1>2, <2>5, <2>6 DEF SInv
<1> QED
  BY <1>4, <1>5, Zenon

\* bootstrap_initial_state materializes the reconciled ChainDb; the fingerprint at the
\* tail of the log refuses an orphan and nothing else.
LEMMA BootstrapAgrees ==
    ASSUME TypeOK, SInv, BootstrapInitialState
    PROVE  SInv'
<1> DEFINE E == Effective(wal)
           s == BootstrapSlot
<1>1. /\ pc = "bootstrap" /\ UNCHANGED <<db, snaps, wal, rollBacks, crashes>> /\ WalkOk(wal)
      /\ db = E \/ (Orphan /\ crashes > 0 /\ Rolled(wal) # {})
  BY Zenon DEF BootstrapInitialState, durable, bounds, SInv, PlaceOk
<1>2. LogInv' /\ SnapsOk'
  BY <1>1, LogKept, Zenon
<1>3. /\ wal \in Seq(LogEntries) /\ E \subseteq Blocks /\ db \subseteq Blocks
      /\ Ordered(E) /\ TailFp(wal) = Fingerprint(E)
  BY EffectiveTyped, WrittenLogReplays, Zenon DEF SInv, LogInv, TypeOK
<1>4. /\ Ordered(db) /\ E \subseteq db
      /\ \A c \in db : c \in E \/ LastSlot(E) < Slot[c]
      /\ db # E => LastSlot(db) # LastSlot(E) /\ db # {}
  <2>1. CASE db = E
    BY <1>3, <2>1, Zenon
  <2>2. CASE Orphan
    <3>1. PICK b \in Blocks \ E : db = E \cup {b} /\ ExtendsState(E, b)
      BY <2>2 DEF Orphan
    <3>2. Ordered(E \cup {b}) /\ LastSlot(E \cup {b}) = Slot[b] /\ LastSlot(E) < Slot[b]
      BY <1>3, <3>1, OrderedExtend, Zenon
    <3>3. LastSlot(E) \in Nat /\ Slot[b] \in Nat
      BY <1>3, LastSlotIsNat, SlotIsNat, Zenon
    <3> QED
      BY <3>1, <3>2, <3>3
  <2> QED
    BY <1>1, <2>1, <2>2, Zenon
<1>5. \A t \in DOMAIN snaps : t \in Nat /\ t <= LastSlot(E) /\ snaps[t] = Upto(db, t)
  <2> SUFFICES ASSUME NEW t \in DOMAIN snaps
               PROVE  t \in Nat /\ t <= LastSlot(E) /\ snaps[t] = Upto(db, t)
    OBVIOUS
  <2>1. t \in Nat /\ t <= LastSlot(E) /\ snaps[t] = Upto(E, t) /\ LastSlot(E) \in Nat
    BY <1>3, CheckpointSlots, LastSlotIsNat, Zenon DEF SInv, SnapsOk
  <2>2. \A c \in db : Slot[c] \in Nat
    BY <1>3, SlotIsNat
  <2> HIDE DEF E
  <2> QED
    BY <1>4, <2>1, <2>2 DEF Upto
<1>6. s \in Nat /\ AnchorSlot <= s /\ Upto(db, s) = db
  <2>1. CASE db = {}
    <3>1. LastSlot(E) = AnchorSlot
      BY <1>4, <2>1, Zenon DEF LastSlot
    <3>2. AnchorSlot \in DOMAIN snaps /\ \A t \in DOMAIN snaps : t <= AnchorSlot /\ t \in Nat
      BY <1>5, <3>1, Zenon DEF TypeOK
    <3>3. Greatest(DOMAIN snaps) \in DOMAIN snaps
      BY <3>2, GreatestIsMax, AnchorAssumption
    <3>4. s \in DOMAIN snaps
      BY <2>1, <3>3 DEF BootstrapSlot
    <3> QED
      BY <2>1, <3>4, CheckpointSlots, Zenon DEF Upto
  <2>2. CASE db # {}
    <3>1. s = Slot[Tip(db)] /\ Tip(db) \in Blocks /\ \A c \in db : Slot[c] <= s
      BY <1>3, <2>2, TipIsMax, Zenon DEF BootstrapSlot
    <3> HIDE DEF s
    <3> QED
      BY <3>1, SlotIsNat DEF Upto
  <2> QED
    BY <2>1, <2>2
<1>7. ReplaySucceeds(s) /\ Materialized(s) = db
  BY <1>4, <1>5, <1>6, Materializes, Zenon
<1>8. CASE db = E
  <2>1. BootstrapFault = "none"
    BY <1>3, <1>7, <1>8 DEF BootstrapFault
  <2>2. /\ pc' = "follow" /\ ledger' = db /\ cursor' = TipPoint(db)
        /\ UNCHANGED <<selected, fault>>
    BY <1>7, <2>1, Zenon DEF BootstrapInitialState, LiveFollowStart
  <2>3. PlaceOk' /\ PeerOk'
    BY <1>1, <1>8, <2>2, Zenon DEF PlaceOk, PeerOk, SInv
  <2>4. FaultOk'
    BY <1>1, <2>2, Zenon DEF SInv, FaultOk
  <2> QED
    BY <1>2, <2>3, <2>4 DEF SInv
<1>9. CASE db # E
  <2>1. Orphan /\ crashes > 0 /\ Rolled(wal) # {}
    BY <1>1, <1>9
  <2>2. Active(wal) # {}
    BY <1>1, <1>3, <2>1, NothingStands, Zenon DEF Rolled
  <2>3. Fingerprint(db) # Fingerprint(E)
    BY <1>4, <1>9 DEF Fingerprint
  <2>4. BootstrapFault = "FingerprintMismatch"
    BY <1>3, <1>7, <2>2, <2>3, Zenon DEF BootstrapFault
  <2>5. pc' = "down" /\ fault' = "FingerprintMismatch" /\ selected' = None
    BY <2>4 DEF BootstrapInitialState, Exit
  <2>6. Orphan' /\ crashes' > 0 /\ Rolled(wal') # {}
    BY <1>1, <2>1, Zenon DEF Orphan
  <2>7. PlaceOk' /\ PeerOk'
    BY <2>5, <2>6, Zenon DEF PlaceOk, StoresOk, PeerOk
  <2>8. FaultOk'
    BY <2>5, <2>6 DEF FaultOk
  <2> QED
    BY <1>2, <2>7, <2>8 DEF SInv
<1> QED
  BY <1>8, <1>9, Zenon

\* A step that leaves the node as it is.
LEMMA StutterAgrees ==
    ASSUME TypeOK, SInv, UNCHANGED vars
    PROVE  SInv'
<1>1. UNCHANGED <<db, snaps, wal, ledger, rollBacks, crashes, pc, pending, selected, cursor, fault>>
  BY DEF vars, durable, memory, bounds
<1>2. LogInv' /\ SnapsOk'
  BY <1>1, LogKept, Zenon
<1>3. PlaceOk'
  BY <1>1, Zenon DEF SInv, PlaceOk, StoresOk, Orphan, Torn
<1>4. PeerOk' /\ FaultOk'
  BY <1>1, Zenon DEF SInv, PeerOk, FaultOk, Orphan
<1> QED
  BY <1>2, <1>3, <1>4 DEF SInv

\* The inductive invariant of the spine.
CalmInv == IInv /\ (Calm => SInv)

\* Every step of a calm node keeps stores, memory and log in agreement.
LEMMA CalmStep ==
    ASSUME IInv, Calm => SInv, [Next]_vars, Calm'
    PROVE  SInv'
<1>1. TypeOK /\ EntriesOk /\ Calm /\ SInv
  BY CalmBefore DEF IInv
<1>2. CASE PumpBlock
  BY <1>1, <1>2, RefusalAgrees, PumpStoredAgrees, PumpAdmitAgrees, Zenon DEF PumpBlock
<1>3. CASE FollowRollBack
  BY <1>1, <1>3, AtRestAgrees, RefusalAgrees, RollBackCommitAgrees, Zenon DEF FollowRollBack
<1>4. CASE Capture \/ EndPassWithoutCapture
  BY <1>1, <1>4, CaptureAgrees, AtRestAgrees
<1>5. CASE Proceed
  BY <1>1, <1>5, AppendWalAgrees, AdvanceTipAgrees, AppendRollBackAgrees, PruneAgrees,
     WarmStartReplayAgrees, BootstrapAgrees, Zenon DEF Proceed
<1>6. CASE Crash
  BY <1>1, <1>6, CrashAgrees
<1>7. CASE UNCHANGED vars
  BY <1>1, <1>7, StutterAgrees
<1> QED
  BY <1>2, <1>3, <1>4, <1>5, <1>6, <1>7, Zenon DEF Next

\* A calm node's stores, memory and log agree in every reachable state.
LEMMA CalmInductive == Spec => []CalmInv
<1>1. Init => CalmInv
  BY IInvInit, SInvInit DEF CalmInv
<1>2. CalmInv /\ [Next]_vars => CalmInv'
  <2> SUFFICES ASSUME CalmInv, [Next]_vars PROVE CalmInv'
    OBVIOUS
  <2>1. IInv'
    BY TypeStep, EntriesOkStep, AckedHeldStep DEF IInv, CalmInv
  <2>2. Calm' => SInv'
    BY CalmStep DEF CalmInv
  <2> QED
    BY <2>1, <2>2 DEF CalmInv
<1> QED
  BY <1>1, <1>2, PTL DEF Spec

\* DC-WAL-04, DC-SYNC-01: while the node is calm, reconcile_chaindb_to_wal and the order
\* of the writes keep the ChainDb at exactly the blocks the log stands for whenever the
\* relay loop runs, for every tree of blocks and any number of crashes.
THEOREM StoresAgree == Spec => [](Calm => DbMatchesWal)
<1>1. CalmInv => (Calm => DbMatchesWal)
  BY Zenon DEF CalmInv, SInv, PlaceOk, DbMatchesWal, AtRest
<1> QED
  BY <1>1, CalmInductive, PTL

\* DC-CONS-20, T-REC-01: while the node is calm, the ledger in memory is the state of the
\* stored chain after every admit, rollback and warm start.
THEOREM LedgerFollowsStore == Spec => [](Calm => LedgerMatchesDb)
<1>1. CalmInv => (Calm => LedgerMatchesDb)
  BY Zenon DEF CalmInv, SInv, PlaceOk, LedgerMatchesDb, AtRest
<1> QED
  BY <1>1, CalmInductive, PTL

\* DC-WAL-02: while the node is calm, the fingerprint the next AdmitBlock will chain from
\* is the one a replay of the log arrives at.
THEOREM FingerprintChains == Spec => [](Calm => FingerprintAtTail)
<1>1. CalmInv => (Calm => FingerprintAtTail)
  <2> SUFFICES ASSUME CalmInv, Calm, AtRest PROVE priorFp = TailFp(wal)
    BY Zenon DEF FingerprintAtTail
  <2>1. priorFp = Fingerprint(ledger) /\ wal \in Seq(LogEntries)
    BY Zenon DEF CalmInv, IInv, EntriesOk, TypeOK
  <2>2. ledger = Effective(wal) /\ LogOk(wal)
    BY Zenon DEF CalmInv, SInv, PlaceOk, LogInv, AtRest
  <2> QED
    BY <2>1, <2>2, WrittenLogReplays
<1> QED
  BY <1>1, CalmInductive, PTL

\* DC-CONS-06: while the node is calm, every checkpoint at or below the tip is what a
\* replay from the anchor reaches at its slot, in every state, crashed ones included.
THEOREM CheckpointsFaithful == Spec => [](Calm => SnapshotsFaithful)
<1>1. CalmInv => (Calm => SnapshotsFaithful)
  <2> SUFFICES ASSUME CalmInv, Calm, NEW s \in DOMAIN snaps PROVE snaps[s] = Upto(db, s)
    BY DEF SnapshotsFaithful
  <2> DEFINE E == Effective(wal)
  <2>1. TypeOK /\ SInv
    BY Zenon DEF CalmInv, IInv
  <2>2. E \subseteq Blocks /\ db \subseteq Blocks /\ s \in Nat /\ LastSlot(E) \in Nat
    BY <2>1, EffectiveTyped, CheckpointSlots, LastSlotIsNat, Zenon DEF TypeOK
  <2>3. s <= LastSlot(E) /\ snaps[s] = Upto(E, s)
    BY <2>1 DEF SInv, SnapsOk
  <2>4. CASE db = E
    BY <2>3, <2>4, Zenon
  <2>5. CASE Orphan
    <3>1. PICK b \in Blocks \ E : db = E \cup {b} /\ ExtendsState(E, b)
      BY <2>5, Zenon DEF Orphan
    <3>2. LastSlot(E) < Slot[b] /\ Slot[b] \in Nat
      BY <2>1, <2>2, <3>1, OrderedExtend, SlotIsNat, Zenon DEF SInv, LogInv
    <3> HIDE DEF E
    <3> QED
      BY <2>2, <2>3, <3>1, <3>2 DEF Upto
  <2>6. CASE Torn /\ rollBacks # 0
    <3>1. s = AnchorSlot
      BY <2>6 DEF Calm
    <3>2. Upto(E, s) = {} /\ Upto(db, s) = {}
      BY <2>2, <3>1, NothingUptoAnchor, Zenon
    <3> QED
      BY <2>3, <3>2, Zenon
  <2> QED
    BY <2>1, <2>4, <2>5, <2>6, StoreShapes, Zenon
<1> QED
  BY <1>1, CalmInductive, PTL

\* T-REC-01: a warm start of a calm node refuses only for the reasons RefusalsExplained
\* names: a log with a deeper rollback after another, a crash between the trim and the
\* log entry of a rollback, and an orphan left after a rollback.
THEOREM RefusalsHaveCauses == Spec => [](Calm => RefusalsExplained)
<1>1. CalmInv => (Calm => RefusalsExplained)
  <2> SUFFICES ASSUME CalmInv, Calm PROVE RefusalsExplained
    BY Zenon
  <2>1. TypeOK /\ SInv /\ wal \in Seq(LogEntries)
    BY DEF CalmInv, IInv, TypeOK
  <2>2. CheckpointReplays
    BY <2>1 DEF SInv, FaultOk, CheckpointReplays
  <2>3. ASSUME ~LogReplays
        PROVE  \E i, j \in Rolled(wal) :
                  i < j /\ Slot[wal[j].to_point] < Slot[wal[i].to_point]
    <3>1. ~WalkOk(wal) /\ LogOk(wal)
      BY <2>1, <2>3 DEF SInv, FaultOk, LogReplays, LogInv
    <3>2. \E j, k \in 1..Len(wal) : j < k /\ IsRollBack(wal[j]) /\ Deeper(wal, j, k)
      BY <2>1, <3>1, WrittenLogReplays
    <3> QED
      BY <3>2 DEF Deeper, Rolled
  <2>4. ASSUME ~BytesOutlastLog
        PROVE  crashes > 0 /\ rollBacks > Cardinality(Rolled(wal))
    <3>1. pc = "down" /\ ~(Effective(wal) \subseteq db) /\ StoresOk
      BY <2>1, <2>4, Zenon DEF SInv, FaultOk, PlaceOk, BytesOutlastLog
    <3>2. Torn /\ crashes > 0 /\ Cardinality(Rolled(wal)) < rollBacks
      BY <3>1, Zenon DEF StoresOk, Orphan
    <3>3. Cardinality(Rolled(wal)) \in Nat /\ rollBacks \in Nat
      BY <2>1, RollBackCounts, Zenon
    <3> QED
      BY <3>2, <3>3, Zenon
  <2>5. ASSUME ~OrphanReconciled
        PROVE  crashes > 0 /\ Rolled(wal) # {} /\ db # Effective(wal)
    <3>1. Orphan /\ crashes > 0 /\ Rolled(wal) # {}
      BY <2>1, <2>5 DEF SInv, FaultOk, OrphanReconciled
    <3> QED
      BY <3>1 DEF Orphan
  <2> QED
    BY <2>2, <2>3, <2>4, <2>5 DEF RefusalsExplained, Rolled
<1> QED
  BY <1>1, CalmInductive, PTL

\* Until the first rollback the node's tip is where its peer's chain-sync pointer is,
\* through any number of checkpoints, crashes and warm starts.
THEOREM NodeFollowsPeer == Spec => [](rollBacks = 0 => FollowsPeer)
<1>1. CalmInv => (rollBacks = 0 => FollowsPeer)
  BY Zenon DEF CalmInv, Calm, SInv, PlaceOk, PeerOk, FollowsPeer, AtRest
<1> QED
  BY <1>1, CalmInductive, PTL

\* T-REC-01: until the first rollback no warm start refuses; only the refusal of a block
\* by the pump ends the process.
THEOREM RecoveryNeverRefuses == Spec => [](rollBacks = 0 => fault \in {"none", "Pump"})
<1>1. CalmInv => (rollBacks = 0 => fault \in {"none", "Pump"})
  <2> SUFFICES ASSUME CalmInv, rollBacks = 0 PROVE fault \in {"none", "Pump"}
    BY Zenon
  <2>1. TypeOK /\ SInv /\ wal \in Seq(LogEntries) /\ fault \in Faults
    BY Zenon DEF CalmInv, IInv, TypeOK, Calm
  <2>2. Rolled(wal) = {}
    <3>1. IsFiniteSet(Rolled(wal)) /\ Cardinality(Rolled(wal)) = 0
      BY <2>1, RolledFinite DEF SInv, LogInv
    <3> QED
      BY <3>1, FS_EmptySet
  <2>3. WalkOk(wal)
    BY <2>1, <2>2, WrittenLogReplays, Zenon DEF SInv, LogInv, Rolled
  <2>4. pc = "down" => Effective(wal) \subseteq db
    BY <2>1, LogStored
  <2> QED
    BY <2>1, <2>2, <2>3, <2>4 DEF SInv, FaultOk, Faults
<1> QED
  BY <1>1, CalmInductive, PTL

-----------------------------------------------------------------------------
(* The spine implements DurableChain.                                        *)

\* A step that writes no log entry is a change between rest and work, or nothing.
LEMMA NoEntryRefines ==
    ASSUME TypeOK, SInv, SInv', wal' = wal
    PROVE  [Durable!Next]_<<Effective(wal), IF AtRest THEN {ledger} ELSE {}>>
<1>1. AtRest => ledger = Effective(wal)
  BY Zenon DEF SInv, PlaceOk, AtRest
<1>2. AtRest' => ledger' = Effective(wal)
  BY Zenon DEF SInv, PlaceOk, AtRest
<1>3. CASE AtRest /\ AtRest'
  BY <1>1, <1>2, <1>3
<1>4. CASE AtRest /\ ~AtRest'
  <2>1. Durable!Busy
    BY <1>4 DEF Durable!Busy
  <2> QED
    BY <2>1 DEF Durable!Next
<1>5. CASE ~AtRest /\ AtRest'
  <2>1. Durable!Rest
    BY <1>2, <1>5 DEF Durable!Rest
  <2> QED
    BY <2>1 DEF Durable!Next
<1>6. CASE ~AtRest /\ ~AtRest'
  BY <1>6
<1> QED
  BY <1>3, <1>4, <1>5, <1>6, Zenon

\* The log entry of an admitted block extends the chain by it.
LEMMA AppendWalRefines ==
    ASSUME TypeOK, SInv, AppendWal
    PROVE  Durable!Extend(pending.block) /\ pending.block \in Blocks
<1>1. /\ pc = "appendWal" /\ pc' = "advanceTip" /\ wal' = Append(wal, pending)
      /\ wal \in Seq(LogEntries) /\ pending \in LogEntries /\ IsAdmit(pending)
  BY DEF AppendWal, TypeOK
<1>2. Effective(wal') = Effective(wal) \cup {pending.block}
  BY <1>1, EffectiveAdmit
<1>3. ~AtRest /\ ~AtRest'
  BY <1>1, Zenon DEF AtRest
<1>4. ExtendsState(Effective(wal), pending.block)
  BY <1>1, Zenon DEF SInv, PlaceOk
<1>5. Durable!ExtendsState(Effective(wal), pending.block)
  BY <1>4, Zenon DEF ExtendsState, Durable!ExtendsState
<1>6. pending.block \in Blocks
  BY <1>1, EntryFields, Zenon
<1> QED
  BY <1>2, <1>3, <1>5, <1>6, Zenon DEF Durable!Extend

\* The log entry of a rollback cuts the chain back to its target.
LEMMA AppendRollBackRefines ==
    ASSUME TypeOK, SInv, AppendRollBack
    PROVE  Durable!Truncate(pending.to_point) /\ pending.to_point \in Blocks
<1>1. /\ pc = "appendRollBack" /\ pc' = "follow" /\ wal' = Append(wal, pending)
      /\ wal \in Seq(LogEntries) /\ pending \in LogEntries /\ IsRollBack(pending)
      /\ ledger' = ledger
  BY Zenon DEF AppendRollBack, TypeOK, memory
<1>2. Effective(wal') = Upto(Effective(wal), Slot[pending.to_point])
  BY <1>1, EffectiveRollBack
<1>3. ~AtRest /\ AtRest'
  BY <1>1, Zenon DEF AtRest
<1>4. /\ pending.to_point \in Effective(wal)
      /\ ledger = Upto(Effective(wal), Slot[pending.to_point])
  BY <1>1, Zenon DEF SInv, PlaceOk
<1>5. pending.to_point \in Blocks
  BY <1>1, EntryFields
<1> QED
  BY <1>1, <1>2, <1>3, <1>4, <1>5, Zenon DEF Durable!Truncate, Durable!Upto, Upto

\* DC-CONS-20, T-REC-01: a node that stays calm implements DurableChain.  Its chain
\* changes by one extension or one truncation at a time, each at the append of a log
\* entry, never at rest and never in a crash or a warm start, and at rest the ledger is
\* the state of that chain.
THEOREM SpineImplementsDurableChain == Spec /\ []Calm => ImplementsDurableChain
<1>1. Init => Durable!Init
  <2> SUFFICES ASSUME Init PROVE Durable!Init
    OBVIOUS
  <2>1. wal = <<>> /\ AtRest /\ ledger = {}
    BY DEF Init, AtRest
  <2>2. Effective(wal) = {}
    BY <2>1 DEF Effective, Active
  <2> QED
    BY <2>1, <2>2 DEF Durable!Init
<1>2. CalmInv /\ CalmInv' /\ Calm /\ Calm' /\ [Next]_vars
         => [Durable!Next]_<<Effective(wal), IF AtRest THEN {ledger} ELSE {}>>
  <2> SUFFICES ASSUME CalmInv, CalmInv', Calm, Calm', [Next]_vars
               PROVE  [Durable!Next]_<<Effective(wal), IF AtRest THEN {ledger} ELSE {}>>
    OBVIOUS
  <2>1. TypeOK /\ SInv /\ SInv'
    BY Zenon DEF CalmInv, IInv
  <2>2. wal' = wal \/ AppendWal \/ AppendRollBack
    BY Zenon DEF Next, PumpBlock, PumpRefuse, PumpStored, PumpAdmit, FollowRollBack, RollBackNoOp,
       RollBackUnknown, RollBackCommit, RollBackFail, RollBackward, Capture,
       EndPassWithoutCapture, Proceed, AdvanceTip, PruneRecoveryCheckpoints,
       WarmStartReplay, BootstrapInitialState, Crash, vars, durable
  <2>3. CASE wal' = wal
    BY <2>1, <2>3, NoEntryRefines
  <2>4. CASE AppendWal
    BY <2>1, <2>4, AppendWalRefines DEF Durable!Next
  <2>5. CASE AppendRollBack
    BY <2>1, <2>5, AppendRollBackRefines DEF Durable!Next
  <2> QED
    BY <2>2, <2>3, <2>4, <2>5
<1> QED
  BY <1>1, <1>2, CalmInductive, PTL DEF Spec, ImplementsDurableChain, Durable!Spec

=============================================================================
