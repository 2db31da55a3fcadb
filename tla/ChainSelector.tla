--------------------------- MODULE ChainSelector ---------------------------
(***************************************************************************)
(* The header-level orchestrator (ade_runtime chain_selector.rs): it       *)
(* validates the headers of one chain-sync stream, moves the selector, and *)
(* keeps a bounded ring of snapshots to roll back to.                      *)
(*                                                                         *)
(* The stream is that of chain-sync servers on the node's own chain: a     *)
(* header extends the tip, or comes again, or late from a server that was  *)
(* behind; a rollback names a point behind the tip; and an epoch tick      *)
(* precedes the first header of each epoch.                                *)
(***************************************************************************)
EXTENDS Praos, ForkChoice

CONSTANTS
    SnapshotLimit,  \* snapshot_limit
    View            \* View[b]: the TiebreakerView of header b

ASSUME SelectorAssumption == /\ SnapshotLimit \in Nat
                             /\ View \in [Blocks -> [slot : Nat, issuer : Nat,
                                                     counter : Nat, vrf : Nat]]

Point(p) == [slot |-> IF p = Anchor THEN AnchorSlot ELSE Slot[p],
             no   |-> IF p = Anchor THEN 0 ELSE BlockNo[p]]

\* Headers are numbered without gaps, as the fragment of process_header_arrival has it.
ASSUME HeightAssumption == \A b \in Blocks : BlockNo[b] = Point(Parent[b]).no + 1

VARIABLES
    chainDep,   \* OrchestratorState.chain_dep
    selector,   \* OrchestratorState.selector
    recent,     \* OrchestratorState.recent_snapshots
    epoch,      \* the epoch the stream has ticked to
    event       \* the last ChainEvent or error

vars == <<chainDep, selector, recent, epoch, event>>

AnchorView == [slot |-> AnchorSlot, issuer |-> 0, counter |-> 0, vrf |-> 0]

Init ==
    /\ \E leb \in {{}, {Anchor}} : chainDep = InitialState(leb)
    /\ selector = [tip |-> Anchor, tipNo |-> 0, view |-> AnchorView,
                   immutableSlot |-> AnchorSlot, immutableNo |-> 0]
    /\ recent = <<>>
    /\ epoch = 0
    /\ event = "none"

-----------------------------------------------------------------------------
(* What the chain up to a point determines, by definition rather than step   *)
(* by step.                                                                   *)

\* The blocks of a chain from the anchor, in its order.
InOrder(S) == [i \in 1..Point(TipPoint(S)).no |-> CHOOSE b \in S : BlockNo[b] = i]

Before(S, e) == {b \in S : EpochOf(Slot[b]) < e}

\* The candidate nonce: all headers up to the last one outside a frozen window.
CandidateOf(S) ==
    LET open == {b \in S : Slot[b] < FreezeBoundary(Slot[b])}
    IN  InOrder(Upto(S, LastSlot(open)))

LabOf(S) == IF S = {} THEN Anchor ELSE Parent[Tip(S)]

\* The nonce of epoch e: the candidate at its start, with the block nonce of the
\* last block but one epoch before it.
NonceOf(S, e) == IF e = 0 THEN <<>>
                 ELSE <<CandidateOf(Before(S, e)),
                        IF e = 1 THEN Anchor ELSE LabOf(Before(S, e - 1))>>

\* What b's VRF proof is over.
ProofNonce(b) == NonceOf(Lineage(b), EpochOf(Slot[b]))

\* Of two headers on one block, that of the earlier epoch has another nonce than the
\* epochs up to that of the later one.  Nonces recur only after epochs without blocks.
ASSUME FreshNonces ==
    \A b, c \in Blocks : Parent[b] = Parent[c] =>
        \A e \in EpochOf(Slot[b]) + 1 .. EpochOf(Slot[c]) :
            ProofNonce(b) # NonceOf(Lineage(Parent[b]), e)

-----------------------------------------------------------------------------
\* Faulty: the oldest snapshot is never dropped.
PushUnbounded(ring, snap) == Append(ring, snap)

\* push_snapshot
PushSnapshot(ring, snap) ==
    LET r == Append(ring, snap)
    IN  IF Len(r) > SnapshotLimit THEN SubSeq(r, Len(r) - SnapshotLimit + 1, Len(r)) ELSE r

\* process_header_arrival: the fragment is one header on the selector's own tip,
\* and the chain-dependent state moves whatever the selector decides.
HeaderArrival(b) ==
    LET fragment == [anchorSlot |-> Point(selector.tip).slot,
                     anchorNo |-> selector.tipNo, length |-> 1, tip |-> b,
                     view |-> View[b], depth |-> 0]
        chosen == SelectBestChain(selector, <<fragment>>)
    IN
    /\ Parent[b] \in Lineage(selector.tip) \cup {Anchor}
    /\ EpochOf(Slot[b]) <= epoch
    /\ \/ /\ ~HeaderValid(chainDep, b, ProofNonce(b))
          /\ event' = "HeaderInvalid"
          /\ UNCHANGED <<chainDep, selector, recent>>
       \/ /\ HeaderValid(chainDep, b, ProofNonce(b))
          /\ chainDep' = ApplyHeader(chainDep, b)
          /\ selector' = chosen.state
          /\ event' = chosen.event
          /\ recent' = IF chosen.event = "ChainSelected"
                       THEN PushSnapshot(recent, [no |-> BlockNo[b],
                                                  chainDep |-> chainDep',
                                                  view |-> View[b]])
                       ELSE recent
    /\ UNCHANGED epoch

\* Faulty: the snapshot of the point rolled back to is dropped with the newer ones.
RetainOlder(ring, no) == SelectSeq(ring, LAMBDA s : s.no < no)

\* The snapshots a rollback to block number no leaves.
Retain(ring, no) ==
    LET kept[i \in 0..Len(ring)] ==
            IF i = 0 THEN <<>>
            ELSE IF ring[i].no <= no THEN Append(kept[i - 1], ring[i])
            ELSE kept[i - 1]
    IN  kept[Len(ring)]

\* process_rollback
RollBackTo(p) ==
    LET req == [to |-> p, toNo |-> Point(p).no, depth |-> selector.tipNo - Point(p).no]
        found == {i \in DOMAIN recent : recent[i].no = req.toNo}
    IN
    /\ p \in Lineage(selector.tip) \cup {Anchor}
    /\ \/ /\ found = {}
          /\ event' = "ExceededRollback"
          /\ UNCHANGED <<chainDep, selector, recent, epoch>>
       \/ \E i \in found :
          LET applied == ApplyRollback(selector, req, recent[i].view) IN
          /\ \A j \in found : i <= j
          /\ selector' = applied.state
          /\ event' = applied.event
          /\ \/ /\ applied.event = "RolledBack"
                /\ chainDep' = recent[i].chainDep
                /\ recent' = Retain(recent, req.toNo)
                /\ epoch' = EpochOf(Point(p).slot)
             \/ /\ applied.event # "RolledBack"
                /\ UNCHANGED <<chainDep, recent, epoch>>

\* process_epoch_boundary
EpochTick ==
    /\ \E b \in Blocks : Parent[b] = selector.tip /\ EpochOf(Slot[b]) > epoch
    /\ \/ /\ BoundaryPossible(chainDep)
          /\ chainDep' = EpochBoundary(chainDep)
          /\ epoch' = epoch + 1
          /\ event' = "none"
       \/ /\ ~BoundaryPossible(chainDep)
          /\ event' = "NonceEvolution"
          /\ UNCHANGED <<chainDep, epoch>>
    /\ UNCHANGED <<selector, recent>>

Next == \/ \E b \in Blocks : HeaderArrival(b)
        \/ \E p \in Blocks \cup {Anchor} : RollBackTo(p)
        \/ EpochTick

Spec == Init /\ [][Next]_vars

-----------------------------------------------------------------------------
\* The chain-dependent state is the one the selector's own chain determines,
\* whatever headers, ticks and rollbacks led there: the frozen candidate, the
\* rotated block nonces and the epoch nonce included.
ChainDepOfTip ==
    LET S == Lineage(selector.tip) IN
    /\ chainDep.evolving = InOrder(S)
    /\ chainDep.candidate = CandidateOf(S)
    /\ chainDep.lab = LabOf(S)
    /\ chainDep.epochNonce = NonceOf(S, epoch)
    /\ chainDep.lastSlot = LastSlot(S)
    /\ chainDep.lastNo = selector.tipNo

\* Each snapshot is the state at a block of the current chain, in increasing
\* order, and the newest is that of the tip: a rollback can restore no state of
\* an abandoned branch.
SnapshotsOfChain ==
    /\ Len(recent) <= SnapshotLimit
    /\ selector.tip # Anchor /\ SnapshotLimit > 0
          => recent # <<>> /\ recent[Len(recent)].no = selector.tipNo
    /\ \A i \in DOMAIN recent :
          /\ i > 1 => recent[i - 1].no < recent[i].no
          /\ \E b \in Lineage(selector.tip) :
                /\ recent[i].no = BlockNo[b] /\ recent[i].view = View[b]
                /\ recent[i].chainDep.evolving = InOrder(Lineage(b))
                /\ recent[i].chainDep.epochNonce = ProofNonce(b)

\* A sound header on the tip, of the epoch ticked to, is selected, since the state it
\* meets is the one its forger had; a header that comes again, or on a block behind the
\* tip, or of an epoch that is over, is refused although nothing compares its parent with
\* the tip or its epoch with the last tick.
OnlyExtensionsSelected ==
    [][\A b \in Blocks \ Unsound :
         HeaderArrival(b) /\ Counter[b] >= chainDep.counters[CertKey[b]]
            => (event' = "ChainSelected"
                  <=> Parent[b] = selector.tip /\ EpochOf(Slot[b]) = epoch)]_vars

\* A rollback takes at most k blocks off the chain, and one of at most k blocks
\* to a block at or above the oldest snapshot is always followed: eviction and
\* earlier rollbacks leave no gap in the ring.
RollbackDepthBounded ==
    [][\A p \in Blocks : RollBackTo(p) =>
         /\ selector'.tipNo + SecurityParam >= selector.tipNo
         /\ (/\ recent # <<>> /\ BlockNo[p] >= recent[1].no
             /\ selector.tipNo - BlockNo[p] <= SecurityParam)
               => event' = "RolledBack"]_vars

=============================================================================
