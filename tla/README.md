# A verification of the durable core of Ade

Ade is a Cardano node in Rust. Its code is split into pure authorities (BLUE),
deterministic reducers (GREEN) and an I/O shell (RED). What is hardest to test is
the shell: events of several peers arrive over connections that fail, blocks are
validated, stored, logged and announced, peers roll back, better branches replace
worse ones, epochs end, and the process may stop between any two writes and must
come back to the same state. This project models that path from the wire to the disk.

## Parts of the system

| Part | Where (under `src/crates`) | Modules |
|---|---|---|
| Peer sessions: wire pump, keep-alive, reconnect | `ade_runtime/src/admission/wire_pump.rs`, `ade_node/src/node_lifecycle.rs` | `WirePump`, `LiveFeed` |
| Fair merge of the peers' lanes | `ade_node/src/fair_merge.rs` | `FairMerge` |
| Forward-sync pump, relay sync pass, peer rollback, warm start | `ade_runtime/src/forward_sync`, `ade_node/src/node_sync.rs`, `node_lifecycle.rs`, `ade_ledger/src/rollback` | `DurableSpine` |
| ChainDb and checkpoints | `ade_runtime/src/chaindb` | sets with atomic operations in `DurableSpine` |
| WAL entries and replay | `ade_ledger/src/wal` | `WalReplay`, `WalReplayLoops` |
| WAL files | `ade_runtime/src/wal/file_wal_store.rs` | `FileWalStore` |
| Participant sync, fork switch, forge fence | `ade_node/src/node_lifecycle.rs`, `fork_switch.rs` and neighbours | `ParticipantSync` |
| Chain selection | `ade_core/src/consensus` | `ForkChoice` |
| Header state and header orchestrator | `ade_core/src/consensus`, `ade_runtime/src/consensus` | `Praos`, `ChainSelector` |
| Epoch accumulator, reduced checkpoint | `ade_runtime/src/chaindb`, `ade_node` | `EpochStores` |
| Epoch boundary: co-advancer, promotion, recovery | `ade_node/src/node_lifecycle.rs`, `epoch_*.rs` | `EpochContinuity` |
| Ledger rules, fingerprint | `ade_ledger` | `Chain`: what orders and tells apart states |

How they meet: `LiveFeed` ends where the relay loop reads an event; `DurableSpine`
begins there, for one peer, with every durable write a step. `ParticipantSync` is
the same loop with several peers and fork switches, a durable admit being one step.
`EpochContinuity` is the same loop across epochs, with the two stores derived from
the chain. `FileWalStore` is what lies under `DurableSpine`'s log. All share the
tree of blocks of `Chain`.

`PROJECT.json` gives the source lines each definition stands for, the hazards of
the code at the lines where they bite, and the parts that are not modelled.

## Modules

* **Chain**: the tree of blocks and the ledger's view of it. Header validation
  accepts a block only above the slot and block number of the last one applied,
  so a ledger state is the *set* of blocks applied. It does not compare parent
  hashes, and neither does the model. `Fingerprint` sees the last slot, and the
  whole state only when UTxO tracking is on; a live follower runs without it.
* **WalReplay**, **WalReplayLoops**: log entries, and what `compute_superseded`,
  `replay_from_anchor` and the scan for `wal_tail_slot` compute, as closed forms
  and as the loops of the code. `Effective(wal)` is the chain the log stands for.
* **DurableChain**: the abstract specification. One chain, extended by a block
  or cut back, only while the node is busy; at rest the node's state is that of
  the chain.
* **DurableSpine**: `db`, `snaps` and `wal` are durable; the rest is memory. An
  action ends at each durable write, so `Crash` may fall between any two. `pc`
  says which write comes next: `PumpAdmit` → `AppendWal` → `AdvanceTip` is
  `pump_block`; `RollBackCommit` → `AppendRollBack` is `apply_chain_event`;
  `Capture` → `PruneRecoveryCheckpoints` ends a pass of `run_node_sync`;
  `WarmStartReplay` → `BootstrapInitialState` is `warm_start_recovery`. An error
  that ends the process is `Exit` with its name in `fault`. The peer's read
  pointer is external: it delivers children, and rolls back to an ancestor or, on
  reconnect, to the resume point.
* **FileWalStore**: frames, rotation, sealing and recovery of the log's files. A file
  is its whole frames, what follows them, and how much of both is on disk for good
  (`safe`); `named` counts the files whose names are. `Crash` kills the process at any
  step and leaves what it wrote, `fs::write` of `seal_with_crc` being cut anywhere.
  `PowerLoss` also takes any part of what was not synced: the end of the last file, a
  sealed file (`CutFile`), a new file's name. What the file system is taken to keep is
  said below.
* **ForkChoice**: `tiebreaker_prefer`, `select_best_chain`, `apply_rollback`, as
  operators on the selector's state.
* **Praos**: the chain-dependent state with symbolic hashes. A VRF proof verifies
  under the epoch nonce of the chain it was forged on and no other, so a wrong nonce
  shows as a refused header.
* **ChainSelector**: `process_stream_input` with its ring of snapshots: header
  arrivals (new, repeated, late), rollbacks, epoch ticks.
* **ParticipantSync**: one drain of the merged feed (`LinearExtend`, `AlreadyHave`,
  `DispatchCompeting`, `PeerRollBack`, `EndDrain`), then what it decided
  (`ApplyForkSwitch` → `RollForward`, `RangeRefetch`, `ResolveFence`), then a forge
  tick. Peers change branches, reconnect and fail to serve a fetch.
* **EpochStores**: each transaction of `EpochAccumulatorStore` as an operator. A
  store is the set of blocks folded into it; its anchor is present or absent.
* **EpochContinuity**: a sync pass (`AdmitBlock`, `PrepareAuthority` →
  `PumpFirstBlock`, `RollBack` → `CommitRollBack` → `Recertify`, `EndPass`), the
  co-advancer after it one commit at a time (`StartCoadvance` … `CheckpointToTip`),
  and a restart, which runs the co-advancer and then `RecoverAuthority`.
* **WirePump**: `run_admission_wire_pump` with the peer it talks to (external):
  chain-sync and block-fetch in lock step, the keep-alive lane, an event that waits
  for room (`Emit`, `ReadWhileWaiting`) and the frames deferred meanwhile.
* **FairMerge**: the bounded lanes, the rotating reader, the retired lanes.
* **LiveFeed**: composes the two under the supervisor of
  `spawn_live_wire_pump_source` (`Dial`, `Forward`, `SessionOver` with the reconnect
  policy and the resume point) and the relay loop's read. Lane 0 is a modelled peer;
  the other is a peer that may always have an event (`BusyPeer`).
* **ChainProofs**: lemmas about tips, slots and lineages, used by the next six.
* **WalReplayProofs**, **DurableSpineProofs**, **EpochContinuityProofs**,
  **ParticipantSyncProofs**, **ForkSwitchProofs** (with the lemmas about `ForkChoice`),
  **ChainSelectorProofs**, and **RuntimeProofs** (`FileWalStore` and `FairMerge`):
  theorems.
* **MC...**: trees of blocks for TLC.

Operators commented "Faulty" are what a plausible slip in the code would be. No
specification uses them; each property is known to fail when one takes its place.

## Runs

| Run | Question and answer |
|---|---|
| `spine_linear` | No rollbacks, two stops anywhere, cadence 2, retain 1. Stores, log, checkpoints and peer agree; warm start always completes; `DurableChain` is implemented. |
| `spine_reorg` | Two rollbacks and a stop over three branches, only the anchor checkpoint, full fingerprints. Stores, log and ledger agree at rest, and warm start refuses for three reasons only, each of which takes a rollback (`RefusalsExplained`). |
| `spine_full` | Everything at once, as a live node runs. Acknowledged blocks survive. |
| `wal_replay` | Loops and closed forms of replay agree on all logs of up to five entries. |
| `file_wal` | Kills and losses of power at any step. A log that can be read is in order, and holds every acknowledged entry unless a rotation was interrupted; it counts its frames right; and it reopens, unless its last file ends in less than a length prefix or a sealed file was cut. |
| `epoch_continuity` | Three epochs, two rollbacks and a restart between any two commits. The certified accumulator, the leadership frozen in it, the reduced checkpoint and the promoted authority are those of the stored chain; a restart has in its stores the very view its log records, and only a stop before the block of the promotion was stored leaves one it refuses; the co-advancer ends. |
| `chain_selector` | Three epochs of headers. Nonces and snapshots are those of the selected chain, and rollbacks stay within k; of all headers that arrive, exactly those on the tip and of the epoch ticked to are selected. |
| `participant_sync` | Two peers, an invalid body, one failing fetch or restart. The chain stays linked, a proven switch never stops half way, the decision is the best of the drain, a switch improves the tip, the forge fence holds, every pass ends. |
| `live_feed` | A peer that reorganises, one lost or refused connection or frame out of protocol, a busy second lane, a reader that may stall. What is read is a walk on the chain; frames deferred fit; keep-alives come round; no lane starves; the reader catches up. |

Runs that show a disagreement between the code and what it says of itself (the
findings in `PROJECT.json` quote the line):

| Run | What happens |
|---|---|
| `log_replays` | Two rollbacks, the second deeper: the log does not replay. |
| `converges` | A better branch comes in two drains. The header caches went with the first, so the second block has no way back to a stored one, and the node stays on the shorter chain. |
| `keep_alive` | A keep-alive answer that was read behind another frame waits in `pending_frames` for a reader that stalls, and pings stop. |

### Bounds

* *Spine*: seven blocks with two forks at different heights, two blocks with the
  same slot, and a slot between those of another branch; two rollbacks and two stops
  (one in `spine_reorg`). The mechanisms need no more: a torn write, its recovery, a
  torn write after that. Cadence 2 makes every pass of two slots due for a checkpoint
  and retain 1 makes pruning act on the third. The rollback limit k is above the
  tree's height, so its check passes; it is tight in the next three.
* *Epochs*: 14 blocks, four slots to an epoch, three epochs, k = 1, branches that
  cross a boundary, skip an epoch, or spend as collateral an output of a branch left.
* *Selector*: 18 headers, k = 2, a ring of 4, stabilisation window 2; forks before
  and within the window, two children of one block in different epochs, an empty epoch,
  a stale certificate counter, an unsound header.
* *Participant*: eight blocks, k = 2, one invalid, one of the node's own, one fault.
  `converges` has four blocks and no fault.
* *Feed*: three blocks on two branches, the peer's chain moving `anchor → a1 → b1 →
  a2`; channels of one event, two deferred frames, one fault, one busy lane. The
  capacities are minimal because they are where the pump has to wait.
* *Log files*: two entries to a file, five appends (two rotations, and more where a
  file is rotated early), three stops: a torn write, its recovery, and a loss of power
  after that.

Deadlock is checked in `chain_selector`, `live_feed` and `keep_alive`. The others
come to an end when their blocks, rollbacks and stops are used up.

### Fairness

* Spine and log files: the process is one thread that finishes what it began, and a
  supervisor restarts it (`Proceed`). Deliveries, rollbacks and stops are not fair.
* Epochs: each commit of the co-advancer is followed by the next (`CoadvanceStep`).
* Participant: the relay loop ends a drain and settles it; for `converges`, each
  peer's stream is also read.
* Feed: every task runs on, each arm of a `select!` that stays ready is taken, and a
  peer answers while its connection is up. Nothing is asked of the reader; `LaneServed`
  and `CatchesUp` say "if it reads" themselves.

## Proofs

All are for every value of the constants. They assume only the named assumptions of
the modules: slots are at most `MaxSlot` (a `SlotNo` is a `u64`), a block is above
its parent and the anchor, `None` is no block; a file holds at least one entry;
there is at least one lane; slots and epochs are counted from the epoch of the seed
(`AnchorSlot < EpochLength`); peers are ordered and finitely many, as the keys of a
`BTreeMap` are; a block's number is its parent's plus one (`HeightAssumption`); and,
for the selector, `FreshNonces`, told with it. `HeightAssumption` is how the protocol
numbers blocks: header validation demands only a higher number, and fork choice relies on
it where it takes a tip's height to be the anchor's plus the number of headers.

### The log and the spine

* `TypeCorrect`: `Spec => []TypeOK` of the spine. The interesting part is that
  pruning keeps the anchor checkpoint, because it is the oldest.
* `TailSlotCoversLog`: trimming the ChainDb to `wal_tail_slot` keeps every block
  the log stands for, if its fingerprints chain. The scan ignores rollbacks, so
  the last AdmitBlock may be superseded, and blocks need not have been logged in
  slot order. `WalkBounds` shows by a least counterexample that the fingerprint
  the walk holds bounds every standing block so far.
* `AckedBlocksSurvive`: `Spec => []AckedSurvives`. `AckedSurvives` speaks of the
  relay loop at rest and is not inductive: a stop may fall in the middle of a
  write, and warm start trims the ChainDb by what the log says. `IInv` adds that
  an acknowledged block is stored *and* standing in the log in every state, that
  each entry records the slots it should, and what the pending write is about
  to do. `TailSlotCoversLog` then carries the trim.
* `WrittenLogReplays`: a log that was written by admitting blocks above its chain and
  by rolling back to blocks of its chain (`LogOk`, which `LogAdmit` and `LogRollBack`
  keep) ends in the fingerprint of that chain; it replays, or one of its rollbacks was
  followed by a deeper one. The finding of `log_replays` is so the only way for a log
  the node wrote itself not to replay.
* `StoresAgree`, `LedgerFollowsStore`, `FingerprintChains`, `CheckpointsFaithful`,
  `RefusalsHaveCauses`: the invariants of `spine_linear` and `spine_reorg` while the
  node is `Calm`, that is, no rollback came yet or the anchor's is the only checkpoint.
  Both together break them, as told below; the runs' constants make every state calm
  (`StaysCalm`). The inductive invariant `SInv` says of each `pc` how ChainDb, ledger,
  pending entry and log stand to each other; after a stop, that the ChainDb is the
  chain of the log, one block more (`Orphan`) or trimmed by a rollback not yet logged
  (`Torn`); and what each recorded fault took. A refused warm start is explained by
  which of these it met.
* `NodeFollowsPeer`, `RecoveryNeverRefuses`: until the first rollback the node is where
  its peer is and every warm start succeeds, with any number of checkpoints and stops.
* `SpineImplementsDurableChain`: `Spec /\ []Calm => ImplementsDurableChain`. Only
  `AppendWal` (an `Extend`) and `AppendRollBack` (a `Truncate`) change the chain the log
  stands for; every other step is `Busy`, `Rest` or a stutter, because at rest `SInv`
  makes the ledger the state of that chain.

### Epochs

`CertifiedFoldsOnChain`, `RecoveryAlwaysAdmits`, `FrozenLeadershipIsTheChains`,
`CheckpointStaysOnChain`, `AuthorityFollowsTip`, `RestartRebuildsView` and
`PassReachesTip` prove the invariants of `epoch_continuity`, from one `IInv` of the
stores, the log of promotions and the point of the pass. The ideas:

* A rollback never leaves the epoch of the tip, so a fold of an abandoned branch
  still agrees with the chain in all epochs before its own last one (`Shares`).
* A certified fold's own tip is stored, and then its whole prefix agrees; a store
  without certificate is exactly its settled point.
* The leadership of an epoch is a function of blocks two epochs back (`LeadOf`), which
  no rollback reaches, so what was frozen stays that of the chain.
* The records that stand in the log hold the exact view of their epoch, which is why
  a restart that folds again arrives at the same one (`SelectedView`). The record it
  selects is for the tip's epoch or the next one. The second is refused, though the
  stores give its view too; a running node has one only at `pump` (`InForce`).

### Fork choice and participant sync

* `SelectsBest`, `ArrivalOrderIndependent`: `select_best_chain` picks an eligible
  candidate that beats the tip and that none beats, whenever there is one; two orders
  of the same candidates select both or neither, and equally good ones.
* `DurableChainStaysLinked`, `ProvenSwitchCompletes`, `FenceKeepsForgeOut`: `IInv` says
  which blocks were fetched, that the branch of a decided switch links to a stored
  block, and what is left to roll forward while a proven switch is under way.
* `SwitchDecisionIsBest`, `SwitchImprovesTip`: `DInv` adds that the fragments of the
  drain are whole branches down to the stored chain, at most k blocks from the tip, and
  that a fresh decision is the best of them. The second gets its depth from the walk's
  bound: the winner is at least as high as what it replaces. Both are stated under
  `BodiesDiffer`, told below.

### The header orchestrator

`StateIsOfChain`, `RingIsOfChain`, `SelectsExtensions` and `RollbacksAreBounded` prove
the four properties of `chain_selector`. The inductive invariant `SInv` says that the
chain-dependent state is the one the selected chain determines in the epoch ticked to
(`StateAt`); that the ticks led at most to the epoch of a header on the tip (`Ticked`);
that the selector stands at its tip's height (`SelectorAt`); and that the ring has the
states of the last blocks of that chain, without a gap (`RingOf`), which is why a rollback
finds its target and what is left of the ring is again one. The candidate nonce is why
`StateAt` is an equation with the whole chain: it stays frozen from the last header
before the window on, on whichever fork. `Retain` is a recursive function, so that
`RetainPrefix` can say what it keeps of a ring without gaps.

`FreshNonces` says of two children of one block, the first of an earlier epoch, that the
nonce the first was forged under is not the nonce of an epoch after it. Nonces are
hashes, so they recur only in one way: epochs without blocks add nothing to the nonce.
Then a header of an epoch that is over could arrive after the tick and verify, since
nothing compares its epoch with the last tick, and the nonces would no longer be those
of the chain. The tree of the run has such siblings with a block between (`h7`).

### Log files and lanes

* `AcknowledgedIsReadable`: `Spec => []AckedReadable` of the log files. The property
  speaks of a log that can be read, so the inductive invariant has to say what any stop
  leaves. It reads the buffer in the place of the file that is being rewritten
  (`Frames`), bounds the entries by the append calls (`Bounded`) and orders them
  (`Ordered`). `Durable` is the heart: unless a rotation was interrupted, either a
  sealed file was cut and `open` will find it (`Refused`), or every acknowledged entry
  is in some file (`Kept`) and, outside a rotation, no loss of power can take the last
  file's name or an acknowledged entry of it (`Synced`). So a sealed file, which is
  never synced, may be lost later, but is then never read as a shorter log. Each action
  keeps the frames, takes some away, or replaces the last file.
* `CountIsExact`: `Spec => []CountExact`, from the same types and `Counted`.
* `PassedOverLess`: each time another lane is served, a lane with an event comes
  strictly nearer in the rotation of `fair_recv`. This is the step by which no lane
  starves for any number of peers; `CursorStays` keeps its premise. The liveness
  property `LaneServed` itself is model-checked, with two lanes.

### Only model-checked

* Liveness, which the prover does not do: `RecoveryCompletes`, `Reopens`,
  `CoadvanceEnds`, `SyncPassEnds`, `KeepAliveServed`, `LaneServed`, `CatchesUp`.
* `SupersedeAgrees`, `ReplayAgrees`, `TailIsTheTip`: that the loops of replay compute
  their closed forms is an induction over logs, and the loops are recursive.
* `DeferralFits`, `FeedLinked` of the feed: they count and follow frames through
  several queues. What is deferred is a `SelectSeq` of the chunk read, and that its
  length is at most the chunk's is an induction over a recursive definition.

## What the properties except

Each exception below is one the code really reaches: without it TLC refutes the
property (or the run's constants exclude the case, and TLC refutes it with them).

* *Spine.* A stop between the ChainDb trim and the RollBack entry leaves entries
  without bytes; a torn admit after a rollback survives the trim to the tail: both
  make warm start refuse. With rollbacks and checkpoints together, a checkpoint of an
  abandoned branch may be the nearest one (`SnapshotsFaithful`), and one keyed by a
  `selected_tip` that was rolled back in the same pass gives a ledger without the
  stored tip (`LedgerMatchesDb`). With rollbacks, one to the recovered anchor is
  ignored even after the node moved on (`FollowsPeer`), and a block may then be
  admitted without its parent.
* *Log files.* `seal_with_crc` rewrites a file in place and nothing syncs it. A kill
  in the rewrite, or a loss of power after a rotation began and before an append
  returned again, loses acknowledged entries without a trace (`sealTorn`), although the
  module says "durability before append returns" and "No truncate/rewrite/replace"
  (`file_wal_store.rs:16`, `:24-25`). A loss of power later may cut the sealed file: `open` then fails
  with `CorruptCrc` and the log stays unreadable. `recover_open_file` leaves one to
  three bytes of a length prefix, on which `read_all` fails.
* *Participant.* A range is refetched above a tip that was rolled back since
  (`stale`): the chain has a gap. A switch decided against a tip that moved in the
  same drain (`fresh`) may end in a worse tip or a rollback deeper than k.
  `decide_fork_switch` finds the fragment of the selected tip by slot and body hash:
  of two blocks of one slot with the same body (two empty ones) it may take the one
  that lost, the first peer's. The blocks of the runs have different bodies, and
  `DecisionIsBest` and `FreshSwitchImproves` are proved for such (`BodiesDiffer`). Any peer's
  rollback drops the forge fence. A rollback to a point that is not stored halts the
  node, whichever peer sent it.
* *Epochs.* A pass that begins with blocks of an abandoned branch in the reduced
  checkpoint (`spliced`; the store has no hashes to tell) runs on a mixed one. A
  stop between a promotion record and the store of its block makes every restart refuse
  (`ActivationAboveDurableTip`, `epoch_activation.rs:693`), although the stores give the
  view that was logged and DC-EPOCH-06 has "the recovered active view equals the WAL
  record (crash after the WAL or after publication)"; `RecoversExactView` says that no
  stop elsewhere leads there. The node also halts on a
  rollback across a promoted boundary, and on a
  rollback followed by the first block of the next epoch in one pass
  (`PromotionLeadershipUnavailable`). `maybe_activate_first_boundary` acts only while
  no view is promoted, which `AuthorityAtTip` shows is never so after the seed.
* *Feed.* A header whose body the peer no longer has is skipped (`NoBlocks`), and what
  follows may lack it (`skipped`). The resume point is the last block delivered, also
  after a rollback behind it (`behind`): the next session may repeat what was read, or
  find no intersection, roll back to Origin and drop the peer for good.
* *Selector.* A header reaches fork choice as a candidate of one header on the own tip,
  which is one block higher and always wins, so the `TiebreakerLoss` outcome is never
  produced. The stream is taken to be of one branch at a time, as a chain-sync stream is.

## Not modelled

* *In the modules*: the two log entries replay skips; the extra checkpoint at an
  epoch boundary; rollbacks to Origin or with a wrong slot in the spine, which only
  fail; how a candidate view is computed from stake;
  evidence and convergence logs; keep-alive cookies.
* *Log files*: the file system is one that keeps of a file a prefix of what was written
  to it, whose `fdatasync` of a new file keeps its name, and on which the `set_len` of
  recovery holds. Bit rot, a CRC that matches by chance and a CRC that reads as a short
  length are left out. `read_all` is called before the first append, as warm start does.
* *Epoch accumulator*: `DurableSpine` and `ParticipantSync` take it to be there and to
  answer for the epoch of the seed, since warm start refuses a node without one
  (`ProductionLeadershipAuthorityUnavailable`); what it may refuse is `EpochContinuity`.
* *Conflicting promotions*: `EpochViewActivationConflict` needs two standing records of
  one epoch. A second is written only after a rollback below the epoch, which takes away
  the first, so `SelectedRecord` leaves the branch out.
* *Headers*: the refusals of a slot beyond the forecast horizon, of a boundary with all
  nonces zero (`UninitialisedEpochNonce`) and of a schedule without a randomness window.
* *Planned*: the mini-protocol transitions with client and server composed, the
  chain-sync and block-fetch servers, the session multiplexer, the producer's served
  chain.
* *Left out*: the mempool (one transaction at a time, sequential), the earlier
  orchestrator, which the node mode does not use for durable state, and the bulk of
  the source: ledger arithmetic, CBOR codecs, cryptography, Plutus, types and the test
  kit are pure data, primitives or harnesses. The modelled path is a small share of
  the lines for that reason; the rest has no state, order or failure for a model
  checker to explore.

## Plan

1. The servers against a moving chain, composed with `WirePump` in place of its
   external peer; the producer's served chain racing a rollback.
2. `LiveFeed` composed with `DurableSpine`: the resume point against the stored tip.
3. Proofs: `DeferralFits` and `FeedLinked` for `LiveFeed`, once `SelectSeq` can be
   reasoned about.
