--------------------------- MODULE ParticipantSync ---------------------------
(***************************************************************************)
(* A block producer in a network of several peers (VenueRole::Participant) *)
(* : the relay loop's sync pass over the merged feed, the dispatch of a    *)
(* competing branch to fork choice, the fork switch, the refetch of a      *)
(* missing range, and the forge tick that all of them must fence.          *)
(*                                                                         *)
(* What a durable admit or rollback does to the log and the checkpoints is *)
(* DurableSpine; here it is one step.  The epoch accumulator is taken to   *)
(* be there, to answer for the epoch of the seed and to admit every        *)
(* rollback and restart; its guards are EpochStores and EpochContinuity.   *)
(***************************************************************************)
EXTENDS Chain, ForkChoice, FiniteSets

CONSTANTS
    Peers,         \* a set of naturals, in the order of the peers' names
    View,          \* View[b]: the TiebreakerView of b
    Body,          \* Body[b]: the body hash of b
    Invalid,       \* the blocks whose bodies fail block_validity
    Reaches,       \* Reaches[p]: the blocks that are ever the tip of p's chain
    Own,           \* the blocks this node leads
    MaxFaults      \* bound on the restarts and on the fetches that fail or stop short

MaxRangeRefetchAttempts == 3

ASSUME ParticipantAssumption ==
    /\ Peers \subseteq Nat /\ IsFiniteSet(Peers)
    /\ View \in [Blocks -> [slot : Nat, issuer : Nat, counter : Nat, vrf : Nat]]
    /\ DOMAIN Body = Blocks
    /\ Reaches \in [Peers -> SUBSET Blocks]
    /\ Invalid \subseteq Blocks /\ Own \subseteq Blocks
    /\ MaxFaults \in Nat

\* A block number counts the blocks of the chain: the code takes the height of a
\* fragment's tip to be its anchor's and the number of headers above it.
ASSUME HeightAssumption ==
    \A b \in Blocks : Parent[b] # Anchor => BlockNo[b] = BlockNo[Parent[b]] + 1

VARIABLES
    db,                  \* the blocks of the ChainDb
    floor,               \* ForwardSyncState.recovered_anchor
    head,                \* head[p]: the tip of peer p's chain
    ptr,                 \* ptr[p]: how far p's chain-sync stream has been read
    linked,              \* the peers whose stream is up
    pc,                  \* where the relay loop is
    followed,            \* FollowedPeerTipSignal.latest, none or one
    competing,           \* competing[p]: the fragment of p, none or one
    caches,              \* branch_caches
    pendingReselection,  \* the forge fence
    pendingSwitch,       \* pending_fork_switch, none or one
    missingBridge,       \* pending_missing_bridge.is_some()
    refetch,             \* pending_range_refetch, none or one
    attempts,            \* of the refetch under way
    retention,           \* rollback_retention
    postSwitch,          \* post_switch_follow, none or one
    proven,              \* the blocks of the proven branch not yet rolled forward
    replaced,            \* the tip the switch under way replaces
    extending,           \* forge_mode is ParticipantExtendOnSelectedHead
    forged,              \* the blocks this node has forged
    fresh,               \* the durable tip is still the one the switch was decided against
    unproven,            \* whether a branch that failed its proof is still "fenced"
    stale,               \* a range was admitted above a tip rolled back meanwhile
    faults

peers == <<head, ptr, linked, followed>>
drain == <<competing, caches>>
pending == <<pendingReselection, pendingSwitch, missingBridge, refetch>>
switching == <<attempts, retention, postSwitch, proven, replaced>>
forging == <<extending, forged>>
ghosts == <<fresh, unproven, stale, faults>>
vars == <<db, floor, peers, pc, drain, pending, switching, forging, ghosts>>

Init ==
    /\ db = {} /\ floor = Anchor
    /\ head = [p \in Peers |-> Anchor] /\ ptr = head /\ linked = Peers
    /\ pc = "idle" /\ followed = {}
    /\ competing = [p \in Peers |-> {}] /\ caches = competing
    /\ pendingReselection = FALSE /\ pendingSwitch = {}
    /\ missingBridge = FALSE /\ refetch = {}
    /\ attempts = 0 /\ retention = {} /\ postSwitch = {}
    /\ proven = {} /\ replaced = Anchor
    /\ extending = FALSE /\ forged = {}
    /\ fresh = FALSE /\ unproven = "no" /\ stale = FALSE /\ faults = 0

-----------------------------------------------------------------------------
(* The peers.                                                                *)

SlotOf(p) == IF p = Anchor THEN AnchorSlot ELSE Slot[p]

\* Block b is a better tip than point p.
Preferred(b, p) == p # Anchor => ComparePrefer(BlockNo[b], View[b], BlockNo[p], View[p])

\* A peer moves to a better chain; it has the node's own blocks once forged.  Its
\* stream is read from the chain it is on, so a move is seen when what went before
\* has been read; bodies may be asked for at any time.
PeerAdopts(p, b) ==
    /\ \/ pc \in {"idle", "drain"} /\ (ptr[p] = head[p] \/ p \notin linked)
       \/ pc = "settle"
    /\ Preferred(b, head[p])
    /\ Lineage(b) \cap Own \subseteq forged
    /\ head' = [head EXCEPT ![p] = b]
    /\ UNCHANGED <<db, floor, ptr, linked, followed, pc, drain, pending, switching,
                   forging, ghosts>>

OnChainOf(q, p) == q \in Lineage(head[p]) \cup {Anchor}

\* The stream of p yields its next block, or a rollback to where the chain it was
\* read from meets the present one.
Streams(p) == pc \in {"idle", "drain"} /\ p \in linked

NextBlock(p) == IF Streams(p) /\ OnChainOf(ptr[p], p)
                THEN {c \in Lineage(head[p]) : Parent[c] = ptr[p]} ELSE {}

RollBackPoint(p) == IF Streams(p) /\ ~OnChainOf(ptr[p], p)
                    THEN {TipPoint(Lineage(ptr[p]) \cap Lineage(head[p]))} ELSE {}

Read(p, q) == /\ ptr' = [ptr EXCEPT ![p] = q]
              /\ followed' = {head[p]}
              /\ UNCHANGED <<head, linked>>

Fault == /\ faults < MaxFaults
         /\ faults' = faults + 1

Halt == /\ pc' = "halted"
        /\ UNCHANGED <<db, drain, pending>>

-----------------------------------------------------------------------------
(* run_participant_sync                                                      *)

\* pump_block admits b on S.
Pumps(S, b) == b \notin Invalid /\ ExtendsState(S, b)

\* classify_receive: LinearExtend
Extends(b) == Parent[b] = Tip(db) /\ BlockNo[b] = BlockNo[Tip(db)] + 1

\* A block on the durable tip, or the first block: admitted through the pump.
\* Only the former clears a missing bridge.
LinearExtend(p) ==
    \E b \in NextBlock(p) :
       /\ Read(p, b)
       /\ db # {} => b \notin db /\ Extends(b)
       /\ \/ /\ Pumps(db, b)
             /\ db' = db \cup {b}
             /\ missingBridge' = (missingBridge /\ db = {})
             /\ pc' = "drain"
             /\ UNCHANGED <<drain, pendingReselection, pendingSwitch, refetch>>
          \/ ~Pumps(db, b) /\ Halt
       /\ fresh' = FALSE
       /\ UNCHANGED <<floor, switching, forging, unproven, stale, faults>>

AlreadyHave(p) ==
    \E b \in NextBlock(p) \cap db :
       /\ Read(p, b)
       /\ pc' = "drain"
       /\ UNCHANGED <<db, floor, drain, pending, switching, forging, ghosts>>

\* walk_to_durable_lca from b over the headers known: the stored ancestor it ends
\* at and the headers above it, or nothing.
WalkToDurableLca(b, known) ==
    LET stored == Lineage(b) \cap db
        above == {c \in Lineage(b) : Slot[c] > LastSlot(stored)}
    IN  IF stored # {} /\ above \subseteq known /\ Cardinality(above) <= SecurityParam
        THEN {[anchor |-> Tip(stored), headers |-> above]} ELSE {}

\* build_candidate_fragment
Fragment(lca, b) ==
    [anchor |-> lca.anchor, headers |-> lca.headers, tip |-> b, view |-> View[b],
     anchorSlot |-> Slot[lca.anchor], anchorNo |-> BlockNo[lca.anchor],
     length |-> Cardinality(lca.headers),
     depth |-> BlockNo[Tip(db)] - BlockNo[lca.anchor]]

\* The ChainSelectorState the dispatch makes of the durable tip.
SelectorState ==
    [tip |-> Tip(db), tipNo |-> BlockNo[Tip(db)], view |-> View[Tip(db)],
     immutableSlot |-> SlotOf(floor), immutableNo |-> 0]

\* tiebreaker_sort_key(a, b) = Less.  Not the preference: the lesser counter is first.
TiebreakerSortKey(a, b) ==
    \/ a.slot < b.slot
    \/ /\ a.slot = b.slot
       /\ \/ a.issuer < b.issuer
          \/ /\ a.issuer = b.issuer
             /\ \/ a.counter < b.counter
                \/ a.counter = b.counter /\ a.vrf < b.vrf

\* assemble_candidate_set: the fragments, which are at most one to a peer, in the
\* order of their tips.  The sort is stable and they come in the order of the peers.
AssembleCandidateSet(frags) ==
    LET Of(p) == CHOOSE f \in frags[p] : TRUE
        Before(p, q) ==
            \/ CandidateTipNo(Of(p)) < CandidateTipNo(Of(q))
            \/ /\ CandidateTipNo(Of(p)) = CandidateTipNo(Of(q))
               /\ \/ TiebreakerSortKey(Of(p).view, Of(q).view)
                  \/ Of(p).view = Of(q).view /\ p < q
        holders == {p \in Peers : frags[p] # {}}
        orders == {s \in [1..Cardinality(holders) -> holders] :
                      \A i, j \in DOMAIN s :
                          i < j => s[i] # s[j] /\ Before(s[i], s[j])}
    IN  {[i \in DOMAIN s |-> Of(s[i])] : s \in orders}

\* Faulty: only the fragment that came last is put to the selector.
DecideLatestOnly(p, frags, cands) ==
    LET chosen == SelectBestChain(SelectorState, <<CHOOSE f \in frags[p] : TRUE>>)
    IN  IF chosen.event # "ChainSelected" THEN {}
        ELSE {[peer |-> p, frag |-> f] : f \in frags[p]}

\* decide_fork_switch: the selected tip is looked up among the fragments by its
\* slot and body hash, and the first peer that has one such wins.
DecideForkSwitch(p, frags, cands) ==
    LET chosen == SelectBestChain(SelectorState, cands)
        Ends(f) == /\ Slot[f.tip] = Slot[chosen.state.tip]
                   /\ Body[f.tip] = Body[chosen.state.tip]
        winners == {q \in Peers : \E f \in frags[q] : Ends(f)}
        winner == CHOOSE q \in winners : \A r \in winners : q <= r
    IN  IF chosen.event # "ChainSelected" \/ winners = {} THEN {}
        ELSE {[peer |-> winner, frag |-> f] : f \in frags[winner]}

\* The header is remembered; without a way back to a stored block it is only a
\* missing bridge, which the peer switched to last is asked to fill.
\* Otherwise its branch joins the fragments that fork choice decides on.
DispatchCompeting(p) ==
    \E b \in NextBlock(p) \ db :
    LET lca == WalkToDurableLca(b, caches[p] \cup {b} \cup retention)
        frags == [competing EXCEPT ![p] = {Fragment(l, b) : l \in lca}]
        fills == {s \in postSwitch : s.peer = p /\ Slot[b] > Slot[Tip(db)]}
    IN
    /\ db # {} /\ ~Extends(b)
    /\ Read(p, b)
    /\ pc' = "drain"
    /\ caches' = [caches EXCEPT ![p] = @ \cup {b}]
    /\ \/ /\ lca = {}
          /\ missingBridge' = TRUE
          /\ refetch' = IF fills = {} THEN refetch
                        ELSE {[peer |-> p, from |-> Tip(db), to |-> b, id |-> s.id] : s \in fills}
          /\ UNCHANGED <<competing, pendingReselection, pendingSwitch, fresh>>
       \/ /\ lca # {}
          /\ competing' = frags
          /\ \E cands \in AssembleCandidateSet(frags) :
             LET switch == DecideForkSwitch(p, frags, cands) IN
             /\ pendingSwitch' = IF switch = {} THEN pendingSwitch ELSE switch
             /\ pendingReselection' = (pendingReselection \/ switch # {})
             /\ fresh' = (fresh \/ switch # {})
          /\ UNCHANGED <<missingBridge, refetch>>
    /\ UNCHANGED <<db, floor, switching, forging, unproven, stale, faults>>

\* resolve_and_apply_peer_rollback, for a rollback of whichever peer: back to the
\* recovered anchor is no move at all, to a point that is not stored is the end.
PeerRollBack(p) ==
    \E to \in RollBackPoint(p) :
       /\ Read(p, to)
       /\ \/ /\ to = floor
             /\ pc' = "drain"
             /\ UNCHANGED <<db, drain, pending, unproven>>
          \/ to # floor /\ to \notin db /\ Halt /\ UNCHANGED unproven
          \/ /\ to # floor /\ to \in db
             /\ db' = Upto(db, Slot[to])
             /\ pendingReselection' = FALSE
             /\ unproven' = IF unproven = "fenced" THEN "dropped" ELSE unproven
             /\ pc' = "drain"
             /\ UNCHANGED <<drain, pendingSwitch, missingBridge, refetch>>
       /\ fresh' = FALSE
       /\ UNCHANGED <<floor, switching, forging, stale, faults>>

\* Nothing more is at hand: the fragments and the branch caches go with the drain.
EndDrain ==
    /\ pc = "drain"
    /\ pc' = "settle"
    /\ competing' = [p \in Peers |-> {}]
    /\ caches' = competing'
    /\ UNCHANGED <<db, floor, peers, pending, switching, forging, ghosts>>

-----------------------------------------------------------------------------
(* apply_fork_switch                                                         *)

\* Faulty: the bodies are bound and linked, not validated.
BranchLinked(S, branch) == branch # {}

\* prevalidate_branch: each body of the branch is valid on the state at the anchor
\* with the bodies before it.
PrevalidateBranch(S, branch) ==
    /\ branch # {}
    /\ \A b \in branch : Pumps(S \cup {c \in branch : Slot[c] < Slot[b]}, b)

\* The headers of the chain that a rollback to the anchor takes off, and of those
\* the ones within k of the newest.
Retain(anchor) ==
    LET tip == Tip(db)
        off == {c \in Lineage(tip) \cap db : /\ Slot[c] > Slot[anchor]
                                             /\ BlockNo[c] + SecurityParam >= BlockNo[tip]}
        all == retention \cup off
    IN  {c \in all : \A d \in all : BlockNo[d] <= BlockNo[c] + SecurityParam}

\* Faulty: a switch whose branch could not be proved also lifts the fence.
RetireSwitchUnfenced ==
    /\ pendingSwitch' = {}
    /\ pendingReselection' = FALSE
    /\ unproven' = IF pendingReselection THEN "fenced" ELSE "dropped"

\* ProofFailed: the decision is retired, the fence stays.
RetireSwitch ==
    /\ pendingSwitch' = {}
    /\ unproven' = IF pendingReselection THEN "fenced" ELSE "dropped"
    /\ UNCHANGED pendingReselection

\* Faulty: the tip is not compared with the anchor after the rollback.
ReconciledNever(S, point) == TRUE

\* durable_tip_matches
Reconciled(S, point) == TipPoint(S) = point

\* The bodies are fetched from the winning peer, the branch is proved, and only
\* then the chain is rolled back to the anchor.
ApplyForkSwitch ==
    /\ pc = "settle"
    /\ \E sw \in pendingSwitch :
       LET branch == sw.frag.headers
           anchor == sw.frag.anchor
           fetched == branch \subseteq Lineage(head[sw.peer])
           provable == fetched /\ PrevalidateBranch(Upto(db, Slot[anchor]), branch)
       IN
       \/ /\ IF provable THEN Fault ELSE UNCHANGED faults
          /\ RetireSwitch
          /\ UNCHANGED <<db, pc, switching>>
       \/ /\ provable
          /\ retention' = Retain(anchor)
          /\ db' = Upto(db, Slot[anchor])
          /\ replaced' = Tip(db)
          /\ \/ /\ Reconciled(db', anchor)
                /\ proven' = branch
                /\ pc' = "rollForward"
             \/ /\ ~Reconciled(db', anchor)
                /\ pc' = "halted"
                /\ UNCHANGED proven
          /\ UNCHANGED <<pendingSwitch, pendingReselection, attempts, postSwitch, unproven, faults>>
    /\ UNCHANGED <<floor, peers, drain, missingBridge, refetch, forging, fresh, stale>>

\* ChainSelected, one block at a time; after the last one the switch is done.
RollForward ==
    /\ pc = "rollForward"
    /\ \E b \in proven, sw \in pendingSwitch :
       /\ \A c \in proven : Slot[b] <= Slot[c]
       /\ db' = IF Pumps(db, b) THEN db \cup {b} ELSE db
       /\ proven' = proven \ (db' \ db)
       /\ \/ /\ proven' # {}
             /\ pc' = IF Pumps(db, b) THEN pc ELSE "halted"
             /\ UNCHANGED <<pending, postSwitch, unproven>>
          \/ /\ proven' = {}
             /\ pc' = "settle"
             /\ pendingSwitch' = {}
             /\ pendingReselection' = FALSE /\ missingBridge' = FALSE
             /\ unproven' = "no"
             /\ postSwitch' = {[peer |-> sw.peer, id |-> <<sw.frag.anchor, b>>]}
             /\ UNCHANGED refetch
       /\ UNCHANGED <<attempts, retention, replaced>>
    /\ UNCHANGED <<floor, peers, drain, forging, fresh, stale, faults>>

-----------------------------------------------------------------------------
(* The rest of the SyncOnce arm.                                             *)

\* prefetch_branch_bodies: the chain of p above a point, up to the block wanted.
PrefetchBranchBodies(p, from, to) ==
    LET path == {c \in Lineage(head[p]) : OnChainOf(from, p) /\ Slot[c] > Slot[from]}
    IN  {c \in path : to \in path => Slot[c] <= Slot[to]}

\* recover_missing_range: each body goes to the pump, up to the first it refuses.
Recovered(got) == {c \in got \ db : \A d \in got \ db : Slot[d] <= Slot[c] => Pumps(db, d)}

\* Faulty: an attempt that admits nothing is not counted.
RetryUncounted(n) == {n}

\* The count that a request goes on with after another attempt in vain, none when it
\* is given up (range_refetch_should_retry).
Retry(n) == IF n + 1 < MaxRangeRefetchAttempts THEN {n + 1} ELSE {}

RangeRefetch ==
    /\ pc = "settle" /\ pendingSwitch = {}
    /\ \E req \in refetch :
       IF \E s \in postSwitch : s.peer = req.peer /\ s.id = req.id
       THEN LET all == PrefetchBranchBodies(req.peer, req.from, req.to) IN
            \E got \in {all} \cup {{c \in all : Slot[c] < Slot[d]} : d \in all} :
            LET new == Recovered(got)
                admitted == /\ new = got \ db
                            /\ req.to \in new \/ (req.to \in db /\ got \cap db # {})
                again == IF admitted THEN {} ELSE Retry(attempts)
            IN
            /\ IF got # all THEN Fault ELSE UNCHANGED faults
            /\ db' = db \cup new
            /\ missingBridge' = (missingBridge /\ ~admitted)
            /\ attempts' \in (IF again = {} THEN {0} ELSE again)
            /\ refetch' = IF again = {} THEN {} ELSE refetch
            /\ stale' = (stale \/ (new # {} /\ req.from \notin db))
       ELSE /\ refetch' = {}
            /\ UNCHANGED <<db, missingBridge, attempts, stale, faults>>
    /\ UNCHANGED <<floor, peers, pc, drain, pendingReselection, pendingSwitch, retention,
                   postSwitch, proven, replaced, forging, fresh, unproven>>

\* forge_followed_tip_admission
CaughtUp == db # {} /\ followed = {Tip(db)}

\* Faulty: a missing bridge does not hold the fence.
FenceResolvedUnbridged == pendingSwitch = {}

\* fork_switch_fence_resolved
FenceResolved == pendingSwitch = {} /\ ~missingBridge /\ CaughtUp

ResolveFence ==
    /\ pc = "settle" /\ pendingSwitch = {} /\ refetch = {}
    /\ pc' = "idle"
    /\ fresh' = FALSE /\ replaced' = Anchor
    /\ pendingReselection' = (pendingReselection /\ ~FenceResolved)
    /\ unproven' = IF ~missingBridge /\ CaughtUp THEN "no" ELSE unproven
    /\ UNCHANGED <<db, floor, peers, drain, pendingSwitch, missingBridge, refetch, attempts,
                   retention, postSwitch, proven, forging, stale, faults>>

-----------------------------------------------------------------------------
(* The forge tick.                                                           *)

\* participant_forge_decision, with the catch-up gate before the first one.
MayForge ==
    /\ pc = "idle"
    /\ ~pendingReselection
    /\ IF extending THEN pendingSwitch = {} /\ ~missingBridge /\ db # {}
       ELSE CaughtUp

\* forge_one_from_recovered on the durable tip and admit_forged_block_durably.  The
\* slot is the present one: no peer has a later block, and it has not been forged in.
ForgeTick(b) ==
    /\ MayForge
    /\ Parent[b] = Tip(db)
    /\ \A p \in Peers : SlotOf(head[p]) <= Slot[b]
    /\ \A c \in forged : Slot[c] < Slot[b]
    /\ forged' = forged \cup {b}
    /\ Pumps(db, b)
    /\ db' = db \cup {b}
    /\ extending' = TRUE
    /\ UNCHANGED <<floor, peers, pc, drain, pending, switching, ghosts>>

\* A slot without leadership: only the first catch-up is latched.
ForgeNotLeader ==
    /\ MayForge
    /\ ~extending
    /\ extending' = TRUE
    /\ UNCHANGED <<db, floor, peers, pc, drain, pending, switching, forged, ghosts>>

-----------------------------------------------------------------------------
(* The process is restarted, and each stream taken up at the durable tip once  *)
(* the peer has it.                                                            *)

Crash ==
    /\ Fault
    /\ floor' = TipPoint(db)
    /\ linked' = {}
    /\ pc' = "idle" /\ followed' = {}
    /\ competing' = [p \in Peers |-> {}] /\ caches' = competing'
    /\ pendingReselection' = FALSE /\ pendingSwitch' = {}
    /\ missingBridge' = FALSE /\ refetch' = {}
    /\ attempts' = 0 /\ retention' = {} /\ postSwitch' = {} /\ proven' = {}
    /\ replaced' = Anchor /\ extending' = FALSE /\ fresh' = FALSE /\ unproven' = "no"
    /\ ptr' = [p \in Peers |-> floor']
    /\ UNCHANGED <<db, head, forged, stale>>

Connect(p) ==
    /\ pc # "halted"
    /\ p \notin linked /\ OnChainOf(floor, p)
    /\ linked' = linked \cup {p}
    /\ UNCHANGED <<db, floor, head, ptr, followed, pc, drain, pending, switching, forging, ghosts>>

-----------------------------------------------------------------------------

Sync(p) == LinearExtend(p) \/ AlreadyHave(p) \/ DispatchCompeting(p) \/ PeerRollBack(p)

Settle == ApplyForkSwitch \/ RollForward \/ RangeRefetch \/ ResolveFence

Next == \/ \E p \in Peers : \E b \in Reaches[p] : PeerAdopts(p, b)
        \/ \E p \in Peers : Sync(p) \/ Connect(p)
        \/ EndDrain
        \/ Settle
        \/ \E b \in Own : ForgeTick(b)
        \/ ForgeNotLeader
        \/ Crash

Spec == Init /\ [][Next]_vars

\* The relay loop is a task of its own that nothing stops.
FairSpec == Spec /\ WF_vars(EndDrain) /\ WF_vars(Settle)

\* What is more, each peer's stream is read.
FeedSpec == FairSpec /\ \A p \in Peers : WF_vars(Sync(p))

-----------------------------------------------------------------------------
\* The durable chain is one chain: each block's parent is the block below it,
\* through admits, switches, rollbacks of any peer, refetched ranges, forged
\* blocks and restarts, although the pump never compares a block's parent with
\* the tip.  The exception is a range refetched above a tip that was rolled back
\* after the range was asked for.
DurableChainLinked == stale \/ db = Lineage(TipPoint(db))

\* Once a switch has rolled the chain back, no block of the replacement can be
\* refused: the process never stops with the old chain gone and the new one
\* incomplete.
NeverAbandon == ~(pc = "halted" /\ proven # {})

\* While the tip it was decided against stands, the pending switch is to the best
\* of all eligible fragments of the drain, and to a better tip, in whatever order
\* they came.
DecisionIsBest ==
    \A sw \in pendingSwitch :
       pc = "drain" /\ fresh /\ ~stale =>
          /\ Preferred(sw.frag.tip, TipPoint(db))
          /\ \A p \in Peers : \A f \in competing[p] :
                Eligible(SelectorState, f) => ~Preferred(f.tip, sw.frag.tip)

\* A switch decided against the tip it replaces ends in a better one and takes at
\* most k blocks off the chain.
FreshSwitchImproves ==
    [][\A sw \in pendingSwitch :
         pc = "rollForward" /\ pc' = "settle" /\ fresh /\ ~stale =>
            /\ Preferred(TipPoint(db'), replaced)
            /\ BlockNo[replaced] <= BlockNo[sw.frag.anchor] + SecurityParam]_vars

\* The node does not forge while a selected branch that failed its proof is
\* neither adopted nor superseded by catching up; a peer's rollback lifts the
\* fence all the same.
FenceHolds == [][forged' # forged => unproven # "fenced"]_vars

\* Every sync pass comes to an end: the loop is back where a forge tick can fire,
\* or has stopped.
SyncPassEnds == (pc = "drain") ~> (pc \in {"idle", "halted"})

\* CN-CONS-03, DC-NODE-41: with every fetch answered, the node ends on a chain no
\* peer's chain is better than, or has stopped.
Converges ==
    <>[](pc = "halted" \/ \A p \in Peers : head[p] # Anchor => ~Preferred(head[p], TipPoint(db)))

=============================================================================
