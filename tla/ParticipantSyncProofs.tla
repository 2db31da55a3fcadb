------------------------ MODULE ParticipantSyncProofs ------------------------
(***************************************************************************)
(* The participant's chain: it stays linked through every way a block can  *)
(* come in, a proven switch is never left half way, and the forge fence    *)
(* holds.                                                                  *)
(***************************************************************************)
EXTENDS ParticipantSync, ChainProofs

Points == Blocks \cup {Anchor}

\* A fragment is what its tip's lineage has above its anchor, which is on it.
FragmentOk(f) ==
    /\ f.tip \in Blocks
    /\ f.anchor \in Lineage(f.tip)
    /\ f.headers = {c \in Lineage(f.tip) : Slot[c] > Slot[f.anchor]}

TypeOK ==
    /\ db \in SUBSET Blocks
    /\ head \in [Peers -> Points] /\ ptr \in [Peers -> Points]
    /\ DOMAIN competing = Peers
    /\ \A p \in Peers : \A f \in competing[p] : FragmentOk(f)
    /\ \A sw \in pendingSwitch : FragmentOk(sw.frag)
    /\ \A req \in refetch : req.peer \in Peers /\ req.from \in Blocks
    /\ proven \in SUBSET Blocks

\* Nothing has been read while nothing is stored.
Fetched == db = {} /\ pc # "halted" => ptr = [p \in Peers |-> Anchor]

\* What is left of a proven branch is a branch that passes the proof.
BranchOk ==
    /\ proven # {} => pc = "rollForward"
    /\ \A b \in proven : Pumps(db \cup {c \in proven : Slot[c] < Slot[b]}, b)
    /\ \A b, c \in proven : Slot[b] = Slot[c] => b = c

\* The chain and what is left of the proven branch are the branch's lineage.
SwitchOk ==
    pc = "rollForward" =>
       \E t \in Blocks : /\ db \cup proven = Lineage(t)
                         /\ \A c \in db, b \in proven : Slot[c] < Slot[b]

ChainOk == stale \/ (Linked(db) /\ SwitchOk)

FenceOk == unproven = "fenced" => pendingReselection

IInv == TypeOK /\ Fetched /\ BranchOk /\ ChainOk /\ FenceOk

-----------------------------------------------------------------------------
(* The operators.                                                            *)

\* A lineage is a chain of blocks.
LEMMA LineageFacts ==
    ASSUME NEW q \in Points
    PROVE  Lineage(q) \subseteq Blocks /\ Linked(Lineage(q))
  BY LineageLinked DEF Points, Linked

\* The stream yields a child of where it has been read to.
LEMMA NextBlockOk ==
    ASSUME TypeOK, NEW p \in Peers, NEW b \in NextBlock(p)
    PROVE  b \in Blocks /\ Parent[b] = ptr[p] /\ pc \in {"idle", "drain"}
<1>1. head[p] \in Points
  BY DEF TypeOK
<1>2. b \in Lineage(head[p]) /\ Parent[b] = ptr[p] /\ pc \in {"idle", "drain"}
  BY DEF NextBlock, Streams
<1> QED
  BY <1>1, <1>2, LineageFacts

\* The tip of a set of blocks is a point.
LEMMA TipPointOk ==
    ASSUME NEW S, S \subseteq Blocks
    PROVE  TipPoint(S) \in Points
  BY TipIsMax DEF TipPoint, Points

\* The stream rolls back to a point, and not when it is at the anchor.
LEMMA RollBackPointOk ==
    ASSUME TypeOK, NEW p \in Peers, NEW to \in RollBackPoint(p)
    PROVE  to \in Points /\ ptr[p] # Anchor /\ pc \in {"idle", "drain"}
<1>1. head[p] \in Points /\ ptr[p] \in Points
  BY DEF TypeOK
<1>2. /\ to = TipPoint(Lineage(ptr[p]) \cap Lineage(head[p]))
      /\ ~OnChainOf(ptr[p], p) /\ pc \in {"idle", "drain"}
  BY DEF RollBackPoint, Streams
<1>3. Lineage(ptr[p]) \cap Lineage(head[p]) \subseteq Blocks
  BY <1>1, LineageFacts
<1>4. to \in Points
  BY <1>2, <1>3, TipPointOk
<1>5. ptr[p] # Anchor
  BY <1>2 DEF OnChainOf
<1> QED
  BY <1>2, <1>4, <1>5

\* walk_to_durable_lca and build_candidate_fragment make a fragment of the block.
LEMMA FragmentIsOk ==
    ASSUME TypeOK, NEW b \in Blocks, NEW known, NEW l \in WalkToDurableLca(b, known)
    PROVE  FragmentOk(Fragment(l, b))
<1> DEFINE stored == Lineage(b) \cap db
           above == {c \in Lineage(b) : Slot[c] > LastSlot(stored)}
<1>1. stored # {} /\ l = [anchor |-> Tip(stored), headers |-> above]
  BY DEF WalkToDurableLca
<1>2. stored \subseteq Blocks /\ b \in Points
  BY DEF TypeOK, Points
<1>3. Tip(stored) \in stored /\ LastSlot(stored) = Slot[Tip(stored)]
  BY <1>1, <1>2, TipIsMax DEF LastSlot
<1>4. l.anchor \in Lineage(b) /\ l.headers = {c \in Lineage(b) : Slot[c] > Slot[l.anchor]}
  BY <1>1, <1>3
<1> DEFINE f == Fragment(l, b)
<1>5. f.tip = b /\ f.anchor = l.anchor /\ f.headers = l.headers
  BY DEF Fragment
<1> QED
  BY <1>4, <1>5 DEF FragmentOk

\* decide_fork_switch decides for a fragment of the peer it names.
LEMMA DecisionIsAFragment ==
    ASSUME NEW p, NEW frags, NEW cands, NEW sw \in DecideForkSwitch(p, frags, cands)
    PROVE  sw.peer \in Peers /\ sw.frag \in frags[sw.peer]
<1> DEFINE chosen == SelectBestChain(SelectorState, cands)
           Ends(f) == /\ Slot[f.tip] = Slot[chosen.state.tip]
                      /\ Body[f.tip] = Body[chosen.state.tip]
           winners == {q \in Peers : \E f \in frags[q] : Ends(f)}
           winner == CHOOSE q \in winners : \A r \in winners : q <= r
<1>1. winners # {} /\ sw \in {[peer |-> winner, frag |-> f] : f \in frags[winner]}
  BY Zenon DEF DecideForkSwitch
<1> HIDE DEF chosen
<1>2. winners \subseteq Nat
  BY ParticipantAssumption
<1>3. \E q \in winners : \A r \in winners : q <= r
  BY <1>1, <1>2, LeastNatural
<1>4. winner \in winners
  BY <1>3
<1> HIDE DEF winner
<1>5. PICK f \in frags[winner] : sw = [peer |-> winner, frag |-> f]
  BY <1>1
<1> QED
  BY <1>4, <1>5

-----------------------------------------------------------------------------
(* The invariant, action by action.                                          *)

\* A node that starts at its anchor is in order.
LEMMA InitOk == Init => IInv
<1> SUFFICES ASSUME Init PROVE IInv
  OBVIOUS
<1>1. TypeOK
  BY DEF Init, TypeOK, Points
<1>2. Fetched /\ BranchOk /\ FenceOk
  BY DEF Init, Fetched, BranchOk, FenceOk
<1>3. Linked(db) /\ SwitchOk
  BY LinkedEmpty DEF Init, SwitchOk
<1> QED
  BY <1>1, <1>2, <1>3 DEF IInv, ChainOk

\* Outside a roll-forward nothing proven is left.
LEMMA NothingProven ==
    ASSUME BranchOk, pc # "rollForward", proven' = proven
    PROVE  proven = {} /\ BranchOk'
  BY DEF BranchOk

\* A peer's chain may be any.
LEMMA PeerAdoptsOk ==
    ASSUME IInv, NEW p \in Peers, NEW b \in Reaches[p], PeerAdopts(p, b)
    PROVE  IInv'
<1>0. b \in Points
  BY ParticipantAssumption DEF Points
<1>1. /\ head' = [head EXCEPT ![p] = b]
      /\ UNCHANGED <<db, ptr, competing, pendingSwitch, refetch, proven, pc, stale,
                     unproven, pendingReselection>>
  BY DEF PeerAdopts, drain, pending, switching, ghosts
<1>2. TypeOK'
  BY <1>0, <1>1 DEF IInv, TypeOK
<1>3. Fetched' /\ ChainOk' /\ FenceOk'
  BY <1>1 DEF IInv, Fetched, ChainOk, FenceOk, SwitchOk, Linked
<1>4. BranchOk'
  BY <1>1 DEF IInv, BranchOk, Pumps
<1> QED
  BY <1>2, <1>3, <1>4 DEF IInv

\* A linear extension continues the chain: its parent is the tip, or the stream is
\* at the anchor.
LEMMA LinearExtendOk ==
    ASSUME IInv, NEW p \in Peers, LinearExtend(p)
    PROVE  IInv'
<1>1. PICK b \in NextBlock(p) :
       /\ Read(p, b)
       /\ db # {} => b \notin db /\ Extends(b)
       /\ \/ /\ db' = db \cup {b} /\ pc' = "drain"
             /\ UNCHANGED <<drain, pendingReselection, pendingSwitch, refetch>>
          \/ Halt
       /\ UNCHANGED <<switching, unproven, stale>>
  BY DEF LinearExtend
<1>2. b \in Blocks /\ Parent[b] = ptr[p] /\ pc \in {"idle", "drain"}
  BY NextBlockOk DEF IInv
<1>3. /\ ptr' = [ptr EXCEPT ![p] = b]
      /\ UNCHANGED <<head, competing, pendingSwitch, refetch, proven, stale, unproven,
                     pendingReselection>>
  BY <1>1 DEF Read, Halt, drain, pending, switching
<1>4. \/ db' = db \cup {b} /\ pc' = "drain"
      \/ db' = db /\ pc' = "halted"
  BY <1>1 DEF Halt
<1>5. TypeOK'
  BY <1>2, <1>3, <1>4 DEF IInv, TypeOK, Points
<1>6. Fetched'
  BY <1>4 DEF Fetched
<1>7. BranchOk'
  BY <1>2, <1>3, NothingProven DEF IInv
<1>8. ASSUME ~stale PROVE Linked(db')
  <2>1. Linked(db)
    BY <1>8 DEF IInv, ChainOk
  <2>2. Parent[b] = TipPoint(db)
    BY <1>1, <1>2 DEF IInv, Fetched, TipPoint, Extends
  <2> QED
    BY <1>2, <1>4, <2>1, <2>2, LinkedExtend
<1>9. ChainOk'
  BY <1>3, <1>4, <1>8 DEF ChainOk, SwitchOk, Linked
<1>10. FenceOk'
  BY <1>3 DEF IInv, FenceOk
<1> QED
  BY <1>5, <1>6, <1>7, <1>9, <1>10 DEF IInv

\* A block that is stored already is only read.
LEMMA AlreadyHaveOk ==
    ASSUME IInv, NEW p \in Peers, AlreadyHave(p)
    PROVE  IInv'
<1>1. PICK b \in NextBlock(p) \cap db :
         /\ Read(p, b) /\ pc' = "drain"
         /\ UNCHANGED <<db, drain, pending, switching, ghosts>>
  BY DEF AlreadyHave
<1>2. b \in Blocks /\ pc \in {"idle", "drain"} /\ db # {}
  BY NextBlockOk DEF IInv
<1>3. /\ ptr' = [ptr EXCEPT ![p] = b]
      /\ UNCHANGED <<db, head, competing, pendingSwitch, refetch, proven, stale, unproven,
                     pendingReselection>>
  BY <1>1 DEF Read, drain, pending, switching, ghosts
<1>4. TypeOK'
  BY <1>2, <1>3 DEF IInv, TypeOK, Points
<1>5. Fetched' /\ FenceOk'
  BY <1>2, <1>3 DEF IInv, Fetched, FenceOk
<1>6. BranchOk'
  BY <1>2, <1>3, NothingProven DEF IInv
<1>7. ChainOk'
  BY <1>1, <1>3 DEF IInv, ChainOk, SwitchOk, Linked
<1> QED
  BY <1>4, <1>5, <1>6, <1>7 DEF IInv

\* A competing header changes nothing durable; what it makes pending is a fragment,
\* or a range from the tip.
LEMMA DispatchCompetingOk ==
    ASSUME IInv, NEW p \in Peers, DispatchCompeting(p)
    PROVE  IInv'
<1>1. PICK b \in NextBlock(p) \ db :
    LET lca == WalkToDurableLca(b, caches[p] \cup {b} \cup retention)
        frags == [competing EXCEPT ![p] = {Fragment(l, b) : l \in lca}]
        fills == {s \in postSwitch : s.peer = p /\ Slot[b] > Slot[Tip(db)]}
    IN
    /\ db # {}
    /\ Read(p, b)
    /\ pc' = "drain"
    /\ \/ /\ refetch' = IF fills = {} THEN refetch
                        ELSE {[peer |-> p, from |-> Tip(db), to |-> b, id |-> s.id] : s \in fills}
          /\ UNCHANGED <<competing, pendingReselection, pendingSwitch>>
       \/ /\ competing' = frags
          /\ \E cands \in AssembleCandidateSet(frags) :
             LET switch == DecideForkSwitch(p, frags, cands) IN
             /\ pendingSwitch' = IF switch = {} THEN pendingSwitch ELSE switch
             /\ pendingReselection' = (pendingReselection \/ switch # {})
          /\ UNCHANGED refetch
    /\ UNCHANGED <<db, switching, unproven, stale>>
  BY Zenon DEF DispatchCompeting
<1> DEFINE lca == WalkToDurableLca(b, caches[p] \cup {b} \cup retention)
           frags == [competing EXCEPT ![p] = {Fragment(l, b) : l \in lca}]
           fills == {s \in postSwitch : s.peer = p /\ Slot[b] > Slot[Tip(db)]}
<1>2. b \in Blocks /\ pc \in {"idle", "drain"} /\ db # {} /\ Tip(db) \in Blocks
  BY <1>1, NextBlockOk, TipIsMax DEF IInv, TypeOK
<1>3. \A l \in lca : FragmentOk(Fragment(l, b))
  BY <1>2, FragmentIsOk DEF IInv
<1> HIDE DEF lca
<1>4. DOMAIN frags = Peers /\ \A q \in Peers : \A f \in frags[q] : FragmentOk(f)
  BY <1>3 DEF IInv, TypeOK
<1>5. /\ ptr' = [ptr EXCEPT ![p] = b]
      /\ pc' = "drain"
      /\ UNCHANGED <<db, head, proven, stale, unproven>>
  BY <1>1 DEF Read, switching
<1>6. /\ DOMAIN competing' = Peers
      /\ \A q \in Peers : \A f \in competing'[q] : FragmentOk(f)
  BY <1>1, <1>4, Zenon DEF IInv, TypeOK, lca
<1>7. \A sw \in pendingSwitch' : FragmentOk(sw.frag)
  <2>1. \A sw \in pendingSwitch : FragmentOk(sw.frag)
    BY DEF IInv, TypeOK
  <2>2. CASE pendingSwitch' = pendingSwitch
    BY <2>1, <2>2
  <2>3. CASE \E cands : pendingSwitch' = DecideForkSwitch(p, frags, cands)
    <3>1. PICK cands : pendingSwitch' = DecideForkSwitch(p, frags, cands)
      BY <2>3
    <3>2. \A sw \in pendingSwitch' : sw.peer \in Peers /\ sw.frag \in frags[sw.peer]
      BY <3>1, DecisionIsAFragment
    <3> QED
      BY <1>4, <3>2
  <2>4. \/ pendingSwitch' = pendingSwitch
        \/ \E cands : pendingSwitch' = DecideForkSwitch(p, frags, cands)
    BY <1>1, Zenon DEF lca
  <2> QED
    BY <2>2, <2>3, <2>4
<1>8. \A req \in refetch' : req.peer \in Peers /\ req.from \in Blocks
  <2>1. \/ refetch' = refetch
        \/ refetch' = {[peer |-> p, from |-> Tip(db), to |-> b, id |-> s.id] : s \in fills}
    BY <1>1, Zenon
  <2> QED
    BY <1>2, <2>1 DEF IInv, TypeOK
<1>9. TypeOK'
  BY <1>2, <1>5, <1>6, <1>7, <1>8 DEF IInv, TypeOK, Points
<1>10. Fetched'
  BY <1>2, <1>5 DEF Fetched
<1>11. BranchOk'
  BY <1>2, <1>5, NothingProven DEF IInv
<1>12. ChainOk'
  BY <1>5 DEF IInv, ChainOk, SwitchOk, Linked
<1>13. FenceOk'
  <2>1. pendingReselection => pendingReselection'
    BY <1>1, Zenon
  <2> QED
    BY <1>5, <2>1 DEF IInv, FenceOk
<1> QED
  BY <1>9, <1>10, <1>11, <1>12, <1>13 DEF IInv

\* A rollback of a peer cuts the chain back to a stored block or not at all.
LEMMA PeerRollBackOk ==
    ASSUME IInv, NEW p \in Peers, PeerRollBack(p)
    PROVE  IInv'
<1>1. PICK to \in RollBackPoint(p) :
         /\ Read(p, to)
         /\ \/ UNCHANGED <<db, drain, pending, unproven>> /\ pc' = "drain"
            \/ UNCHANGED <<db, drain, pending, unproven>> /\ pc' = "halted"
            \/ /\ to \in db /\ db' = Upto(db, Slot[to])
               /\ unproven' = IF unproven = "fenced" THEN "dropped" ELSE unproven
               /\ pc' = "drain"
               /\ UNCHANGED <<drain, pendingSwitch, refetch>>
         /\ UNCHANGED <<switching, stale>>
  BY DEF PeerRollBack, Halt
<1>2. to \in Points /\ ptr[p] # Anchor /\ pc \in {"idle", "drain"}
  BY RollBackPointOk DEF IInv
<1>3. /\ ptr' = [ptr EXCEPT ![p] = to]
      /\ pc' # "rollForward"
      /\ UNCHANGED <<head, competing, pendingSwitch, refetch, proven, stale>>
  BY <1>1 DEF Read, drain, pending, switching
<1>4. \/ db' = db
      \/ to \in db /\ db' = Upto(db, Slot[to])
  BY <1>1
<1>5. TypeOK'
  BY <1>2, <1>3, <1>4 DEF IInv, TypeOK, Upto
<1>6. Fetched'
  <2>1. db # {}
    BY <1>2 DEF IInv, TypeOK, Fetched
  <2>2. to \in db => Slot[to] \in Nat
    BY SlotIsNat DEF IInv, TypeOK
  <2>3. db' # {}
    BY <1>4, <2>1, <2>2 DEF Upto
  <2> QED
    BY <2>3 DEF Fetched
<1>7. BranchOk'
  BY <1>2, <1>3, NothingProven DEF IInv
<1>8. ASSUME ~stale PROVE Linked(db')
  <2>1. Linked(db) /\ db \subseteq Blocks
    BY <1>8 DEF IInv, ChainOk, TypeOK
  <2> QED
    BY <1>4, <2>1, SlotIsNat, LinkedUpto
<1>9. ChainOk'
  BY <1>3, <1>8 DEF ChainOk, SwitchOk, Linked
<1>10. FenceOk'
  <2>1. CASE UNCHANGED <<unproven, pendingReselection>>
    BY <2>1 DEF IInv, FenceOk
  <2>2. CASE unproven' # "fenced"
    BY <2>2 DEF FenceOk
  <2> QED
    BY <1>1, <2>1, <2>2 DEF pending
<1> QED
  BY <1>5, <1>6, <1>7, <1>9, <1>10 DEF IInv

\* The fragments go with the drain.
LEMMA EndDrainOk ==
    ASSUME IInv, EndDrain
    PROVE  IInv'
<1>1. /\ pc = "drain" /\ pc' = "settle"
      /\ competing' = [p \in Peers |-> {}]
      /\ UNCHANGED <<db, head, ptr, pendingSwitch, refetch, proven, stale, unproven,
                     pendingReselection>>
  BY DEF EndDrain, peers, pending, switching, ghosts
<1>2. TypeOK'
  BY <1>1 DEF IInv, TypeOK
<1>3. Fetched' /\ FenceOk'
  BY <1>1 DEF IInv, Fetched, FenceOk
<1>4. BranchOk'
  BY <1>1, NothingProven DEF IInv
<1>5. ChainOk'
  BY <1>1 DEF IInv, ChainOk, SwitchOk, Linked
<1> QED
  BY <1>2, <1>3, <1>4, <1>5 DEF IInv

\* A chain that ends at a block of a lineage is the lineage up to there.
LEMMA ChainMeetsLineage ==
    ASSUME NEW S, Linked(S), NEW t \in Blocks, NEW a \in Lineage(t), TipPoint(S) = a
    PROVE  S = Upto(Lineage(t), Slot[a])
<1>1. Linked(Lineage(t)) /\ Lineage(t) \subseteq Blocks /\ a \in Blocks
  BY LineageFacts DEF Points
<1>2. S # {} /\ Tip(S) = a /\ S \subseteq Blocks
  BY <1>1, AnchorAssumption DEF TipPoint, Linked
<1>3. a \in S /\ \A c \in S : Slot[c] <= Slot[a]
  BY <1>2, TipIsMax
<1>4. Upto(S, Slot[a]) = Upto(Lineage(t), Slot[a])
  BY <1>1, <1>3, LinkedShared
<1>5. Upto(S, Slot[a]) = S
  BY <1>3 DEF Upto
<1> QED
  BY <1>4, <1>5

\* A chain cut back to a fragment's anchor, with the fragment, is the lineage of its tip.
LEMMA SwitchStarts ==
    ASSUME NEW S, Linked(S), NEW f, FragmentOk(f), TipPoint(S) = f.anchor
    PROVE  /\ S \cup f.headers = Lineage(f.tip)
           /\ \A c \in S, b \in f.headers : Slot[c] < Slot[b]
<1>1. /\ f.tip \in Blocks /\ f.anchor \in Lineage(f.tip)
      /\ f.headers = {c \in Lineage(f.tip) : Slot[c] > Slot[f.anchor]}
  BY DEF FragmentOk
<1>2. S = Upto(Lineage(f.tip), Slot[f.anchor])
  BY <1>1, ChainMeetsLineage
<1>3. \A c \in Lineage(f.tip) : Slot[c] \in Nat
  BY <1>1, LineageFacts, SlotIsNat DEF Points
<1> QED
  BY <1>1, <1>2, <1>3 DEF Upto

\* The switch is retired with the fence up, or the chain is cut back to the anchor
\* and the proven branch stands above it.
LEMMA ApplyForkSwitchOk ==
    ASSUME IInv, ApplyForkSwitch
    PROVE  IInv'
<1>1. PICK sw \in pendingSwitch :
       \/ RetireSwitch /\ UNCHANGED <<db, pc, switching>>
       \/ /\ PrevalidateBranch(Upto(db, Slot[sw.frag.anchor]), sw.frag.headers)
          /\ db' = Upto(db, Slot[sw.frag.anchor])
          /\ \/ /\ Reconciled(db', sw.frag.anchor)
                /\ proven' = sw.frag.headers
                /\ pc' = "rollForward"
             \/ /\ pc' = "halted"
                /\ UNCHANGED proven
          /\ UNCHANGED <<pendingSwitch, pendingReselection, unproven>>
  BY DEF ApplyForkSwitch
<1>2. pc = "settle" /\ UNCHANGED <<head, ptr, competing, refetch, stale>>
  BY DEF ApplyForkSwitch, peers, drain
<1> DEFINE t == sw.frag.tip
           anchor == sw.frag.anchor
           branch == sw.frag.headers
<1>3. /\ t \in Blocks /\ anchor \in Lineage(t)
      /\ branch = {c \in Lineage(t) : Slot[c] > Slot[anchor]}
  BY DEF IInv, TypeOK, FragmentOk
<1>4. Lineage(t) \subseteq Blocks /\ Linked(Lineage(t)) /\ anchor \in Blocks
  BY <1>3, LineageFacts DEF Points
<1>5. proven = {} /\ (proven' = proven => BranchOk')
  BY <1>2 DEF IInv, BranchOk
<1> HIDE DEF t, anchor, branch
<1>6. CASE RetireSwitch /\ UNCHANGED <<db, pc, switching>>
  <2>1. pendingSwitch' = {} /\ UNCHANGED <<db, pc, proven, pendingReselection>>
    BY <1>6 DEF RetireSwitch, switching
  <2>2. TypeOK'
    BY <1>2, <2>1 DEF IInv, TypeOK
  <2>3. Fetched'
    BY <1>2, <2>1 DEF IInv, Fetched
  <2>4. BranchOk'
    BY <1>5, <2>1
  <2>5. ChainOk'
    BY <1>2, <2>1 DEF IInv, ChainOk, SwitchOk, Linked
  <2>6. FenceOk'
    BY <1>6, <2>1 DEF RetireSwitch, FenceOk
  <2> QED
    BY <2>2, <2>3, <2>4, <2>5, <2>6 DEF IInv
<1>7. CASE /\ PrevalidateBranch(Upto(db, Slot[anchor]), branch)
           /\ db' = Upto(db, Slot[anchor])
           /\ Reconciled(db', anchor) /\ proven' = branch /\ pc' = "rollForward"
           /\ UNCHANGED <<pendingSwitch, pendingReselection, unproven>>
  <2>1. TypeOK'
    BY <1>2, <1>3, <1>4, <1>7 DEF IInv, TypeOK, Upto
  <2>2. TipPoint(db') = anchor
    BY <1>7 DEF Reconciled
  <2>3. Fetched'
    BY <1>4, <2>2, AnchorAssumption DEF Fetched, TipPoint
  <2>4. \A b, c \in branch : Slot[b] = Slot[c] => b = c
    BY <1>3, <1>4 DEF Linked
  <2>5. BranchOk'
    BY <1>7, <2>4 DEF BranchOk, PrevalidateBranch, Pumps
  <2>6. ASSUME ~stale PROVE Linked(db') /\ SwitchOk'
    <3>1. Linked(db')
      BY <1>4, <1>7, <2>6, SlotIsNat, LinkedUpto DEF IInv, ChainOk
    <3>2. FragmentOk(sw.frag)
      BY DEF IInv, TypeOK
    <3>3. /\ db' \cup branch = Lineage(t)
          /\ \A c \in db', b \in branch : Slot[c] < Slot[b]
      BY <2>2, <3>1, <3>2, SwitchStarts DEF t, anchor, branch
    <3> QED
      BY <1>3, <1>7, <3>1, <3>3 DEF SwitchOk
  <2>7. ChainOk'
    BY <1>2, <2>6 DEF ChainOk, Linked
  <2>8. FenceOk'
    BY <1>7 DEF IInv, FenceOk
  <2> QED
    BY <2>1, <2>3, <2>5, <2>7, <2>8 DEF IInv
<1>8. CASE /\ db' = Upto(db, Slot[anchor]) /\ pc' = "halted"
           /\ UNCHANGED <<proven, pendingSwitch, pendingReselection, unproven>>
  <2>1. TypeOK'
    BY <1>2, <1>8 DEF IInv, TypeOK, Upto
  <2>2. Fetched' /\ FenceOk'
    BY <1>8 DEF IInv, Fetched, FenceOk
  <2>3. BranchOk'
    BY <1>5, <1>8
  <2>4. ASSUME ~stale PROVE Linked(db')
    BY <1>4, <1>8, <2>4, SlotIsNat, LinkedUpto DEF IInv, ChainOk
  <2>5. ChainOk'
    BY <1>2, <1>8, <2>4 DEF ChainOk, SwitchOk, Linked
  <2> QED
    BY <2>1, <2>2, <2>3, <2>5 DEF IInv
<1> QED
  BY <1>1, <1>6, <1>7, <1>8 DEF anchor, branch

\* The first block of what is left of the branch is admitted, and continues the chain.
LEMMA RollForwardOk ==
    ASSUME IInv, RollForward
    PROVE  IInv'
<1>1. PICK b \in proven, sw \in pendingSwitch :
       /\ \A c \in proven : Slot[b] <= Slot[c]
       /\ db' = IF Pumps(db, b) THEN db \cup {b} ELSE db
       /\ proven' = proven \ (db' \ db)
       /\ \/ /\ proven' # {}
             /\ pc' = IF Pumps(db, b) THEN pc ELSE "halted"
             /\ UNCHANGED <<pending, postSwitch, unproven>>
          \/ /\ proven' = {}
             /\ pc' = "settle"
             /\ pendingSwitch' = {}
             /\ unproven' = "no"
             /\ UNCHANGED refetch
  BY DEF RollForward
<1>2. pc = "rollForward" /\ UNCHANGED <<head, ptr, competing, stale>>
  BY DEF RollForward, peers, drain
<1>3. /\ proven \subseteq Blocks /\ db \subseteq Blocks
      /\ \A x \in proven \cup db : Slot[x] \in Nat
  BY SlotIsNat DEF IInv, TypeOK
<1>4. {c \in proven : Slot[c] < Slot[b]} = {}
  BY <1>1, <1>3
<1>5. Pumps(db, b)
  <2>1. Pumps(db \cup {c \in proven : Slot[c] < Slot[b]}, b)
    BY DEF IInv, BranchOk
  <2> QED
    BY <1>4, <2>1 DEF Pumps, ExtendsState
<1>6. b \notin db
  BY <1>3, <1>5 DEF Pumps, ExtendsState
<1>7. db' = db \cup {b} /\ proven' = proven \ {b}
  BY <1>1, <1>5, <1>6
<1>8. \A c \in proven' : Slot[b] < Slot[c]
  <2> TAKE c \in proven'
  <2>1. c \in proven /\ c # b /\ Slot[b] <= Slot[c]
    BY <1>1, <1>7
  <2>2. Slot[b] # Slot[c]
    BY <2>1 DEF IInv, BranchOk
  <2> QED
    BY <1>3, <2>1, <2>2
<1>9. \/ proven' # {} /\ pc' = "rollForward" /\ UNCHANGED <<pendingSwitch, refetch, unproven, pendingReselection>>
      \/ proven' = {} /\ pc' = "settle" /\ pendingSwitch' = {} /\ unproven' = "no" /\ UNCHANGED refetch
  BY <1>1, <1>2, <1>5 DEF pending
<1>10. TypeOK'
  BY <1>2, <1>3, <1>7, <1>9 DEF IInv, TypeOK
<1>11. Fetched'
  BY <1>7 DEF Fetched
<1>12. BranchOk'
  <2>1. ASSUME NEW x \in proven' PROVE Pumps(db' \cup {c \in proven' : Slot[c] < Slot[x]}, x)
    <3>1. x \in proven /\ Slot[b] < Slot[x]
      BY <1>7, <1>8, <2>1
    <3>2. db' \cup {c \in proven' : Slot[c] < Slot[x]}
             = db \cup {c \in proven : Slot[c] < Slot[x]}
      BY <1>7, <3>1
    <3> QED
      BY <3>1, <3>2 DEF IInv, BranchOk
  <2>2. \A x, c \in proven' : Slot[x] = Slot[c] => x = c
    BY <1>7 DEF IInv, BranchOk
  <2> QED
    BY <1>9, <2>1, <2>2 DEF BranchOk, Pumps
<1>13. ASSUME ~stale PROVE Linked(db') /\ SwitchOk'
  <2>1. PICK t \in Blocks : /\ db \cup proven = Lineage(t)
                            /\ \A c \in db, d \in proven : Slot[c] < Slot[d]
    BY <1>2, <1>13 DEF IInv, ChainOk, SwitchOk
  <2>2. Linked(Lineage(t)) /\ b \in Lineage(t)
    BY <2>1, LineageFacts DEF Points
  <2>3. Below(Lineage(t), b) = db
    BY <1>1, <1>3, <2>1 DEF Below
  <2>4. Parent[b] = TipPoint(db) /\ b \in Blocks
    BY <1>3, <2>2, <2>3 DEF Linked
  <2>5. Linked(db')
    BY <1>7, <1>13, <2>4, LinkedExtend DEF IInv, ChainOk
  <2>6. db' \cup proven' = Lineage(t)
    BY <1>7, <2>1
  <2>7. \A c \in db', d \in proven' : Slot[c] < Slot[d]
    BY <1>7, <1>8, <2>1
  <2> QED
    BY <2>5, <2>6, <2>7 DEF SwitchOk
<1>14. ChainOk'
  BY <1>2, <1>13 DEF ChainOk, Linked
<1>15. FenceOk'
  BY <1>9 DEF IInv, FenceOk
<1> QED
  BY <1>10, <1>11, <1>12, <1>14, <1>15 DEF IInv

\* Heights grow along a chain.
LEMMA HeightsGrow ==
    ASSUME NEW S, Linked(S), NEW q \in S, NEW t \in S, Slot[q] < Slot[t]
    PROVE  BlockNo[q] < BlockNo[t]
<1> DEFINE bad == {c \in S : Slot[q] < Slot[c] /\ ~(BlockNo[q] < BlockNo[c])}
           slots == {Slot[c] : c \in bad}
<1>0. S \subseteq Blocks /\ \A c \in S : Slot[c] \in Nat /\ BlockNo[c] \in Nat
  BY SlotIsNat, TreeAssumption DEF Linked
<1>1. SUFFICES ASSUME bad # {} PROVE FALSE
  OBVIOUS
<1>2. PICK n \in slots : \A m \in slots : n <= m
  BY <1>0, <1>1, LeastNatural
<1>3. PICK c \in bad : n = Slot[c]
  OBVIOUS
<1>4. /\ Parent[c] \in S /\ Parent[c] # Anchor /\ Slot[Parent[c]] < Slot[c]
      /\ Slot[q] <= Slot[Parent[c]]
  BY <1>3, LinkedParent
<1>5. BlockNo[Parent[c]] < BlockNo[c] /\ Parent[c] \in Blocks
  BY <1>0, <1>3, <1>4, TreeAssumption
<1>6. CASE Parent[c] = q
  BY <1>0, <1>3, <1>5, <1>6
<1>7. CASE Parent[c] # q
  <2>1. Slot[q] < Slot[Parent[c]]
    BY <1>0, <1>3, <1>4, <1>7 DEF Linked
  <2>2. Parent[c] \notin bad
    BY <1>0, <1>2, <1>3, <1>4
  <2> QED
    BY <1>0, <1>3, <1>4, <1>5, <2>1, <2>2
<1> QED
  BY <1>6, <1>7

\* A block higher than the whole chain whose parent is on it continues it.
LEMMA HigherChild ==
    ASSUME NEW S, Linked(S), NEW d \in Blocks, Parent[d] \in S, ExtendsState(S, d)
    PROVE  Parent[d] = TipPoint(S) /\ Linked(S \cup {d})
<1> DEFINE q == Parent[d]
           t == Tip(S)
<1>1. S \subseteq Blocks /\ t \in S /\ \A c \in S : Slot[c] <= Slot[t]
  BY TipIsMax DEF Linked
<1>2. \A c \in S : Slot[c] \in Nat /\ BlockNo[c] \in Nat
  BY <1>1, SlotIsNat, TreeAssumption
<1>3. q = t
  <2>1. SUFFICES ASSUME q # t PROVE FALSE
    OBVIOUS
  <2>2. Slot[q] < Slot[t]
    BY <1>1, <1>2, <2>1 DEF Linked
  <2>3. BlockNo[q] < BlockNo[t]
    BY <1>1, <2>2, HeightsGrow
  <2>4. BlockNo[d] = BlockNo[q] + 1 /\ BlockNo[t] < BlockNo[d]
    BY <1>1, HeightAssumption, AnchorAssumption DEF ExtendsState
  <2> QED
    BY <1>1, <1>2, <2>3, <2>4
<1>4. Parent[d] = TipPoint(S)
  BY <1>1, <1>3 DEF TipPoint
<1> QED
  BY <1>4, LinkedExtend

\* What the refetch of a range admits above a stored block continues the chain.
LEMMA RecoveredLinked ==
    ASSUME Linked(db), NEW t \in Points, NEW from \in db, from \in Lineage(t), NEW got,
           \A c \in got : c \in Lineage(t) /\ Slot[from] < Slot[c],
           \A c \in got : \A e \in Lineage(t) :
              Slot[from] < Slot[e] /\ Slot[e] <= Slot[c] => e \in got
    PROVE  Linked(db \cup Recovered(got))
<1> DEFINE L == Lineage(t)
           new == Recovered(got)
           slots == {Slot[c] : c \in new}
<1>1. L \subseteq Blocks /\ Linked(L) /\ \A c \in L : Slot[c] \in Nat
  BY LineageFacts, SlotIsNat
<1>2. new \subseteq got /\ got \subseteq L
  BY DEF Recovered
<1>3. CASE new = {}
  BY <1>3
<1>4. CASE new # {}
  <2>1. PICK n \in slots : \A m \in slots : n <= m
    BY <1>1, <1>2, <1>4, LeastNatural
  <2>2. PICK d \in new : n = Slot[d]
    OBVIOUS
  <2>3. /\ d \in got \ db /\ Pumps(db, d)
        /\ \A e \in got \ db : Slot[e] <= Slot[d] => Pumps(db, e)
    BY <1>1, <1>2 DEF Recovered
  <2> DEFINE q == Parent[d]
  <2>4. q \in L /\ Slot[q] < Slot[d] /\ Slot[from] <= Slot[q]
    BY <1>1, <1>2, <2>3, LinkedParent
  <2>5. q \in db
    <3>1. SUFFICES ASSUME q \notin db PROVE FALSE
      OBVIOUS
    <3>2. Slot[from] < Slot[q]
      <4>1. Slot[from] # Slot[q]
        BY <1>1, <2>4, <3>1, Zenon DEF Linked
      <4>2. Slot[from] \in Nat /\ Slot[q] \in Nat
        BY <1>1, <2>4, Zenon
      <4> QED
        BY <2>4, <4>1, <4>2
    <3>3. q \in got \ db
      BY <1>1, <1>2, <2>3, <2>4, <3>1, <3>2
    <3>4. \A e \in got \ db : Slot[e] <= Slot[q] => Slot[e] <= Slot[d]
      BY <1>1, <1>2, <2>3, <2>4
    <3>5. q \in new
      BY <2>3, <3>3, <3>4 DEF Recovered
    <3> QED
      BY <1>1, <1>2, <2>1, <2>2, <2>3, <2>4, <3>5
  <2>6. q = TipPoint(db)
    BY <1>1, <1>2, <2>3, <2>5, HigherChild DEF Pumps
  <2>7. t \in Blocks
    BY LineageEquation DEF Points
  <2>8. db = Upto(L, Slot[q])
    BY <2>4, <2>6, <2>7, ChainMeetsLineage
  <2> DEFINE m == Tip(new)
  <2>9. m \in new /\ m \in L /\ \A c \in new : Slot[c] <= Slot[m]
    BY <1>1, <1>2, <1>4, TipIsMax
  <2>10. m \in got \ db /\ \A e \in got \ db : Slot[e] <= Slot[m] => Pumps(db, e)
    BY <2>9 DEF Recovered
  <2> HIDE DEF m, q
  <2>11. Slot[q] <= Slot[m]
    BY <1>1, <1>2, <2>2, <2>4, <2>9
  <2>12. ASSUME NEW e \in L, Slot[e] <= Slot[m], e \notin db PROVE e \in new
    <3>1. Slot[q] < Slot[e]
      BY <1>1, <2>4, <2>8, <2>12 DEF Upto
    <3>2. Slot[from] < Slot[e]
      BY <1>1, <2>4, <3>1
    <3>3. e \in got \ db
      BY <2>10, <2>12, <3>2
    <3>4. \A x \in got \ db : Slot[x] <= Slot[e] => Slot[x] <= Slot[m]
      BY <1>1, <1>2, <2>9, <2>12
    <3> QED
      BY <2>10, <3>3, <3>4 DEF Recovered
  <2>13. db \cup new = Upto(L, Slot[m])
    <3>1. \A e \in db : e \in L /\ Slot[e] <= Slot[m]
      BY <1>1, <2>4, <2>8, <2>9, <2>11 DEF Upto
    <3>2. \A e \in new : e \in L /\ Slot[e] <= Slot[m]
      BY <1>2, <2>9
    <3> HIDE DEF new, L
    <3> QED
      BY <2>12, <3>1, <3>2 DEF Upto
  <2> QED
    BY <1>1, <2>9, <2>13, LinkedUpto
<1> QED
  BY <1>3, <1>4

\* The refetch keeps the chain linked unless the point it starts from is gone.
LEMMA RangeRefetchOk ==
    ASSUME IInv, RangeRefetch
    PROVE  IInv'
<1>1. PICK req \in refetch :
       \/ LET all == PrefetchBranchBodies(req.peer, req.from, req.to) IN
            \E got \in {all} \cup {{c \in all : Slot[c] < Slot[d]} : d \in all} :
            LET new == Recovered(got)
            IN
            /\ db' = db \cup new
            /\ refetch' = {} \/ refetch' = refetch
            /\ stale' = (stale \/ (new # {} /\ req.from \notin db))
       \/ /\ refetch' = {}
          /\ UNCHANGED <<db, stale>>
  BY DEF RangeRefetch
<1>2. /\ pc = "settle" /\ pendingSwitch = {}
      /\ UNCHANGED <<head, ptr, competing, pc, pendingReselection, pendingSwitch, proven, unproven>>
  BY DEF RangeRefetch, peers, drain
<1>3. req.peer \in Peers /\ req.from \in Blocks
  BY DEF IInv, TypeOK
<1> DEFINE t == head[req.peer]
           L == Lineage(t)
           from == req.from
           all == PrefetchBranchBodies(req.peer, from, req.to)
<1>4. t \in Points /\ L \subseteq Blocks /\ \A c \in L : Slot[c] \in Nat
  BY <1>3, LineageFacts, SlotIsNat DEF IInv, TypeOK
<1>5. /\ all \subseteq L
      /\ \A c \in all : Slot[from] < Slot[c] /\ from \in L
      /\ \A c \in all : \A e \in L : Slot[from] < Slot[e] /\ Slot[e] <= Slot[c] => e \in all
  <2>0. from # Anchor /\ Slot[from] \in Nat
    BY <1>3, SlotIsNat
  <2> DEFINE path == {c \in L : OnChainOf(from, req.peer) /\ Slot[c] > Slot[from]}
  <2>1. all = {c \in path : req.to \in path => Slot[c] <= Slot[req.to]}
    BY DEF PrefetchBranchBodies
  <2> HIDE DEF all
  <2>2. \A c \in path : Slot[from] < Slot[c] /\ from \in L
    BY <1>4, <2>0 DEF OnChainOf
  <2>3. \A c \in path : \A e \in L : Slot[from] < Slot[e] => e \in path
    BY <1>4, <2>0
  <2>4. path \subseteq L
    OBVIOUS
  <2> HIDE DEF path, L, t
  <2> QED
    BY <1>4, <2>1, <2>2, <2>3, <2>4
<1> HIDE DEF all
<1>6. CASE UNCHANGED <<db, stale>> /\ refetch' = {}
  <2>1. TypeOK'
    BY <1>2, <1>6 DEF IInv, TypeOK
  <2>2. Fetched' /\ FenceOk'
    BY <1>2, <1>6 DEF IInv, Fetched, FenceOk
  <2>3. BranchOk'
    BY <1>2, NothingProven DEF IInv
  <2>4. ChainOk'
    BY <1>2, <1>6 DEF IInv, ChainOk, SwitchOk, Linked
  <2> QED
    BY <2>1, <2>2, <2>3, <2>4 DEF IInv
<1>7. ASSUME NEW got \in {all} \cup {{c \in all : Slot[c] < Slot[d]} : d \in all},
             db' = db \cup Recovered(got),
             refetch' = {} \/ refetch' = refetch,
             stale' = (stale \/ (Recovered(got) # {} /\ from \notin db))
      PROVE  IInv'
  <2>1. /\ \A c \in got : c \in L /\ Slot[from] < Slot[c] /\ from \in L
        /\ \A c \in got : \A e \in L : Slot[from] < Slot[e] /\ Slot[e] <= Slot[c] => e \in got
    <3>1. CASE got = all
      BY <1>5, <3>1
    <3>2. CASE got # all
      <4>1. PICK d \in all : got = {c \in all : Slot[c] < Slot[d]}
        BY <1>7, <3>2
      <4> HIDE DEF L, t, from
      <4> QED
        BY <1>4, <1>5, <4>1
    <3> QED
      BY <3>1, <3>2
  <2>2. Recovered(got) \subseteq got /\ Recovered(got) \subseteq Blocks
    BY <1>4, <2>1 DEF Recovered
  <2>3. TypeOK'
    BY <1>2, <1>7, <2>2 DEF IInv, TypeOK
  <2>4. Fetched' /\ FenceOk'
    BY <1>2, <1>7 DEF IInv, Fetched, FenceOk
  <2>5. BranchOk'
    BY <1>2, NothingProven DEF IInv
  <2>6. ASSUME ~stale' PROVE Linked(db')
    <3>1. ~stale /\ ~(Recovered(got) # {} /\ from \notin db)
      BY <1>7, <2>6, Zenon
    <3>2. Linked(db)
      BY <3>1 DEF IInv, ChainOk
    <3>3. CASE Recovered(got) = {}
      BY <1>7, <3>2, <3>3
    <3>4. CASE Recovered(got) # {}
      <4>1. from \in db /\ from \in L
        BY <2>1, <2>2, <3>1, <3>4
      <4> QED
        BY <1>4, <1>7, <2>1, <3>2, <4>1, RecoveredLinked
    <3> QED
      BY <3>3, <3>4
  <2>7. ChainOk'
    BY <1>2, <2>6 DEF ChainOk, SwitchOk, Linked
  <2> QED
    BY <2>3, <2>4, <2>5, <2>7 DEF IInv
<1> QED
  BY <1>1, <1>6, <1>7, Zenon DEF all

\* The fence comes down only when what it was raised for is superseded.
LEMMA ResolveFenceOk ==
    ASSUME IInv, ResolveFence
    PROVE  IInv'
<1>1. /\ pc = "settle" /\ pc' = "idle" /\ pendingSwitch = {}
      /\ UNCHANGED <<db, head, ptr, competing, pendingSwitch, refetch, proven, stale>>
  BY DEF ResolveFence, peers, drain
<1>2. TypeOK'
  BY <1>1 DEF IInv, TypeOK
<1>3. Fetched'
  BY <1>1 DEF IInv, Fetched
<1>4. BranchOk'
  BY <1>1, NothingProven DEF IInv
<1>5. ChainOk'
  BY <1>1 DEF IInv, ChainOk, SwitchOk, Linked
<1>6. FenceOk'
  <2>1. CASE ~missingBridge /\ CaughtUp
    BY <2>1 DEF ResolveFence, FenceOk
  <2>2. CASE ~(~missingBridge /\ CaughtUp)
    <3>1. unproven' = unproven /\ (pendingReselection => pendingReselection')
      BY <2>2, Zenon DEF ResolveFence, FenceResolved
    <3> QED
      BY <3>1 DEF IInv, FenceOk
  <2> QED
    BY <2>1, <2>2
<1> QED
  BY <1>2, <1>3, <1>4, <1>5, <1>6 DEF IInv

\* The node forges on its own durable tip.
LEMMA ForgeTickOk ==
    ASSUME IInv, NEW b \in Own, ForgeTick(b)
    PROVE  IInv'
<1>1. /\ pc = "idle" /\ db # {} /\ Parent[b] = Tip(db) /\ db' = db \cup {b}
      /\ UNCHANGED <<pc, head, ptr, competing, pendingSwitch, refetch, proven, stale,
                     unproven, pendingReselection>>
  BY DEF ForgeTick, MayForge, CaughtUp, peers, drain, pending, switching, ghosts
<1>2. b \in Blocks
  BY ParticipantAssumption
<1>3. TypeOK'
  BY <1>1, <1>2 DEF IInv, TypeOK
<1>4. Fetched' /\ FenceOk'
  BY <1>1 DEF IInv, Fetched, FenceOk
<1>5. BranchOk'
  BY <1>1, NothingProven DEF IInv
<1>6. ASSUME ~stale PROVE Linked(db')
  BY <1>1, <1>2, <1>6, LinkedExtend DEF IInv, ChainOk, TipPoint
<1>7. ChainOk'
  BY <1>1, <1>6 DEF ChainOk, SwitchOk, Linked
<1> QED
  BY <1>3, <1>4, <1>5, <1>7 DEF IInv

\* A restart keeps the chain and takes every stream up at its tip.
LEMMA CrashOk ==
    ASSUME IInv, Crash
    PROVE  IInv'
<1>1. /\ pc' = "idle" /\ ptr' = [p \in Peers |-> TipPoint(db)]
      /\ competing' = [p \in Peers |-> {}] /\ pendingSwitch' = {} /\ refetch' = {}
      /\ proven' = {} /\ unproven' = "no"
      /\ UNCHANGED <<db, head, stale>>
  BY DEF Crash
<1>2. TipPoint(db) \in Points
  BY TipPointOk DEF IInv, TypeOK
<1>3. TypeOK'
  BY <1>1, <1>2 DEF IInv, TypeOK
<1>4. Fetched' /\ BranchOk' /\ FenceOk'
  BY <1>1 DEF Fetched, BranchOk, FenceOk, TipPoint
<1>5. ChainOk'
  BY <1>1 DEF IInv, ChainOk, SwitchOk, Linked
<1> QED
  BY <1>3, <1>4, <1>5 DEF IInv

\* A step that leaves alone all that the invariant speaks of.
LEMMA UnchangedOk ==
    ASSUME IInv,
           UNCHANGED <<db, head, ptr, competing, pendingSwitch, refetch, proven, pc, stale,
                       unproven, pendingReselection>>
    PROVE  IInv'
<1>1. TypeOK' /\ Fetched' /\ FenceOk'
  BY DEF IInv, TypeOK, Fetched, FenceOk
<1>2. BranchOk'
  BY DEF IInv, BranchOk, Pumps
<1>3. ChainOk'
  BY DEF IInv, ChainOk, SwitchOk, Linked
<1> QED
  BY <1>1, <1>2, <1>3 DEF IInv

\* Every step of the relay loop, of a peer and of the process keeps the invariant.
LEMMA StepOk ==
    ASSUME IInv, [Next]_vars
    PROVE  IInv'
<1>1. ASSUME NEW p \in Peers, NEW b \in Reaches[p], PeerAdopts(p, b) PROVE IInv'
  BY <1>1, PeerAdoptsOk
<1>2. ASSUME NEW p \in Peers, Sync(p) PROVE IInv'
  BY <1>2, LinearExtendOk, AlreadyHaveOk, DispatchCompetingOk, PeerRollBackOk DEF Sync
<1>3. ASSUME NEW p \in Peers, Connect(p) PROVE IInv'
  BY <1>3, UnchangedOk DEF Connect, drain, pending, switching, ghosts
<1>4. CASE EndDrain
  BY <1>4, EndDrainOk
<1>5. CASE Settle
  BY <1>5, ApplyForkSwitchOk, RollForwardOk, RangeRefetchOk, ResolveFenceOk DEF Settle
<1>6. ASSUME NEW b \in Own, ForgeTick(b) PROVE IInv'
  BY <1>6, ForgeTickOk
<1>7. CASE ForgeNotLeader
  BY <1>7, UnchangedOk DEF ForgeNotLeader, peers, drain, pending, switching, ghosts
<1>8. CASE Crash
  BY <1>8, CrashOk
<1>9. CASE UNCHANGED vars
  BY <1>9, UnchangedOk DEF vars, peers, drain, pending, switching, ghosts
<1> QED
  BY <1>1, <1>2, <1>3, <1>4, <1>5, <1>6, <1>7, <1>8, <1>9 DEF Next

\* The invariant holds in every reachable state.
LEMMA Inductive == Spec => []IInv
<1>1. IInv /\ [Next]_vars => IInv'
  BY StepOk
<1> QED
  BY <1>1, InitOk, PTL DEF Spec

-----------------------------------------------------------------------------

\* The durable chain is one linked chain from the anchor through admits of any
\* peer's blocks, fork switches, rollbacks, refetched ranges, forged blocks and
\* restarts, unless a range was admitted above a point rolled back meanwhile.
THEOREM DurableChainStaysLinked == Spec => []DurableChainLinked
<1>1. IInv => DurableChainLinked
  BY LinkedIsLineage DEF IInv, ChainOk, DurableChainLinked
<1> QED
  BY <1>1, Inductive, PTL

\* apply_fork_switch, once it has rolled the chain back, admits the whole proven
\* branch: pump_block refuses none of its blocks.
THEOREM ProvenSwitchCompletes == Spec => []NeverAbandon
<1>1. IInv => NeverAbandon
  BY DEF IInv, BranchOk, NeverAbandon
<1> QED
  BY <1>1, Inductive, PTL

\* No forge tick forges while a selected branch that failed its proof is fenced.
THEOREM FenceKeepsForgeOut == Spec => FenceHolds
<1>1. IInv /\ [Next]_vars => [forged' # forged => unproven # "fenced"]_vars
  <2> SUFFICES ASSUME IInv, Next, forged' # forged PROVE unproven # "fenced"
    BY DEF vars, forging
  <2>1. \A b \in Own : ForgeTick(b) => ~pendingReselection
    BY DEF ForgeTick, MayForge
  <2>2. \/ \E b \in Own : ForgeTick(b)
        \/ forged' = forged
    BY DEF Next, PeerAdopts, Sync, LinearExtend, AlreadyHave, DispatchCompeting,
           PeerRollBack, Connect, EndDrain, Settle, ApplyForkSwitch, RollForward,
           RangeRefetch, ResolveFence, ForgeNotLeader, Crash, forging
  <2> QED
    BY <2>1, <2>2 DEF IInv, FenceOk
<1> QED
  BY <1>1, Inductive, PTL DEF Spec, FenceHolds

=============================================================================
