------------------------ MODULE ChainSelectorProofs ------------------------
(***************************************************************************)
(* That the orchestrator's state is always the one its own chain           *)
(* determines, and its ring that of the last blocks of that chain.         *)
(***************************************************************************)
EXTENDS ChainSelector, ChainProofs

-----------------------------------------------------------------------------
(* Heights along a chain.                                                    *)

\* A block is one higher than its parent.
LEMMA HeightStep ==
    ASSUME NEW b \in Blocks
    PROVE  /\ Parent[b] \in Blocks \cup {Anchor}
           /\ Point(b).no = BlockNo[b] /\ Point(b).slot = Slot[b]
           /\ Point(Parent[b]).no \in Nat
           /\ BlockNo[b] = Point(Parent[b]).no + 1
  <1>1. Parent[b] \in Blocks \cup {Anchor} /\ b # Anchor
    BY TreeAssumption, AnchorAssumption
  <1>2. Point(Parent[b]).no \in Nat
    BY <1>1, TreeAssumption DEF Point
  <1> QED
    BY <1>1, <1>2, HeightAssumption DEF Point

\* p's chain has one block of each height up to p's, the higher the later.
Heights(p) ==
    /\ Point(p).no \in Nat
    /\ \A i \in 1..Point(p).no : \E b \in Lineage(p) : BlockNo[b] = i
    /\ \A b \in Lineage(p) : BlockNo[b] \in 1..Point(p).no
    /\ \A b, c \in Lineage(p) : Slot[b] < Slot[c] <=> BlockNo[b] < BlockNo[c]
    /\ \A b, c \in Lineage(p) : BlockNo[b] = BlockNo[c] => b = c

\* A block on a chain continues its heights.
LEMMA HeightsExtend ==
    ASSUME NEW b \in Blocks, Heights(Parent[b])
    PROVE  Heights(b)
  <1> DEFINE p == Parent[b]
             S == Lineage(p)
             n == Point(p).no
  <1>1. Lineage(b) = S \cup {b} /\ Point(b).no = n + 1 /\ BlockNo[b] = n + 1 /\ n \in Nat
    BY HeightStep, LineageEquation
  <1>2. S \subseteq Blocks /\ \A c \in S : Slot[c] < Slot[b]
    <2>1. p \in Blocks \cup {Anchor}
      BY HeightStep
    <2>2. Linked(S) /\ TipPoint(S) = p
      BY <2>1, LineageLinked
    <2> QED
      BY <2>2, LinkedExtend DEF Linked
  <1>3. /\ \A i \in 1..n : \E c \in S : BlockNo[c] = i
        /\ \A c \in S : BlockNo[c] \in 1..n
        /\ \A c, d \in S : Slot[c] < Slot[d] <=> BlockNo[c] < BlockNo[d]
        /\ \A c, d \in S : BlockNo[c] = BlockNo[d] => c = d
    BY DEF Heights
  <1> HIDE DEF S, n
  <1>4. \A i \in 1..n + 1 : \E c \in S \cup {b} : BlockNo[c] = i
    <2> TAKE i \in 1..n + 1
    <2>1. i \in 1..n \/ i = n + 1
      BY <1>1
    <2> QED
      BY <1>1, <1>3, <2>1
  <1>5. \A c \in S \cup {b} : BlockNo[c] \in 1..n + 1
    BY <1>1, <1>3
  <1>6. \A c, d \in S \cup {b} : Slot[c] < Slot[d] <=> BlockNo[c] < BlockNo[d]
    <2>1. \A c \in S \cup {b} : Slot[c] \in Nat
      BY <1>2, SlotIsNat
    <2> QED
      BY <1>1, <1>2, <1>3, <2>1
  <1>7. \A c, d \in S \cup {b} : BlockNo[c] = BlockNo[d] => c = d
    BY <1>1, <1>3
  <1> QED
    BY <1>1, <1>4, <1>5, <1>6, <1>7 DEF Heights

\* Every chain from the anchor has a block of each height.
LEMMA LineageHeights ==
    \A p \in Blocks \cup {Anchor} : Heights(p)
  <1>1. Heights(Anchor)
    BY LineageEquation DEF Heights, Point
  <1> DEFINE bad == {b \in Blocks : ~Heights(b)}
             slots == {Slot[b] : b \in bad}
  <1>2. SUFFICES ASSUME bad # {} PROVE FALSE
    BY <1>1
  <1>3. slots \subseteq Nat /\ slots # {}
    BY <1>2, SlotIsNat
  <1>4. PICK n \in slots : \A m \in slots : n <= m
    BY <1>3, LeastNatural
  <1>5. PICK b \in bad : n = Slot[b]
    OBVIOUS
  <1>6. b \in Blocks /\ ~Heights(b)
    OBVIOUS
  <1>7. CASE Parent[b] = Anchor
    BY <1>1, <1>6, <1>7, HeightsExtend
  <1>8. CASE Parent[b] # Anchor
    <2>1. Parent[b] \in Blocks /\ Slot[Parent[b]] < Slot[b]
      BY <1>6, <1>8, TreeAssumption
    <2>2. Slot[Parent[b]] \in Nat /\ Slot[b] \in Nat
      BY <1>6, <2>1, SlotIsNat
    <2>3. Parent[b] \notin bad
      BY <1>4, <1>5, <2>1, <2>2
    <2> QED
      BY <1>6, <2>1, <2>3, HeightsExtend
  <1> QED
    BY <1>7, <1>8

\* The chain of a block on p's chain is what is at or below it there.
LEMMA LineageWithin ==
    ASSUME NEW p \in Blocks \cup {Anchor}, NEW q \in Lineage(p)
    PROVE  /\ q \in Blocks
           /\ Lineage(q) = Upto(Lineage(p), Slot[q])
           /\ Lineage(q) = {b \in Lineage(p) : BlockNo[b] <= BlockNo[q]}
           /\ Lineage(q) \subseteq Lineage(p)
  <1>1. Linked(Lineage(p)) /\ q \in Blocks
    BY LineageLinked DEF Linked
  <1>2. Linked(Lineage(q)) /\ TipPoint(Lineage(q)) = q /\ q \in Lineage(q)
    BY <1>1, LineageLinked, LineageEquation
  <1>3. Lineage(q) \subseteq Blocks /\ Tip(Lineage(q)) = q
    BY <1>2 DEF Linked, TipPoint
  <1>4. \A c \in Lineage(q) : Slot[c] <= Slot[q]
    BY <1>2, <1>3, TipIsMax
  <1>5. Upto(Lineage(q), Slot[q]) = Lineage(q)
    BY <1>4 DEF Upto
  <1>6. Lineage(q) = Upto(Lineage(p), Slot[q])
    BY <1>1, <1>2, <1>5, LinkedShared
  <1>7. \A b \in Lineage(p) : Slot[b] <= Slot[q] <=> BlockNo[b] <= BlockNo[q]
    <2> TAKE b \in Lineage(p)
    <2>1. b \in Blocks /\ Slot[b] \in Nat /\ Slot[q] \in Nat
      BY <1>1, SlotIsNat DEF Linked
    <2>2. BlockNo[b] \in Nat /\ BlockNo[q] \in Nat
      BY <1>1, <2>1, TreeAssumption
    <2>3. Slot[q] < Slot[b] <=> BlockNo[q] < BlockNo[b]
      BY LineageHeights DEF Heights
    <2> QED
      BY <2>1, <2>2, <2>3
  <1> QED
    BY <1>1, <1>6, <1>7 DEF Upto

-----------------------------------------------------------------------------
(* What a chain determines, block by block.                                  *)

\* The chain of p in its order is a sequence of as many blocks as p is high.
LEMMA InOrderSeq ==
    ASSUME NEW p \in Blocks \cup {Anchor}
    PROVE  /\ InOrder(Lineage(p)) \in Seq(Blocks)
           /\ Len(InOrder(Lineage(p))) = Point(p).no
           /\ \A i \in 1..Point(p).no : /\ InOrder(Lineage(p))[i] \in Lineage(p)
                                        /\ BlockNo[InOrder(Lineage(p))[i]] = i
  <1> DEFINE S == Lineage(p)
             n == Point(p).no
             Of(i) == CHOOSE b \in S : BlockNo[b] = i
  <1>1. S \subseteq Blocks /\ TipPoint(S) = p /\ n \in Nat
    BY LineageLinked, LineageHeights DEF Linked, Heights
  <1>2. \A i \in 1..n : \E b \in S : BlockNo[b] = i
    BY LineageHeights DEF Heights
  <1>3. \A i \in 1..n : Of(i) \in S /\ BlockNo[Of(i)] = i
    BY <1>2
  <1>4. InOrder(S) = [i \in 1..n |-> Of(i)]
    BY <1>1 DEF InOrder
  <1> HIDE DEF S, n, Of
  <1> QED
    BY <1>1, <1>3, <1>4 DEF S, n

\* Of two sequences of the blocks of a chain by height there is one.
LEMMA InOrderIs ==
    ASSUME NEW p \in Blocks \cup {Anchor}, NEW s \in Seq(Blocks), Len(s) = Point(p).no,
           \A i \in 1..Point(p).no : s[i] \in Lineage(p) /\ BlockNo[s[i]] = i
    PROVE  s = InOrder(Lineage(p))
  <1> DEFINE t == InOrder(Lineage(p))
  <1>1. /\ t \in Seq(Blocks) /\ Len(t) = Len(s) /\ Len(s) \in Nat
        /\ \A i \in 1..Len(s) : t[i] \in Lineage(p) /\ BlockNo[t[i]] = i
    BY InOrderSeq
  <1> HIDE DEF t
  <1>2. \A i \in 1..Len(s) : s[i] = t[i]
    BY <1>1, LineageHeights DEF Heights
  <1> QED
    BY <1>1, <1>2 DEF t

\* A block on p comes after p's chain.
LEMMA InOrderExtend ==
    ASSUME NEW b \in Blocks
    PROVE  InOrder(Lineage(b)) = Append(InOrder(Lineage(Parent[b])), b)
  <1> DEFINE p == Parent[b]
             t == InOrder(Lineage(p))
             s == Append(t, b)
  <1>1. p \in Blocks \cup {Anchor} /\ BlockNo[b] = Point(p).no + 1 /\ Point(b).no = Point(p).no + 1
          /\ Point(p).no \in Nat
    BY HeightStep
  <1>2. Lineage(b) = Lineage(p) \cup {b}
    BY LineageEquation
  <1>3. /\ t \in Seq(Blocks) /\ Len(t) = Point(p).no
        /\ \A i \in 1..Point(p).no : t[i] \in Lineage(p) /\ BlockNo[t[i]] = i
    BY <1>1, InOrderSeq
  <1> HIDE DEF t
  <1>4. s \in Seq(Blocks) /\ Len(s) = Point(b).no
    BY <1>1, <1>3
  <1>5. \A i \in 1..Point(b).no : s[i] \in Lineage(b) /\ BlockNo[s[i]] = i
    <2> TAKE i \in 1..Point(b).no
    <2>1. i \in 1..Point(p).no \/ i = Point(p).no + 1
      BY <1>1
    <2> QED
      BY <1>1, <1>2, <1>3, <2>1
  <1>6. s = InOrder(Lineage(b))
    BY <1>4, <1>5, InOrderIs
  <1> QED
    BY <1>6 DEF t

\* The headers of S that its candidate nonce takes in.
Open(S) == {b \in S : Slot[b] < FreezeBoundary(Slot[b])}

\* What the candidate nonce becomes: the evolving one outside the frozen window.
LEMMA CandidateExtend ==
    ASSUME NEW b \in Blocks
    PROVE  CandidateOf(Lineage(b)) = IF Slot[b] < FreezeBoundary(Slot[b])
                                     THEN InOrder(Lineage(b))
                                     ELSE CandidateOf(Lineage(Parent[b]))
  <1> DEFINE S == Lineage(Parent[b])
             T == Lineage(b)
  <1>1. T = S \cup {b} /\ S \subseteq Blocks /\ T \subseteq Blocks /\ Open(T) \subseteq Blocks
          /\ Open(S) \subseteq Blocks
    BY HeightStep, LineageEquation, LineageLinked DEF Linked, Open
  <1>2. \A c \in S : Slot[c] < Slot[b]
    BY HeightStep, LineageLinked, LinkedExtend
  <1>3. /\ CandidateOf(T) = InOrder(Upto(T, LastSlot(Open(T))))
        /\ CandidateOf(S) = InOrder(Upto(S, LastSlot(Open(S))))
    BY DEF CandidateOf, Open
  <1> HIDE DEF S, T
  <1>4. CASE Slot[b] < FreezeBoundary(Slot[b])
    <2>1. b \in Open(T) /\ \A c \in Open(T) : c = b \/ Slot[c] < Slot[b]
      BY <1>1, <1>2, <1>4 DEF Open
    <2>2. LastSlot(Open(T)) = Slot[b]
      BY <1>1, <2>1, TipIs DEF LastSlot
    <2>3. Upto(T, Slot[b]) = T
      BY <1>1, <1>2, SlotIsNat DEF Upto
    <2> QED
      BY <1>3, <1>4, <2>2, <2>3 DEF S, T
  <1>5. CASE ~(Slot[b] < FreezeBoundary(Slot[b]))
    <2>1. Open(T) = Open(S)
      BY <1>1, <1>5 DEF Open
    <2>2. LastSlot(Open(S)) < Slot[b]
      <3>1. CASE Open(S) = {}
        BY <3>1, SlotIsNat DEF LastSlot
      <3>2. CASE Open(S) # {}
        <4>1. Tip(Open(S)) \in S
          BY <1>1, <3>2, TipIsMax DEF Open
        <4> QED
          BY <1>2, <3>2, <4>1 DEF LastSlot
      <3> QED
        BY <3>1, <3>2
    <2>3. LastSlot(Open(S)) \in Nat /\ Slot[b] \in Nat
      BY <1>1, LastSlotBounds, SlotIsNat
    <2>4. Upto(T, LastSlot(Open(S))) = Upto(S, LastSlot(Open(S)))
      BY <1>1, <2>2, <2>3 DEF Upto
    <2> QED
      BY <1>3, <1>5, <2>1, <2>4 DEF S, T
  <1> QED
    BY <1>4, <1>5

\* After b the block nonce is that of its parent.
LEMMA LabExtend ==
    ASSUME NEW b \in Blocks
    PROVE  LabOf(Lineage(b)) = Parent[b] /\ LastSlot(Lineage(b)) = Slot[b]
  <1>1. TipPoint(Lineage(b)) = b /\ b \in Lineage(b)
    BY LineageLinked, LineageEquation
  <1> QED
    BY <1>1 DEF TipPoint, LabOf, LastSlot

-----------------------------------------------------------------------------
(* Epochs.                                                                   *)

\* The epoch of a later slot is no earlier.
LEMMA EpochMonotone ==
    ASSUME NEW s \in Nat, NEW t \in Nat, s <= t
    PROVE  EpochOf(s) \in Nat /\ EpochOf(t) \in Nat /\ EpochOf(s) <= EpochOf(t)
  BY PraosAssumption DEF EpochOf

\* The epoch of a block is a number.
LEMMA EpochIsNat ==
    ASSUME NEW b \in Blocks
    PROVE  EpochOf(Slot[b]) \in Nat
  BY SlotIsNat, PraosAssumption DEF EpochOf

\* The operand that the tick out of epoch e combines with the candidate.
Operand(S, e) == IF e = 0 THEN Anchor ELSE LabOf(Before(S, e))

\* The nonce an epoch starts with is made of the candidate before it and the operand
\* of the epoch before.
LEMMA NonceIs ==
    ASSUME NEW S, NEW e \in Nat
    PROVE  NonceOf(S, e + 1) = <<CandidateOf(Before(S, e + 1)), Operand(S, e)>>
  <1>1. e + 1 # 0 /\ (e + 1) - 1 = e /\ (e + 1 = 1 <=> e = 0)
    OBVIOUS
  <1> QED
    BY <1>1 DEF NonceOf, Operand

\* A block of epoch e or later changes no nonce up to that of epoch e.
LEMMA NonceKept ==
    ASSUME NEW b \in Blocks, NEW e \in Nat, e <= EpochOf(Slot[b])
    PROVE  /\ NonceOf(Lineage(b), e) = NonceOf(Lineage(Parent[b]), e)
           /\ Operand(Lineage(b), e) = Operand(Lineage(Parent[b]), e)
  <1> DEFINE S == Lineage(Parent[b])
  <1>1. Lineage(b) = S \cup {b}
    BY LineageEquation
  <1>2. EpochOf(Slot[b]) \in Nat
    BY SlotIsNat, EpochMonotone
  <1>3. \A d \in Nat : d <= e => Before(S \cup {b}, d) = Before(S, d)
    BY <1>2 DEF Before
  <1>4. CASE e = 0
    BY <1>4 DEF NonceOf, Operand
  <1>5. CASE e # 0
    <2>1. e - 1 \in Nat /\ e - 1 <= e /\ e <= e
      BY <1>5
    <2>2. Before(S \cup {b}, e) = Before(S, e) /\ Before(S \cup {b}, e - 1) = Before(S, e - 1)
      BY <1>3, <2>1
    <2> QED
      BY <1>1, <1>5, <2>2 DEF NonceOf, Operand
  <1> QED
    BY <1>4, <1>5

-----------------------------------------------------------------------------
(* The ring.                                                                 *)

\* A ring whose snapshots are numbered without gaps keeps, of a rollback to the i-th,
\* the first i.
LEMMA RetainPrefix ==
    ASSUME NEW R, NEW ring \in Seq(R), NEW no \in Nat, NEW base \in Int,
           \A j \in 1..Len(ring) : ring[j].no = base + j,
           NEW i \in 1..Len(ring), ring[i].no = no
    PROVE  Retain(ring, no) = SubSeq(ring, 1, i)
  <1> DEFINE n == Len(ring)
             P(f) == f = [j \in 0..n |->
                            IF j = 0 THEN <<>>
                            ELSE IF ring[j].no <= no THEN Append(f[j - 1], ring[j])
                            ELSE f[j - 1]]
             kept == CHOOSE f : P(f)
             Upper(j) == IF j <= i THEN j ELSE i
             g == [j \in 0..n |-> SubSeq(ring, 1, Upper(j))]
  <1>0. n \in Nat /\ i \in Nat /\ i <= n
    OBVIOUS
  <1>1. \A j \in 1..n : ring[j].no <= no <=> j <= i
    OBVIOUS
  <1>2. \A j \in 1..i : Append(SubSeq(ring, 1, j - 1), ring[j]) = SubSeq(ring, 1, j)
    <2> TAKE j \in 1..i
    <2>1. j \in 1..n
      BY <1>0
    <2> QED
      BY <2>1
  <1>3. ASSUME NEW j \in 0..n
        PROVE  g[j] = IF j = 0 THEN <<>>
                      ELSE IF ring[j].no <= no THEN Append(g[j - 1], ring[j])
                      ELSE g[j - 1]
    <2>1. CASE j = 0
      BY <1>0, <2>1
    <2>2. CASE j # 0 /\ j <= i
      <3>1. j \in 1..i /\ j \in 1..n /\ j - 1 \in 0..n /\ Upper(j) = j /\ Upper(j - 1) = j - 1
        BY <1>0, <2>2
      <3>2. g[j] = SubSeq(ring, 1, j) /\ g[j - 1] = SubSeq(ring, 1, j - 1)
        BY <3>1
      <3>3. ring[j].no <= no /\ Append(SubSeq(ring, 1, j - 1), ring[j]) = SubSeq(ring, 1, j)
        BY <1>1, <1>2, <2>2, <3>1
      <3> HIDE DEF g
      <3> QED
        BY <2>2, <3>2, <3>3
    <2>3. CASE j # 0 /\ ~(j <= i)
      <3>1. j \in 1..n /\ j - 1 \in 0..n /\ Upper(j) = i /\ Upper(j - 1) = i
        BY <1>0, <2>3
      <3> QED
        BY <1>1, <2>3, <3>1
    <2> QED
      BY <2>1, <2>2, <2>3
  <1>4. P(g)
    BY <1>3
  <1>5. P(kept)
    BY <1>4, Zenon
  <1>6. Retain(ring, no) = kept[n]
    BY Zenon DEF Retain
  <1> HIDE DEF kept, g
  <1>7. \A j \in 0..n : kept[j] = g[j]
    <2> DEFINE bad == {j \in 0..n : kept[j] # g[j]}
    <2>1. SUFFICES ASSUME bad # {} PROVE FALSE
      OBVIOUS
    <2>2. PICK j \in bad : \A m \in bad : j <= m
      <3>1. bad \subseteq Nat
        OBVIOUS
      <3> QED
        BY <2>1, <3>1, LeastNatural
    <2>3. j \in 0..n /\ kept[j] # g[j]
      OBVIOUS
    <2>4. kept[j] = IF j = 0 THEN <<>>
                    ELSE IF ring[j].no <= no THEN Append(kept[j - 1], ring[j])
                    ELSE kept[j - 1]
      BY <1>5, <2>3
    <2>5. j # 0 => kept[j - 1] = g[j - 1]
      <3>1. j # 0 => j - 1 \in 0..n /\ ~(j <= j - 1)
        BY <1>0, <2>3
      <3>2. j # 0 => j - 1 \notin bad
        BY <2>2, <3>1
      <3> QED
        BY <3>1, <3>2
    <2> QED
      BY <1>3, <2>3, <2>4, <2>5
  <1>8. g[n] = SubSeq(ring, 1, i)
    BY <1>0 DEF g
  <1> QED
    BY <1>0, <1>6, <1>7, <1>8

-----------------------------------------------------------------------------
(* The invariant.                                                            *)

\* cd has the fields of a chain-dependent state.
Fields(cd) ==
    DOMAIN cd = {"evolving", "candidate", "lab", "lastEpochBlock", "epochNonce",
                 "lastSlot", "lastNo", "counters"}

\* cd is the state that p's chain determines in epoch e.
StateAt(cd, p, e) ==
    /\ Fields(cd)
    /\ cd.evolving = InOrder(Lineage(p))
    /\ cd.candidate = CandidateOf(Lineage(p))
    /\ cd.lab = LabOf(Lineage(p))
    /\ cd.lastEpochBlock \in {{}, {Operand(Lineage(p), e)}}
    /\ cd.epochNonce = NonceOf(Lineage(p), e)
    /\ cd.lastSlot = LastSlot(Lineage(p))
    /\ cd.lastNo = Point(p).no

\* The selector is at a point, above an immutable tip that never moves.
SelectorAt(p) ==
    /\ p \in Blocks \cup {Anchor}
    /\ DOMAIN selector = {"tip", "tipNo", "view", "immutableSlot", "immutableNo"}
    /\ selector.tip = p /\ selector.tipNo = Point(p).no
    /\ selector.immutableSlot = AnchorSlot /\ selector.immutableNo = 0

\* The last tick was for the tip's epoch, or led towards that of a header on it.
Ticked(p) ==
    /\ epoch \in Nat
    /\ \A b \in Lineage(p) : EpochOf(Slot[b]) <= epoch
    /\ \/ epoch = 0
       \/ p \in Blocks /\ epoch = EpochOf(Slot[p])
       \/ \E c \in Blocks : Parent[c] = p /\ epoch <= EpochOf(Slot[c])

\* s is the snapshot taken at b.
SnapshotOf(s, b) ==
    /\ s.no = BlockNo[b] /\ s.view = View[b]
    /\ StateAt(s.chainDep, b, EpochOf(Slot[b]))

\* ring has the snapshots of the last blocks of p's chain, without gaps.
RingOf(ring, p) ==
    /\ \E R : ring \in Seq(R)
    /\ Len(ring) <= SnapshotLimit
    /\ p # Anchor /\ SnapshotLimit > 0 => Len(ring) > 0
    /\ \A i \in 1..Len(ring) :
          /\ ring[i].no = Point(p).no - Len(ring) + i
          /\ \E b \in Lineage(p) : SnapshotOf(ring[i], b)

SInv ==
    /\ SelectorAt(selector.tip)
    /\ Ticked(selector.tip)
    /\ StateAt(chainDep, selector.tip, epoch)
    /\ RingOf(recent, selector.tip)

\* The orchestrator starts in the state of the anchor, with an empty ring.
LEMMA InitSInv == Init => SInv
  <1> SUFFICES ASSUME Init PROVE SInv
    OBVIOUS
  <1>1. PICK leb \in {{}, {Anchor}} : chainDep = InitialState(leb)
    BY DEF Init
  <1>2. selector.tip = Anchor /\ Lineage(Anchor) = {} /\ Point(Anchor).no = 0
    BY LineageEquation DEF Init, Point
  <1>3. SelectorAt(Anchor)
    BY <1>2 DEF Init, SelectorAt
  <1>4. Ticked(Anchor)
    BY <1>2 DEF Init, Ticked
  <1>5. RingOf(recent, Anchor)
    <2>1. recent = <<>> /\ recent \in Seq({}) /\ Len(recent) = 0
      BY DEF Init
    <2> QED
      BY <2>1, SelectorAssumption DEF RingOf
  <1>6. StateAt(chainDep, Anchor, 0)
    <2>1. InOrder({}) = <<>>
      <3>1. Point(TipPoint({})).no = 0
        BY <1>2 DEF TipPoint
      <3> QED
        BY <3>1 DEF InOrder
    <2>2. CandidateOf({}) = <<>>
      <3>1. Upto({}, LastSlot({})) = {} /\ {b \in {} : Slot[b] < FreezeBoundary(Slot[b])} = {}
        BY DEF Upto
      <3> QED
        BY <2>1, <3>1 DEF CandidateOf
    <2>3. LabOf({}) = Anchor /\ NonceOf({}, 0) = <<>> /\ Operand({}, 0) = Anchor
            /\ LastSlot({}) = AnchorSlot
      BY DEF LabOf, NonceOf, Operand, LastSlot
    <2> QED
      BY <1>1, <1>2, <2>1, <2>2, <2>3 DEF InitialState, StateAt, Fields
  <1> QED
    BY <1>2, <1>3, <1>4, <1>5, <1>6 DEF SInv, Init

\* validate_and_apply_header on a header of the current epoch leads to the state that
\* the header's own chain determines.
LEMMA HeaderState ==
    ASSUME NEW cd, NEW b \in Blocks, NEW e \in Nat, e = EpochOf(Slot[b]),
           StateAt(cd, Parent[b], e)
    PROVE  StateAt(ApplyHeader(cd, b), b, e)
  <1> DEFINE n == ApplyHeader(cd, b)
  <1>1. /\ Fields(n)
        /\ n.evolving = Append(cd.evolving, b)
        /\ n.candidate = IF Slot[b] < FreezeBoundary(Slot[b])
                         THEN Append(cd.evolving, b) ELSE cd.candidate
        /\ n.lab = Parent[b] /\ n.lastEpochBlock = cd.lastEpochBlock
        /\ n.epochNonce = cd.epochNonce /\ n.lastSlot = Slot[b] /\ n.lastNo = BlockNo[b]
    BY DEF StateAt, Fields, ApplyHeader, HeaderContribution
  <1> HIDE DEF n
  <1>2. Append(cd.evolving, b) = InOrder(Lineage(b))
    BY InOrderExtend DEF StateAt
  <1>3. n.candidate = CandidateOf(Lineage(b))
    BY <1>1, <1>2, CandidateExtend DEF StateAt
  <1>4. n.lab = LabOf(Lineage(b)) /\ n.lastSlot = LastSlot(Lineage(b)) /\ n.lastNo = Point(b).no
    BY <1>1, LabExtend, HeightStep
  <1>5. /\ n.epochNonce = NonceOf(Lineage(b), e)
        /\ n.lastEpochBlock \in {{}, {Operand(Lineage(b), e)}}
    <2>1. n.epochNonce = cd.epochNonce /\ n.lastEpochBlock = cd.lastEpochBlock /\ e <= EpochOf(Slot[b])
      BY <1>1
    <2> QED
      BY <2>1, NonceKept DEF StateAt
  <1>6. Fields(n) /\ n.evolving = InOrder(Lineage(b))
    BY <1>1, <1>2
  <1> QED
    BY <1>3, <1>4, <1>5, <1>6 DEF StateAt, n

\* apply_epoch_boundary leads to the state that the chain determines in the next epoch.
LEMMA TickState ==
    ASSUME NEW cd, NEW p \in Blocks \cup {Anchor}, NEW e \in Nat, StateAt(cd, p, e),
           \A b \in Lineage(p) : EpochOf(Slot[b]) <= e, BoundaryPossible(cd)
    PROVE  StateAt(EpochBoundary(cd), p, e + 1)
  <1> DEFINE n == EpochBoundary(cd)
             S == Lineage(p)
  <1>1. S \subseteq Blocks /\ \A b \in S : EpochOf(Slot[b]) \in Nat
    BY LineageLinked, SlotIsNat, EpochMonotone DEF Linked
  <1>2. Before(S, e + 1) = S
    BY <1>1 DEF Before
  <1>3. cd.lastEpochBlock = {Operand(S, e)}
    BY DEF StateAt, BoundaryPossible
  <1>4. /\ Fields(n) /\ n.evolving = cd.evolving /\ n.candidate = cd.candidate
        /\ n.lab = cd.lab /\ n.lastEpochBlock = {cd.lab}
        /\ n.epochNonce = <<cd.candidate, CHOOSE x \in cd.lastEpochBlock : TRUE>>
        /\ n.lastSlot = cd.lastSlot /\ n.lastNo = cd.lastNo
    BY DEF EpochBoundary, StateAt, Fields
  <1>7. (CHOOSE x \in cd.lastEpochBlock : TRUE) = Operand(S, e)
    BY <1>3
  <1>5. NonceOf(S, e + 1) = <<cd.candidate, Operand(S, e)>>
    BY <1>2, NonceIs DEF StateAt
  <1>6. Operand(S, e + 1) = cd.lab
    BY <1>2 DEF Operand, StateAt
  <1> HIDE DEF n
  <1> QED
    BY <1>4, <1>5, <1>6, <1>7 DEF StateAt, n

-----------------------------------------------------------------------------
(* The selector.                                                             *)

\* The fields of the selector at the tip.
LEMMA SelectorFields ==
    ASSUME SInv
    PROVE  /\ selector.tip \in Blocks \cup {Anchor}
           /\ selector.tipNo = Point(selector.tip).no /\ selector.tipNo \in Nat
           /\ selector.immutableSlot = AnchorSlot /\ selector.immutableNo = 0
           /\ DOMAIN selector = {"tip", "tipNo", "view", "immutableSlot", "immutableNo"}
  <1>1. SelectorAt(selector.tip)
    BY DEF SInv
  <1>2. selector.tip \in Blocks \cup {Anchor}
    BY <1>1 DEF SelectorAt
  <1>3. Point(selector.tip).no \in Nat
    BY <1>2, LineageHeights DEF Heights
  <1> QED
    BY <1>1, <1>2, <1>3 DEF SelectorAt

\* The one-header fragment of process_header_arrival.
FragmentOf(b) == [anchorSlot |-> Point(selector.tip).slot, anchorNo |-> selector.tipNo,
                  length |-> 1, tip |-> b, view |-> View[b], depth |-> 0]

\* It is always longer than the chain it was put on, and always selected.
LEMMA FragmentSelected ==
    ASSUME SInv, NEW b \in Blocks
    PROVE  LET chosen == SelectBestChain(selector, <<FragmentOf(b)>>) IN
           /\ chosen.event = "ChainSelected"
           /\ chosen.state = [selector EXCEPT !.tip = b, !.tipNo = selector.tipNo + 1,
                                              !.view = View[b]]
  <1> DEFINE f == FragmentOf(b)
             c == <<f>>
  <1>1. /\ selector.tip \in Blocks \cup {Anchor} /\ selector.tipNo \in Nat
        /\ selector.immutableSlot = AnchorSlot
    BY SelectorFields
  <1>2. /\ f.anchorSlot = Point(selector.tip).slot /\ f.anchorNo = selector.tipNo
        /\ f.length = 1 /\ f.tip = b /\ f.view = View[b] /\ f.depth = 0
    BY DEF FragmentOf
  <1>3. DOMAIN c = {1} /\ c[1] = f
    OBVIOUS
  <1> HIDE DEF f, c
  <1>4. Eligible(selector, f)
    <2>1. Point(selector.tip).slot >= AnchorSlot
      BY <1>1, SlotIsNat, AnchorAssumption DEF Point
    <2> QED
      BY <1>1, <1>2, <2>1, SecurityParamAssumption DEF Eligible
  <1>5. CandidateTipNo(f) = selector.tipNo + 1
    BY <1>2 DEF CandidateTipNo
  <1>6. ~ComparePrefer(CandidateTipNo(f), f.view, CandidateTipNo(f), f.view)
    <2>1. /\ View[b].slot \in Nat /\ View[b].issuer \in Nat
          /\ View[b].counter \in Nat /\ View[b].vrf \in Nat
      BY SelectorAssumption
    <2> QED
      BY <1>1, <1>2, <1>5, <2>1 DEF ComparePrefer, TiebreakerPrefer
  <1>7. BestEligible(selector, c) = 1
    <2>1. {i \in DOMAIN c : Eligible(selector, c[i])} = {1}
      BY <1>3, <1>4
    <2> QED
      BY <1>3, <1>6, <2>1 DEF BestEligible
  <1>8. Replaces(selector, f)
    BY <1>1, <1>5 DEF Replaces, ComparePrefer
  <1>9. ~(\A i \in DOMAIN c : ~Eligible(selector, c[i]))
    BY <1>3, <1>4
  <1>10. SelectBestChain(selector, c)
           = [state |-> [selector EXCEPT !.tip = f.tip, !.tipNo = CandidateTipNo(f),
                                         !.view = f.view],
              event |-> "ChainSelected"]
    BY <1>3, <1>7, <1>8, <1>9, Zenon DEF SelectBestChain
  <1> QED
    BY <1>2, <1>5, <1>10 DEF f, c

\* A header that validates is one of the current epoch on the tip: heights leave its
\* parent no other place, and the nonce its epoch no other tick.
LEMMA ValidExtendsTip ==
    ASSUME SInv, NEW b \in Blocks, Parent[b] \in Lineage(selector.tip) \cup {Anchor},
           EpochOf(Slot[b]) <= epoch, HeaderValid(chainDep, b, ProofNonce(b))
    PROVE  Parent[b] = selector.tip /\ EpochOf(Slot[b]) = epoch
  <1> DEFINE t == selector.tip
  <1>1. t \in Blocks \cup {Anchor} /\ Heights(t)
    BY SelectorFields, LineageHeights
  <1>2. BlockNo[b] > Point(t).no /\ BlockNo[b] = Point(Parent[b]).no + 1
          /\ Point(t).no \in Nat /\ Point(Parent[b]).no \in Nat
    BY <1>1, HeightStep DEF HeaderValid, SInv, StateAt, Heights
  <1>3. Parent[b] = t
    <2>1. CASE Parent[b] \in Lineage(t)
      <3>1. t # Anchor /\ t \in Blocks /\ t \in Lineage(t)
        BY <1>1, <2>1, LineageEquation
      <3>2. Parent[b] \in Blocks
        BY <1>1, <2>1, LineageWithin
      <3>3. Point(Parent[b]).no = BlockNo[Parent[b]] /\ Point(t).no = BlockNo[t]
        BY <3>1, <3>2, HeightStep
      <3>4. BlockNo[Parent[b]] <= Point(t).no
        BY <1>1, <2>1 DEF Heights
      <3>5. BlockNo[Parent[b]] = BlockNo[t]
        BY <1>2, <3>3, <3>4
      <3> QED
        BY <1>1, <2>1, <3>1, <3>5 DEF Heights
    <2>2. CASE Parent[b] = Anchor
      <3>1. Point(t).no = 0
        BY <1>2, <2>2 DEF Point
      <3>2. t \in Blocks => Point(t).no # 0
        BY HeightStep
      <3> QED
        BY <1>1, <2>2, <3>1, <3>2
    <2> QED
      BY <2>1, <2>2
  <1>4. EpochOf(Slot[b]) = epoch
    <2>1. epoch \in Nat /\ EpochOf(Slot[b]) \in Nat
      BY EpochIsNat DEF SInv, Ticked
    <2>2. SUFFICES ASSUME EpochOf(Slot[b]) < epoch PROVE FALSE
      BY <2>1
    <2>3. ProofNonce(b) = NonceOf(Lineage(t), epoch)
      BY DEF HeaderValid, SInv, StateAt
    <2>4. CASE t \in Blocks /\ epoch = EpochOf(Slot[t])
      <3>1. Slot[t] < Slot[b] /\ Slot[t] \in Nat /\ Slot[b] \in Nat
        BY <1>3, <2>4, SlotIsNat, TreeAssumption
      <3>2. EpochOf(Slot[t]) <= EpochOf(Slot[b])
        BY <3>1, EpochMonotone
      <3> QED
        BY <2>1, <2>2, <2>4, <3>2
    <2>5. ASSUME NEW c \in Blocks, Parent[c] = t, epoch <= EpochOf(Slot[c]) PROVE FALSE
      <3>1. EpochOf(Slot[c]) \in Nat
        BY EpochIsNat
      <3>2. epoch \in EpochOf(Slot[b]) + 1 .. EpochOf(Slot[c])
        BY <2>1, <2>2, <2>5, <3>1
      <3> QED
        BY <1>3, <2>3, <2>5, <3>2, FreshNonces
    <2> QED
      BY <2>1, <2>2, <2>4, <2>5 DEF SInv, Ticked
  <1> QED
    BY <1>3, <1>4

\* A sound header on the tip, of the current epoch, validates.
LEMMA ExtensionValid ==
    ASSUME SInv, NEW b \in Blocks, b \notin Unsound, Parent[b] = selector.tip,
           EpochOf(Slot[b]) = epoch, Counter[b] >= chainDep.counters[CertKey[b]]
    PROVE  HeaderValid(chainDep, b, ProofNonce(b))
  <1> DEFINE t == selector.tip
  <1>1. t \in Blocks \cup {Anchor} /\ Linked(Lineage(t)) /\ TipPoint(Lineage(t)) = t
          /\ Point(t).no \in Nat
    BY SelectorFields, LineageLinked
  <1>2. Slot[b] > LastSlot(Lineage(t))
    <2>1. CASE Lineage(t) = {}
      BY <2>1, SlotIsNat DEF LastSlot
    <2>2. CASE Lineage(t) # {}
      <3>1. Tip(Lineage(t)) \in Lineage(t)
        BY <1>1, <2>2, TipIsMax DEF Linked
      <3>2. \A c \in Lineage(t) : Slot[c] < Slot[b]
        BY <1>1, LinkedExtend
      <3>3. LastSlot(Lineage(t)) \in Nat /\ Slot[b] \in Nat
        BY <1>1, LastSlotBounds, SlotIsNat DEF Linked
      <3> QED
        BY <2>2, <3>1, <3>2, <3>3 DEF LastSlot
    <2> QED
      BY <2>1, <2>2
  <1>3. BlockNo[b] > Point(t).no
    BY <1>1, HeightStep
  <1>4. ProofNonce(b) = NonceOf(Lineage(t), epoch)
    <2>1. epoch \in Nat /\ epoch <= EpochOf(Slot[b])
      BY DEF SInv, Ticked
    <2> QED
      BY <2>1, NonceKept DEF ProofNonce
  <1> QED
    BY <1>2, <1>3, <1>4 DEF HeaderValid, SInv, StateAt

-----------------------------------------------------------------------------
(* The steps.                                                                *)

\* push_snapshot keeps the ring that of the last blocks of the chain.
LEMMA RingPush ==
    ASSUME NEW ring, NEW b \in Blocks, RingOf(ring, Parent[b]), NEW snap, SnapshotOf(snap, b)
    PROVE  RingOf(PushSnapshot(ring, snap), b)
  <1> DEFINE n == Len(ring)
             r == Append(ring, snap)
             no == Point(b).no
  <1>1. PICK R : ring \in Seq(R)
    BY DEF RingOf
  <1>2. n \in Nat /\ n <= SnapshotLimit /\ SnapshotLimit \in Nat
    BY <1>1, SelectorAssumption DEF RingOf
  <1>3. /\ r \in Seq(R \cup {snap}) /\ Len(r) = n + 1 /\ r[n + 1] = snap
        /\ \A i \in 1..n : r[i] = ring[i]
    BY <1>1
  <1>4. /\ Lineage(b) = Lineage(Parent[b]) \cup {b} /\ no = BlockNo[b] /\ b # Anchor
        /\ Point(Parent[b]).no \in Nat /\ no = Point(Parent[b]).no + 1 /\ no \in Nat
    BY HeightStep, LineageEquation, AnchorAssumption
  <1> HIDE DEF r, no, n
  <1>5. \A i \in 1..n + 1 : r[i].no = no - (n + 1) + i /\ \E c \in Lineage(b) : SnapshotOf(r[i], c)
    <2> TAKE i \in 1..n + 1
    <2>1. CASE i = n + 1
      <3>1. r[i] = snap /\ snap.no = no /\ SnapshotOf(r[i], b) /\ b \in Lineage(b)
        BY <1>3, <1>4, <2>1 DEF SnapshotOf
      <3> QED
        BY <1>2, <1>4, <2>1, <3>1
    <2>2. CASE i # n + 1
      <3>1. i \in 1..n /\ r[i] = ring[i]
        BY <1>2, <1>3, <2>2
      <3>2. /\ ring[i].no = Point(Parent[b]).no - n + i
            /\ \E c \in Lineage(Parent[b]) : SnapshotOf(ring[i], c)
        BY <3>1 DEF RingOf, n
      <3>3. ASSUME NEW x \in Nat, NEW k \in Nat PROVE x - k + i = (x + 1) - (k + 1) + i
        BY <3>1
      <3>4. Point(Parent[b]).no - n + i = no - (n + 1) + i
        BY <1>2, <1>4, <3>3
      <3> QED
        BY <1>4, <3>1, <3>2, <3>4
    <2> QED
      BY <2>1, <2>2
  <1>6. CASE n + 1 <= SnapshotLimit
    <2>1. PushSnapshot(ring, snap) = r
      BY <1>2, <1>3, <1>6 DEF PushSnapshot, r, n
    <2> QED
      BY <1>2, <1>3, <1>5, <1>6, <2>1 DEF RingOf, no
  <1>7. CASE ~(n + 1 <= SnapshotLimit)
    <2> DEFINE m == n + 1 - SnapshotLimit
               q == SubSeq(r, m + 1, n + 1)
    <2>1. m \in Nat /\ m + SnapshotLimit = n + 1
      BY <1>2, <1>7
    <2>2. PushSnapshot(ring, snap) = q
      BY <1>2, <1>3, <1>7, <2>1 DEF PushSnapshot, r, n
    <2>3. q \in Seq(R \cup {snap}) /\ Len(q) = SnapshotLimit
            /\ \A i \in 1..SnapshotLimit : q[i] = r[i + m]
      BY <1>2, <1>3, <2>1
    <2> HIDE DEF q, m
    <2>4. \A i \in 1..SnapshotLimit : /\ q[i].no = no - SnapshotLimit + i
                                      /\ \E c \in Lineage(b) : SnapshotOf(q[i], c)
      <3> TAKE i \in 1..SnapshotLimit
      <3>1. i + m \in 1..n + 1
        BY <1>2, <2>1
      <3>2. ASSUME NEW x \in Nat, NEW k \in Nat, NEW l \in Nat, m + l = k + 1
            PROVE  x - (k + 1) + (i + m) = x - l + i
        BY <2>1, <3>2
      <3>3. no - (n + 1) + (i + m) = no - SnapshotLimit + i
        BY <1>2, <1>4, <2>1, <3>2
      <3> QED
        BY <1>5, <2>3, <3>1, <3>3
    <2> QED
      BY <1>2, <2>2, <2>3, <2>4 DEF RingOf, no
  <1> QED
    BY <1>6, <1>7

\* process_header_arrival: nothing changes, or the header is on the tip and the state,
\* the selector and the ring all move to it.
LEMMA HeaderStep ==
    ASSUME SInv, NEW b \in Blocks, HeaderArrival(b)
    PROVE  SInv'
  <1> DEFINE chosen == SelectBestChain(selector, <<FragmentOf(b)>>)
  <1>1. /\ Parent[b] \in Lineage(selector.tip) \cup {Anchor}
        /\ EpochOf(Slot[b]) <= epoch
        /\ \/ UNCHANGED <<chainDep, selector, recent>>
           \/ /\ HeaderValid(chainDep, b, ProofNonce(b))
              /\ chainDep' = ApplyHeader(chainDep, b)
              /\ selector' = chosen.state
              /\ recent' = IF chosen.event = "ChainSelected"
                           THEN PushSnapshot(recent, [no |-> BlockNo[b], chainDep |-> chainDep',
                                                      view |-> View[b]])
                           ELSE recent
        /\ UNCHANGED epoch
    BY Zenon DEF HeaderArrival, FragmentOf
  <1>2. CASE UNCHANGED <<chainDep, selector, recent>>
    BY <1>1, <1>2 DEF SInv, SelectorAt, Ticked
  <1>3. CASE ~UNCHANGED <<chainDep, selector, recent>>
    <2>1. Parent[b] = selector.tip /\ EpochOf(Slot[b]) = epoch
      BY <1>1, <1>3, ValidExtendsTip
    <2>2. /\ chosen.event = "ChainSelected"
          /\ chosen.state = [selector EXCEPT !.tip = b, !.tipNo = selector.tipNo + 1,
                                             !.view = View[b]]
      BY FragmentSelected
    <2> HIDE DEF chosen
    <2>3. epoch \in Nat /\ StateAt(chainDep, Parent[b], epoch) /\ RingOf(recent, Parent[b])
            /\ \A c \in Lineage(Parent[b]) : EpochOf(Slot[c]) <= epoch
      BY <2>1 DEF SInv, Ticked
    <2>4. StateAt(chainDep', b, epoch)
      BY <1>1, <1>3, <2>1, <2>3, HeaderState
    <2>5. RingOf(recent', b)
      <3> DEFINE snap == [no |-> BlockNo[b], chainDep |-> chainDep', view |-> View[b]]
      <3>1. SnapshotOf(snap, b)
        BY <2>1, <2>4 DEF SnapshotOf
      <3>2. recent' = PushSnapshot(recent, snap)
        BY <1>1, <1>3, <2>2
      <3> QED
        BY <2>3, <3>1, <3>2, RingPush
    <2>6. selector'.tip = b /\ SelectorAt(b)'
      <3>1. /\ selector.tipNo + 1 = Point(b).no /\ selector.immutableSlot = AnchorSlot
            /\ selector.immutableNo = 0
            /\ DOMAIN selector = {"tip", "tipNo", "view", "immutableSlot", "immutableNo"}
        BY <2>1, SelectorFields, HeightStep
      <3>2. selector' = [selector EXCEPT !.tip = b, !.tipNo = selector.tipNo + 1, !.view = View[b]]
        BY <1>1, <1>3, <2>2
      <3>3. /\ DOMAIN selector' = DOMAIN selector /\ selector'.tip = b
            /\ selector'.tipNo = Point(b).no /\ selector'.immutableSlot = AnchorSlot
            /\ selector'.immutableNo = 0
        BY <3>1, <3>2
      <3> QED
        BY <3>1, <3>3 DEF SelectorAt
    <2>7. Ticked(b)'
      <3>1. Lineage(b) = Lineage(Parent[b]) \cup {b}
        BY LineageEquation
      <3> QED
        BY <1>1, <2>1, <2>3, <3>1 DEF Ticked
    <2> QED
      BY <1>1, <2>4, <2>5, <2>6, <2>7 DEF SInv
  <1> QED
    BY <1>2, <1>3

\* A snapshot with the number of a point on the chain is the one taken there.
LEMMA SnapshotFound ==
    ASSUME SInv, NEW p \in Lineage(selector.tip) \cup {Anchor}, NEW i \in DOMAIN recent,
           recent[i].no = Point(p).no
    PROVE  /\ p \in Blocks /\ p \in Lineage(selector.tip)
           /\ i \in 1..Len(recent) /\ SnapshotOf(recent[i], p)
  <1> DEFINE t == selector.tip
  <1>1. t \in Blocks \cup {Anchor} /\ Heights(t)
    BY SelectorFields, LineageHeights
  <1>2. i \in 1..Len(recent)
    <2>1. PICK R : recent \in Seq(R)
      BY DEF SInv, RingOf
    <2> QED
      BY <2>1
  <1>3. PICK b \in Lineage(t) : SnapshotOf(recent[i], b)
    BY <1>2 DEF SInv, RingOf
  <1>4. BlockNo[b] = Point(p).no /\ BlockNo[b] # 0
    BY <1>1, <1>3 DEF SnapshotOf, Heights
  <1>5. p # Anchor
    BY <1>4 DEF Point
  <1>6. p \in Blocks
    BY <1>1, <1>5, LineageWithin
  <1>7. BlockNo[b] = BlockNo[p]
    BY <1>4, <1>6, HeightStep
  <1>8. b = p
    BY <1>1, <1>5, <1>7 DEF Heights
  <1> QED
    BY <1>2, <1>3, <1>5, <1>6, <1>8

\* What the retained snapshots of a rollback to the i-th are: those of p's chain.
LEMMA RingRollBack ==
    ASSUME NEW ring, NEW t \in Blocks \cup {Anchor}, RingOf(ring, t), NEW p \in Lineage(t),
           NEW i \in 1..Len(ring), ring[i].no = BlockNo[p]
    PROVE  RingOf(Retain(ring, BlockNo[p]), p)
  <1> DEFINE n == Len(ring)
             no == BlockNo[p]
             base == Point(t).no - n
  <1>1. PICK R : ring \in Seq(R)
    BY DEF RingOf
  <1>2. n \in Nat /\ i \in Nat /\ i <= n /\ i # 0 /\ n <= SnapshotLimit /\ SnapshotLimit \in Nat
    BY <1>1, SelectorAssumption DEF RingOf
  <1>3. Heights(t) /\ p \in Blocks /\ no \in Nat /\ Point(p).no = no
    BY LineageHeights, LineageWithin, TreeAssumption, HeightStep
  <1>4. base \in Int /\ \A j \in 1..n : ring[j].no = base + j
    BY <1>2, <1>3 DEF RingOf, Heights
  <1> HIDE DEF base
  <1>5. Retain(ring, no) = SubSeq(ring, 1, i)
    BY <1>1, <1>3, <1>4, RetainPrefix
  <1> DEFINE q == SubSeq(ring, 1, i)
  <1>6. q \in Seq(R) /\ Len(q) = i /\ \A j \in 1..i : q[j] = ring[j]
    BY <1>1, <1>2
  <1>8. Retain(ring, no) = q
    BY <1>5
  <1> HIDE DEF q
  <1>7. \A j \in 1..i : q[j].no = no - i + j /\ \E c \in Lineage(p) : SnapshotOf(q[j], c)
    <2> TAKE j \in 1..i
    <2>1. j \in 1..n /\ q[j] = ring[j] /\ ring[j].no = base + j /\ ring[i].no = base + i
      BY <1>2, <1>4, <1>6
    <2>2. base + j = no - i + j /\ base + j <= no
      BY <1>2, <1>3, <1>4, <2>1
    <2>3. PICK c \in Lineage(t) : SnapshotOf(ring[j], c)
      BY <2>1 DEF RingOf
    <2>4. BlockNo[c] <= no
      BY <2>1, <2>2, <2>3 DEF SnapshotOf
    <2>5. c \in Lineage(p)
      BY <2>4, LineageWithin
    <2> QED
      BY <2>1, <2>2, <2>3, <2>5
  <1> QED
    BY <1>2, <1>3, <1>6, <1>7, <1>8 DEF RingOf

\* The selector after a rollback to p, whose tiebreaker is view.
WentBack(p, view) == [selector EXCEPT !.tip = p, !.tipNo = BlockNo[p], !.view = view]

\* What apply_rollback makes of a request to a point on the chain.
LEMMA RollbackApplied ==
    ASSUME SInv, NEW p \in Blocks, NEW view, NEW req,
           req.to = p, req.toNo = BlockNo[p], req.depth = selector.tipNo - BlockNo[p],
           NEW applied, applied = ApplyRollback(selector, req, view)
    PROVE  \/ /\ selector.tipNo - BlockNo[p] <= SecurityParam
              /\ applied.event = "RolledBack"
              /\ applied.state = WentBack(p, view)
           \/ /\ selector.tipNo - BlockNo[p] > SecurityParam
              /\ applied.event = "ExceededRollback"
              /\ applied.state = selector
  <1>1. selector.immutableNo = 0 /\ selector.tipNo \in Nat /\ BlockNo[p] \in Nat
          /\ SecurityParam \in Nat
    BY SelectorFields, TreeAssumption, SecurityParamAssumption
  <1>2. ~(req.toNo < selector.immutableNo)
    BY <1>1
  <1>3. CASE req.depth > SecurityParam
    <2>1. applied = [state |-> selector, event |-> "ExceededRollback"]
      BY <1>2, <1>3, Zenon DEF ApplyRollback
    <2> QED
      BY <1>3, <2>1
  <1>4. CASE ~(req.depth > SecurityParam)
    <2>1. applied = [state |-> [selector EXCEPT !.tip = req.to, !.tipNo = req.toNo, !.view = view],
                     event |-> "RolledBack"]
      BY <1>2, <1>4, Zenon DEF ApplyRollback
    <2>2. selector.tipNo - BlockNo[p] <= SecurityParam
      BY <1>1, <1>4
    <2> QED
      BY <2>1, <2>2 DEF WentBack
  <1> QED
    BY <1>3, <1>4

\* process_rollback: refused, or everything goes back to what it was at the point.
LEMMA RollBackStep ==
    ASSUME SInv, NEW p \in Blocks \cup {Anchor}, RollBackTo(p)
    PROVE  \/ UNCHANGED <<chainDep, selector, recent, epoch>> /\ event' # "RolledBack"
           \/ /\ SInv'
              /\ p \in Blocks /\ p \in Lineage(selector.tip)
              /\ event' = "RolledBack" /\ selector'.tip = p
              /\ selector.tipNo - BlockNo[p] <= SecurityParam
  <1> DEFINE req == [to |-> p, toNo |-> Point(p).no, depth |-> selector.tipNo - Point(p).no]
             found == {i \in DOMAIN recent : recent[i].no = req.toNo}
  <1>1. p \in Lineage(selector.tip) \cup {Anchor}
    BY DEF RollBackTo
  <1>2. CASE event' = "ExceededRollback" /\ UNCHANGED <<chainDep, selector, recent, epoch>>
    BY <1>2
  <1>3. ASSUME NEW i \in found, NEW applied, applied = ApplyRollback(selector, req, recent[i].view),
               selector' = applied.state, event' = applied.event,
               \/ /\ applied.event = "RolledBack" /\ chainDep' = recent[i].chainDep
                  /\ recent' = Retain(recent, req.toNo) /\ epoch' = EpochOf(Point(p).slot)
               \/ applied.event # "RolledBack" /\ UNCHANGED <<chainDep, recent, epoch>>
        PROVE  \/ UNCHANGED <<chainDep, selector, recent, epoch>> /\ event' # "RolledBack"
               \/ /\ SInv'
                  /\ p \in Blocks /\ p \in Lineage(selector.tip)
                  /\ event' = "RolledBack" /\ selector'.tip = p
                  /\ selector.tipNo - BlockNo[p] <= SecurityParam
    <2>1. i \in DOMAIN recent /\ recent[i].no = Point(p).no
      BY <1>3
    <2>2. /\ p \in Blocks /\ p \in Lineage(selector.tip)
          /\ i \in 1..Len(recent) /\ SnapshotOf(recent[i], p)
      BY <1>1, <2>1, SnapshotFound
    <2>3. Point(p).no = BlockNo[p] /\ Point(p).slot = Slot[p] /\ EpochOf(Slot[p]) \in Nat
      <3>1. Point(p).no = BlockNo[p] /\ Point(p).slot = Slot[p]
        BY <2>2, HeightStep
      <3>2. EpochOf(Slot[p]) \in Nat
        BY <2>2, EpochIsNat
      <3> QED
        BY <3>1, <3>2
    <2>4. req.to = p /\ req.toNo = BlockNo[p] /\ req.depth = selector.tipNo - BlockNo[p]
      BY <2>3
    <2> HIDE DEF req
    <2>5. \/ /\ selector.tipNo - BlockNo[p] <= SecurityParam
             /\ applied.event = "RolledBack"
             /\ applied.state = WentBack(p, recent[i].view)
          \/ /\ selector.tipNo - BlockNo[p] > SecurityParam
             /\ applied.event = "ExceededRollback" /\ applied.state = selector
      BY <1>3, <2>2, <2>4, RollbackApplied
    <2>6. CASE applied.event = "ExceededRollback"
      BY <1>3, <2>5, <2>6
    <2>7. CASE applied.event # "ExceededRollback"
      <3>1. /\ selector.tipNo - BlockNo[p] <= SecurityParam /\ event' = "RolledBack"
            /\ selector' = WentBack(p, recent[i].view)
            /\ chainDep' = recent[i].chainDep
            /\ recent' = Retain(recent, BlockNo[p]) /\ epoch' = EpochOf(Slot[p])
        BY <1>3, <2>3, <2>4, <2>5, <2>7
      <3>2. StateAt(chainDep', p, epoch')
        BY <2>2, <3>1 DEF SnapshotOf
      <3>3. RingOf(recent', p)
        <4>1. selector.tip \in Blocks \cup {Anchor} /\ RingOf(recent, selector.tip)
                /\ recent[i].no = BlockNo[p]
          BY <2>1, <2>3, SelectorFields DEF SInv
        <4> QED
          BY <2>2, <3>1, <4>1, RingRollBack
      <3>4. selector'.tip = p /\ SelectorAt(p)'
        <4>1. /\ selector.immutableSlot = AnchorSlot /\ selector.immutableNo = 0
              /\ DOMAIN selector = {"tip", "tipNo", "view", "immutableSlot", "immutableNo"}
          BY SelectorFields
        <4>2. /\ DOMAIN selector' = DOMAIN selector /\ selector'.tip = p
              /\ selector'.tipNo = BlockNo[p] /\ selector'.immutableSlot = AnchorSlot
              /\ selector'.immutableNo = 0
          BY <3>1, <4>1 DEF WentBack
        <4> QED
          BY <2>2, <2>3, <4>1, <4>2 DEF SelectorAt
      <3>5. Ticked(p)'
        <4>1. \A c \in Lineage(p) : EpochOf(Slot[c]) <= EpochOf(Slot[p])
          <5> TAKE c \in Lineage(p)
          <5>1. Linked(Lineage(p)) /\ Tip(Lineage(p)) = p /\ Lineage(p) # {}
            BY <2>2, LineageLinked, LineageEquation DEF TipPoint
          <5>2. c \in Blocks /\ Slot[c] <= Slot[p]
            BY <5>1, TipIsMax DEF Linked
          <5> QED
            BY <2>2, <5>2, SlotIsNat, EpochMonotone
        <4> QED
          BY <2>2, <2>3, <3>1, <4>1 DEF Ticked
      <3> QED
        BY <2>2, <3>1, <3>2, <3>3, <3>4, <3>5 DEF SInv
    <2> QED
      BY <2>6, <2>7
  <1> HIDE DEF req, found
  <1>4. \/ event' = "ExceededRollback" /\ UNCHANGED <<chainDep, selector, recent, epoch>>
        \/ \E i \in found :
             LET applied == ApplyRollback(selector, req, recent[i].view) IN
             /\ selector' = applied.state
             /\ event' = applied.event
             /\ \/ /\ applied.event = "RolledBack" /\ chainDep' = recent[i].chainDep
                   /\ recent' = Retain(recent, req.toNo) /\ epoch' = EpochOf(Point(p).slot)
                \/ applied.event # "RolledBack" /\ UNCHANGED <<chainDep, recent, epoch>>
    BY Zenon DEF RollBackTo, req, found
  <1> QED
    BY <1>2, <1>3, <1>4, Zenon

\* process_epoch_boundary: refused, or the chain's state in the next epoch.
LEMMA TickStep ==
    ASSUME SInv, EpochTick
    PROVE  SInv'
  <1>1. selector.tip \in Blocks \cup {Anchor} /\ epoch \in Nat /\ UNCHANGED <<selector, recent>>
    BY SelectorFields DEF SInv, Ticked, EpochTick
  <1>2. CASE UNCHANGED <<chainDep, epoch>>
    BY <1>1, <1>2 DEF SInv, SelectorAt, Ticked
  <1>3. CASE ~UNCHANGED <<chainDep, epoch>>
    <2>1. PICK b \in Blocks : Parent[b] = selector.tip /\ EpochOf(Slot[b]) > epoch
      BY DEF EpochTick
    <2>2. BoundaryPossible(chainDep) /\ chainDep' = EpochBoundary(chainDep) /\ epoch' = epoch + 1
      BY <1>3 DEF EpochTick
    <2>3. \A c \in Lineage(selector.tip) : EpochOf(Slot[c]) <= epoch /\ EpochOf(Slot[c]) \in Nat
      BY <1>1, EpochIsNat, LineageLinked DEF SInv, Ticked, Linked
    <2>4. StateAt(chainDep', selector.tip, epoch')
      BY <1>1, <2>2, <2>3, TickState DEF SInv
    <2>5. Ticked(selector.tip)'
      <3>1. epoch + 1 \in Nat /\ epoch + 1 <= EpochOf(Slot[b])
        BY <1>1, <2>1, EpochIsNat
      <3>2. \A c \in Lineage(selector.tip) : EpochOf(Slot[c]) <= epoch + 1
        BY <1>1, <2>3
      <3> QED
        BY <1>1, <2>1, <2>2, <3>1, <3>2 DEF Ticked
    <2> QED
      BY <1>1, <2>4, <2>5 DEF SInv, SelectorAt
  <1> QED
    BY <1>2, <1>3

\* Every step keeps the orchestrator in the state of its chain.
LEMMA StepSInv ==
    ASSUME SInv, [Next]_vars
    PROVE  SInv'
  <1>1. ASSUME NEW b \in Blocks, HeaderArrival(b) PROVE SInv'
    BY <1>1, HeaderStep
  <1>2. ASSUME NEW p \in Blocks \cup {Anchor}, RollBackTo(p) PROVE SInv'
    <2>1. CASE UNCHANGED <<chainDep, selector, recent, epoch>>
      BY <2>1 DEF SInv, SelectorAt, Ticked
    <2> QED
      BY <1>2, <2>1, RollBackStep
  <1>3. CASE EpochTick
    BY <1>3, TickStep
  <1>4. CASE UNCHANGED vars
    BY <1>4 DEF SInv, SelectorAt, Ticked, vars
  <1> QED
    BY <1>1, <1>2, <1>3, <1>4 DEF Next

\* The state, the selector and the ring of the orchestrator stay those of one chain.
LEMMA SInvAlways == Spec => []SInv
  BY InitSInv, StepSInv, PTL DEF Spec

\* The chain-dependent state is the one the selector's own chain determines, whatever
\* headers, ticks and rollbacks led there.
THEOREM StateIsOfChain == Spec => []ChainDepOfTip
  <1>1. SInv => ChainDepOfTip
    <2> SUFFICES ASSUME SInv PROVE ChainDepOfTip
      OBVIOUS
    <2>1. StateAt(chainDep, selector.tip, epoch) /\ selector.tipNo = Point(selector.tip).no
      BY SelectorFields DEF SInv
    <2> QED
      BY <2>1 DEF StateAt, ChainDepOfTip
  <1> QED
    BY <1>1, SInvAlways, PTL

\* The ring holds the snapshots of the last blocks of the current chain: a rollback can
\* restore no state of an abandoned branch.
THEOREM RingIsOfChain == Spec => []SnapshotsOfChain
  <1>1. SInv => SnapshotsOfChain
    <2> SUFFICES ASSUME SInv PROVE SnapshotsOfChain
      OBVIOUS
    <2> DEFINE n == Len(recent)
    <2>1. RingOf(recent, selector.tip) /\ selector.tipNo = Point(selector.tip).no
            /\ selector.tipNo \in Nat
      BY SelectorFields DEF SInv
    <2>2. PICK R : recent \in Seq(R)
      BY <2>1 DEF RingOf
    <2>3. n \in Nat /\ DOMAIN recent = 1..n /\ n <= SnapshotLimit
      BY <2>1, <2>2 DEF RingOf
    <2>4. \A i \in 1..n : recent[i].no = selector.tipNo - n + i
      BY <2>1 DEF RingOf
    <2>5. selector.tip # Anchor /\ SnapshotLimit > 0 => recent # <<>> /\ recent[n].no = selector.tipNo
      <3> SUFFICES ASSUME selector.tip # Anchor, SnapshotLimit > 0
                   PROVE  recent # <<>> /\ recent[n].no = selector.tipNo
        OBVIOUS
      <3>1. n > 0
        BY <2>1 DEF RingOf
      <3>2. n \in 1..n /\ recent[n].no = selector.tipNo - n + n
        BY <2>3, <2>4, <3>1
      <3> QED
        BY <2>1, <2>3, <3>1, <3>2
    <2>6. ASSUME NEW i \in 1..n, i > 1 PROVE recent[i - 1].no < recent[i].no
      <3>1. i - 1 \in 1..n
        BY <2>3, <2>6
      <3>2. recent[i - 1].no = selector.tipNo - n + (i - 1) /\ recent[i].no = selector.tipNo - n + i
        BY <2>4, <3>1
      <3> QED
        BY <2>1, <2>3, <3>2
    <2>7. ASSUME NEW i \in 1..n
          PROVE  \E b \in Lineage(selector.tip) :
                    /\ recent[i].no = BlockNo[b] /\ recent[i].view = View[b]
                    /\ recent[i].chainDep.evolving = InOrder(Lineage(b))
                    /\ recent[i].chainDep.epochNonce = ProofNonce(b)
      BY <2>1 DEF RingOf, SnapshotOf, StateAt, ProofNonce
    <2> QED
      BY <2>3, <2>5, <2>6, <2>7 DEF SnapshotsOfChain
  <1> QED
    BY <1>1, SInvAlways, PTL

\* Of the sound headers, process_header_arrival selects those of the current epoch on
\* the tip, and no others.
THEOREM SelectsExtensions == Spec => OnlyExtensionsSelected
  <1>1. ASSUME SInv, NEW b \in Blocks \ Unsound, HeaderArrival(b),
               Counter[b] >= chainDep.counters[CertKey[b]]
        PROVE  event' = "ChainSelected" <=> Parent[b] = selector.tip /\ EpochOf(Slot[b]) = epoch
    <2>1. /\ Parent[b] \in Lineage(selector.tip) \cup {Anchor}
          /\ EpochOf(Slot[b]) <= epoch
          /\ \/ /\ ~HeaderValid(chainDep, b, ProofNonce(b))
                /\ event' = "HeaderInvalid"
             \/ /\ HeaderValid(chainDep, b, ProofNonce(b))
                /\ event' = SelectBestChain(selector, <<FragmentOf(b)>>).event
      BY <1>1, Zenon DEF HeaderArrival, FragmentOf
    <2>2. SelectBestChain(selector, <<FragmentOf(b)>>).event = "ChainSelected"
      BY <1>1, FragmentSelected
    <2>3. CASE HeaderValid(chainDep, b, ProofNonce(b))
      BY <1>1, <2>1, <2>2, <2>3, ValidExtendsTip
    <2>4. CASE ~HeaderValid(chainDep, b, ProofNonce(b))
      BY <1>1, <2>1, <2>4, ExtensionValid
    <2> QED
      BY <2>3, <2>4
  <1>2. SInv /\ [Next]_vars =>
          [\A b \in Blocks \ Unsound :
             HeaderArrival(b) /\ Counter[b] >= chainDep.counters[CertKey[b]]
               => (event' = "ChainSelected"
                     <=> Parent[b] = selector.tip /\ EpochOf(Slot[b]) = epoch)]_vars
    BY <1>1
  <1> QED
    BY <1>2, SInvAlways, PTL DEF Spec, OnlyExtensionsSelected

\* process_rollback takes at most k blocks off the chain, and follows every rollback of
\* at most k blocks to a block at or above the oldest snapshot.
THEOREM RollbacksAreBounded == Spec => RollbackDepthBounded
  <1>1. ASSUME SInv, NEW p \in Blocks, RollBackTo(p)
        PROVE  selector'.tipNo + SecurityParam >= selector.tipNo
    <2>1. selector.tipNo \in Nat /\ SecurityParam \in Nat /\ BlockNo[p] \in Nat
      BY <1>1, SelectorFields, SecurityParamAssumption, TreeAssumption
    <2>2. CASE selector' = selector
      BY <2>1, <2>2
    <2>3. CASE selector' # selector
      <3>1. SInv' /\ selector'.tip = p /\ selector.tipNo - BlockNo[p] <= SecurityParam
        BY <1>1, <2>3, RollBackStep
      <3>2. selector'.tipNo = BlockNo[p]
        BY <3>1, HeightStep DEF SInv, SelectorAt
      <3> QED
        BY <2>1, <3>1, <3>2
    <2> QED
      BY <2>2, <2>3
  <1>2. ASSUME SInv, NEW p \in Blocks, RollBackTo(p), recent # <<>>,
               BlockNo[p] >= recent[1].no, selector.tipNo - BlockNo[p] <= SecurityParam
        PROVE  event' = "RolledBack"
    <2> DEFINE n == Len(recent)
               req == [to |-> p, toNo |-> Point(p).no, depth |-> selector.tipNo - Point(p).no]
               found == {i \in DOMAIN recent : recent[i].no = req.toNo}
    <2>1. /\ selector.tip \in Blocks \cup {Anchor} /\ selector.tipNo = Point(selector.tip).no
          /\ selector.tipNo \in Nat /\ RingOf(recent, selector.tip) /\ SecurityParam \in Nat
      BY <1>2, SelectorFields, SecurityParamAssumption DEF SInv
    <2>2. PICK R : recent \in Seq(R)
      BY <2>1 DEF RingOf
    <2>3. n \in Nat /\ n # 0 /\ DOMAIN recent = 1..n
      BY <1>2, <2>2
    <2>4. \A i \in 1..n : recent[i].no = selector.tipNo - n + i
      BY <2>1 DEF RingOf
    <2>5. p \in Lineage(selector.tip) /\ BlockNo[p] \in Nat /\ BlockNo[p] <= selector.tipNo
      <3>1. p \in Lineage(selector.tip)
        BY <1>2, AnchorAssumption DEF RollBackTo
      <3> QED
        BY <2>1, <3>1, LineageHeights, TreeAssumption DEF Heights
    <2> DEFINE j == BlockNo[p] - selector.tipNo + n
    <2>6. j \in 1..n
      <3>1. 1 \in 1..n /\ recent[1].no = selector.tipNo - n + 1
        BY <2>3, <2>4
      <3> QED
        BY <1>2, <2>1, <2>3, <2>5, <3>1
    <2>7. recent[j].no = BlockNo[p]
      <3>1. recent[j].no = selector.tipNo - n + j
        BY <2>4, <2>6
      <3> QED
        BY <2>1, <2>3, <2>5, <3>1
    <2>8. j \in found
      BY <2>3, <2>6, <2>7, HeightStep
    <2> HIDE DEF j, found, req
    <2>9. PICK i \in found : event' = ApplyRollback(selector, req, recent[i].view).event
      <3>1. \/ found = {}
            \/ \E i \in found : event' = ApplyRollback(selector, req, recent[i].view).event
        BY <1>2, Zenon DEF RollBackTo, found, req
      <3> QED
        BY <2>8, <3>1
    <2>10. req.to = p /\ req.toNo = BlockNo[p] /\ req.depth = selector.tipNo - BlockNo[p]
      BY HeightStep DEF req
    <2>11. \/ ApplyRollback(selector, req, recent[i].view).event = "RolledBack"
           \/ selector.tipNo - BlockNo[p] > SecurityParam
      BY <1>2, <2>10, RollbackApplied
    <2> QED
      BY <1>2, <2>1, <2>5, <2>9, <2>11
  <1>3. SInv /\ [Next]_vars =>
          [\A p \in Blocks : RollBackTo(p) =>
             /\ selector'.tipNo + SecurityParam >= selector.tipNo
             /\ (/\ recent # <<>> /\ BlockNo[p] >= recent[1].no
                 /\ selector.tipNo - BlockNo[p] <= SecurityParam)
                   => event' = "RolledBack"]_vars
    BY <1>1, <1>2
  <1> QED
    BY <1>3, SInvAlways, PTL DEF Spec, RollbackDepthBounded

=============================================================================
