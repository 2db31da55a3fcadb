----------------------------- MODULE ChainProofs -----------------------------
(***************************************************************************)
(* What holds of every tree of blocks: the tip of a set of blocks, and the *)
(* sets that are a chain from the anchor.                                  *)
(***************************************************************************)
EXTENDS Chain, WellFoundedInduction, TLAPS

\* A non-empty set of naturals has a least element.
LEMMA LeastNatural ==
    ASSUME NEW T, T \subseteq Nat, T # {}
    PROVE  \E x \in T : \A y \in T : x <= y
<1>1. PICK x \in T : \A y \in T : ~ (<<y, x>> \in OpToRel(<, Nat))
  BY NatLessThanWellFounded, WFMin
<1>2. \A y \in T : ~ (y < x)
  BY <1>1 DEF OpToRel
<1>3. \A y \in T : x <= y
  BY <1>2
<1> QED
  BY <1>3

\* Slots are naturals above the anchor's.
LEMMA SlotIsNat ==
    ASSUME NEW b \in Blocks
    PROVE  Slot[b] \in Nat /\ AnchorSlot \in Nat /\ AnchorSlot < Slot[b] /\ b # Anchor
  BY TreeAssumption, AnchorAssumption

\* ChainDb::tip is the block with the greatest slot.
LEMMA TipIsMax ==
    ASSUME NEW S, S \subseteq Blocks, S # {}
    PROVE  Tip(S) \in S /\ \A c \in S : Slot[c] <= Slot[Tip(S)]
<1> DEFINE T == {MaxSlot - Slot[b] : b \in S}
<1>1. T \subseteq Nat /\ T # {}
  BY TreeAssumption
<1>2. PICK t \in T : \A y \in T : t <= y
  BY <1>1, LeastNatural
<1>3. PICK b \in S : t = MaxSlot - Slot[b]
  OBVIOUS
<1>4. \A c \in S : Slot[c] <= Slot[b]
  <2> TAKE c \in S
  <2>1. MaxSlot - Slot[b] <= MaxSlot - Slot[c]
    BY <1>2, <1>3
  <2> QED
    BY <2>1, TreeAssumption
<1> QED
  BY <1>3, <1>4 DEF Tip

\* A block above all others of a set is its tip.
LEMMA TipIs ==
    ASSUME NEW S, S \subseteq Blocks, NEW b \in S,
           \A c \in S : c = b \/ Slot[c] < Slot[b]
    PROVE  Tip(S) = b
<1>1. Tip(S) \in S /\ Slot[b] <= Slot[Tip(S)]
  BY TipIsMax
<1>2. Slot[b] \in Nat /\ Slot[Tip(S)] \in Nat
  BY <1>1, SlotIsNat
<1> QED
  BY <1>1, <1>2

\* A set of blocks ends at a slot no block of it is above.
LEMMA LastSlotBounds ==
    ASSUME NEW S, S \subseteq Blocks
    PROVE  /\ LastSlot(S) \in Nat /\ AnchorSlot <= LastSlot(S)
           /\ \A c \in S : Slot[c] <= LastSlot(S)
           /\ S # {} => Tip(S) \in S /\ LastSlot(S) = Slot[Tip(S)] /\ AnchorSlot < LastSlot(S)
<1>1. CASE S = {}
  BY <1>1, AnchorAssumption DEF LastSlot
<1>2. CASE S # {}
  BY <1>2, TipIsMax, SlotIsNat DEF LastSlot
<1> QED
  BY <1>1, <1>2

-----------------------------------------------------------------------------
(* Chains.                                                                   *)

\* The blocks of S below b.
Below(S, b) == {c \in S : Slot[c] < Slot[b]}

\* S is a chain from the anchor: the parent of each block is the block below it.
Linked(S) ==
    /\ S \subseteq Blocks
    /\ \A b \in S : Parent[b] = TipPoint(Below(S, b))
    /\ \A b, c \in S : Slot[b] = Slot[c] => b = c

\* The anchor alone is a chain.
LEMMA LinkedEmpty == Linked({})
  BY DEF Linked

\* A block whose parent is the tip is above the whole chain, and continues it.
LEMMA LinkedExtend ==
    ASSUME NEW S, Linked(S), NEW b \in Blocks, Parent[b] = TipPoint(S)
    PROVE  /\ \A c \in S : Slot[c] < Slot[b]
           /\ b \notin S
           /\ Linked(S \cup {b})
           /\ Tip(S \cup {b}) = b
           /\ LastSlot(S \cup {b}) = Slot[b]
<1>0. S \subseteq Blocks
  BY DEF Linked
<1>1. ASSUME NEW c \in S PROVE Slot[c] < Slot[b]
  <2>1. Parent[b] = Tip(S) /\ Tip(S) \in S /\ Slot[c] <= Slot[Tip(S)]
    BY <1>0, TipIsMax DEF TipPoint
  <2>2. Parent[b] # Anchor
    BY <1>0, <2>1, AnchorAssumption
  <2>3. Slot[Parent[b]] < Slot[b]
    BY <2>2, TreeAssumption
  <2>4. Slot[c] \in Nat /\ Slot[b] \in Nat /\ Slot[Tip(S)] \in Nat
    BY <1>0, <2>1, SlotIsNat
  <2> QED
    BY <2>1, <2>3, <2>4
<1>2. b \notin S
  BY <1>1, SlotIsNat
<1>3. Tip(S \cup {b}) = b
  BY <1>0, <1>1, TipIs
<1>4. Linked(S \cup {b})
  <2>1. Below(S \cup {b}, b) = S
    BY <1>1, SlotIsNat DEF Below
  <2>2. \A c \in S : Below(S \cup {b}, c) = Below(S, c)
    <3> TAKE c \in S
    <3>1. ~(Slot[b] < Slot[c])
      BY <1>0, <1>1, SlotIsNat
    <3> QED
      BY <3>1 DEF Below
  <2>3. \A c, d \in S \cup {b} : Slot[c] = Slot[d] => c = d
    BY <1>0, <1>1, SlotIsNat DEF Linked
  <2> QED
    BY <1>0, <2>1, <2>2, <2>3 DEF Linked
<1> QED
  BY <1>1, <1>2, <1>3, <1>4 DEF LastSlot

\* What a rollback keeps of a chain is a chain.
LEMMA LinkedUpto ==
    ASSUME NEW S, Linked(S), NEW s \in Nat
    PROVE  Linked(Upto(S, s))
<1>0. S \subseteq Blocks
  BY DEF Linked
<1>1. \A b \in Upto(S, s) : Below(Upto(S, s), b) = Below(S, b)
  <2> TAKE b \in Upto(S, s)
  <2>1. ASSUME NEW c \in S, Slot[c] < Slot[b] PROVE Slot[c] <= s
    BY <1>0, <2>1, SlotIsNat DEF Upto
  <2> QED
    BY <2>1 DEF Below, Upto
<1> QED
  BY <1>0, <1>1 DEF Linked, Upto

\* The parent of a block of a chain is on it, next below.
LEMMA LinkedParent ==
    ASSUME NEW S, Linked(S), NEW b \in S
    PROVE  \/ Parent[b] = Anchor /\ \A c \in S : ~(Slot[c] < Slot[b])
           \/ /\ Parent[b] \in S /\ Parent[b] # Anchor
              /\ Slot[Parent[b]] < Slot[b]
              /\ \A c \in S : Slot[c] < Slot[b] => Slot[c] <= Slot[Parent[b]]
<1>0. S \subseteq Blocks /\ Below(S, b) \subseteq Blocks
  BY DEF Linked, Below
<1>1. CASE Below(S, b) = {}
  BY <1>1 DEF Linked, TipPoint, Below
<1>2. CASE Below(S, b) # {}
  <2>1. Parent[b] = Tip(Below(S, b))
    BY <1>2 DEF Linked, TipPoint
  <2>2. Parent[b] \in Below(S, b) /\ \A c \in Below(S, b) : Slot[c] <= Slot[Parent[b]]
    BY <1>0, <1>2, <2>1, TipIsMax
  <2>3. Parent[b] \in S /\ Slot[Parent[b]] < Slot[b] /\ Parent[b] # Anchor
    BY <1>0, <2>2, AnchorAssumption DEF Below
  <2> QED
    BY <2>2, <2>3 DEF Below
<1> QED
  BY <1>1, <1>2

\* A block of a chain that is not its tip has a child on it, next above.
LEMMA LinkedChild ==
    ASSUME NEW S, Linked(S), NEW b \in S, NEW t \in S, Slot[b] < Slot[t]
    PROVE  \E c \in S : /\ Parent[c] = b /\ Slot[b] < Slot[c] /\ Slot[c] <= Slot[t]
<1>0. S \subseteq Blocks /\ \A x \in S : Slot[x] \in Nat
  BY SlotIsNat DEF Linked
<1> DEFINE later == {x \in S : Slot[b] < Slot[x]}
<1>1. PICK n \in {Slot[x] : x \in later} : \A m \in {Slot[x] : x \in later} : n <= m
  <2>1. {Slot[x] : x \in later} \subseteq Nat /\ {Slot[x] : x \in later} # {}
    BY <1>0
  <2> QED
    BY <2>1, LeastNatural
<1>2. PICK c \in later : n = Slot[c]
  OBVIOUS
<1>3. \A x \in later : Slot[c] <= Slot[x]
  BY <1>1, <1>2
<1>4. /\ Parent[c] \in S
      /\ Slot[Parent[c]] < Slot[c]
      /\ \A x \in S : Slot[x] < Slot[c] => Slot[x] <= Slot[Parent[c]]
  BY <1>2, LinkedParent
<1>5. ~(Slot[b] < Slot[Parent[c]])
  BY <1>0, <1>3, <1>4
<1>6. Slot[b] = Slot[Parent[c]]
  BY <1>0, <1>2, <1>4, <1>5
<1>7. Parent[c] = b
  BY <1>4, <1>6 DEF Linked
<1> QED
  BY <1>2, <1>3, <1>7

\* Two chains that share the tip of one agree up to it: a stored point has one past.
LEMMA LinkedShared ==
    ASSUME NEW S, Linked(S), NEW T, Linked(T), NEW b \in S, b \in T
    PROVE  Upto(S, Slot[b]) = Upto(T, Slot[b])
<1>1. ASSUME NEW X, Linked(X), NEW Y, Linked(Y), b \in X, b \in Y
      PROVE  Upto(X, Slot[b]) \subseteq Y
  <2>0. /\ X \subseteq Blocks /\ Y \subseteq Blocks /\ b \in Blocks
        /\ \A x \in X : Slot[x] \in Nat
    BY <1>1, SlotIsNat DEF Linked
  <2> DEFINE missing == {x \in X : Slot[x] <= Slot[b] /\ x \notin Y}
  <2> SUFFICES ASSUME missing # {} PROVE FALSE
    BY DEF Upto
  <2>1. Tip(missing) \in missing /\ \A c \in missing : Slot[c] <= Slot[Tip(missing)]
    BY <2>0, TipIsMax
  <2>2. PICK m \in missing : \A c \in missing : Slot[c] <= Slot[m]
    BY <2>1
  <2> HIDE DEF missing
  <2>3. m \in X /\ m \notin Y /\ m # b /\ Slot[m] <= Slot[b]
    BY <1>1, <2>2 DEF missing
  <2>4. Slot[m] # Slot[b]
    BY <1>1, <2>3 DEF Linked
  <2>5. Slot[m] < Slot[b]
    BY <1>1, <2>0, <2>3, <2>4
  <2>6. PICK c \in X : Parent[c] = m /\ Slot[m] < Slot[c] /\ Slot[c] <= Slot[b]
    BY <1>1, <2>3, <2>5, LinkedChild
  <2>7. c \in Y
    <3>1. SUFFICES ASSUME c \notin Y PROVE FALSE
      OBVIOUS
    <3>2. c \in missing
      BY <2>6, <3>1 DEF missing
    <3> QED
      BY <2>0, <2>2, <2>3, <2>6, <3>2
  <2>8. Parent[c] = Anchor \/ Parent[c] \in Y
    BY <1>1, <2>7, LinkedParent
  <2> QED
    BY <2>0, <2>3, <2>6, <2>8, AnchorAssumption
<1>2. Upto(S, Slot[b]) \subseteq T /\ Upto(T, Slot[b]) \subseteq S
  BY <1>1
<1> QED
  BY <1>2 DEF Upto

-----------------------------------------------------------------------------
(* Lineages.  Ancestors is defined by recursion along Parent; that a function *)
(* with its equation exists is shown by giving one without recursion.         *)

\* X contains the parents of its blocks.
Closed(X) == \A b \in Blocks : b \in X => Parent[b] \in X

\* The points in every closed set that has the parent of q.
Above ==
    [q \in Blocks \cup {Anchor} |->
        IF q = Anchor THEN {}
        ELSE {r \in Blocks \cup {Anchor} :
                 \A X \in SUBSET (Blocks \cup {Anchor}) :
                    (Closed(X) /\ Parent[q] \in X) => r \in X}]

\* Above satisfies the equation by which Ancestors is defined.
LEMMA AboveEquation ==
    \A q \in Blocks \cup {Anchor} : 
        Above[q] = IF q = Anchor THEN {} ELSE {Parent[q]} \cup Above[Parent[q]]
<1> TAKE q \in Blocks \cup {Anchor}
<1>1. CASE q = Anchor
  BY <1>1 DEF Above
<1>2. CASE q # Anchor
  <2>0. q \in Blocks /\ Parent[q] \in Blocks \cup {Anchor}
    BY <1>2, TreeAssumption
  <2>1. Parent[q] \in Above[q]
    BY <1>2, <2>0 DEF Above
  <2>2. ASSUME NEW r \in Above[Parent[q]] PROVE r \in Above[q]
    <3>1. Parent[q] # Anchor /\ Parent[q] \in Blocks
      BY <2>0, <2>2 DEF Above
    <3>2. ASSUME NEW X \in SUBSET (Blocks \cup {Anchor}), Closed(X), Parent[q] \in X PROVE r \in X
      <4>1. Parent[Parent[q]] \in X
        BY <3>1, <3>2 DEF Closed
      <4> QED
        BY <2>0, <3>1, <3>2, <4>1 DEF Above
    <3> QED
      BY <1>2, <2>0, <2>2, <3>1, <3>2 DEF Above
  <2>3. ASSUME NEW r \in Above[q] PROVE r \in {Parent[q]} \cup Above[Parent[q]]
    <3> DEFINE X == {Parent[q]} \cup Above[Parent[q]]
    <3>1. X \in SUBSET (Blocks \cup {Anchor})
      BY <2>0 DEF Above
    <3>2. Closed(X)
      <4> SUFFICES ASSUME NEW b \in Blocks, b \in X PROVE Parent[b] \in X
        BY DEF Closed
      <4>0. Parent[b] \in Blocks \cup {Anchor}
        BY TreeAssumption
      <4>1. CASE b = Parent[q]
        <5>1. Parent[q] # Anchor
          BY <4>1, AnchorAssumption
        <5>2. Parent[b] \in Above[Parent[q]]
          BY <2>0, <4>0, <4>1, <5>1 DEF Above
        <5> QED
          BY <5>2
      <4>2. CASE b \in Above[Parent[q]]
        <5>1. Parent[q] # Anchor
          BY <2>0, <4>2 DEF Above
        <5>2. ASSUME NEW Y \in SUBSET (Blocks \cup {Anchor}), Closed(Y), Parent[Parent[q]] \in Y
              PROVE  Parent[b] \in Y
          BY <2>0, <4>2, <5>1, <5>2 DEF Above, Closed
        <5>3. Parent[b] \in Above[Parent[q]]
          BY <2>0, <4>0, <5>1, <5>2 DEF Above
        <5> QED
          BY <5>3
      <4> QED
        BY <4>1, <4>2
    <3> QED
      BY <1>2, <2>0, <3>1, <3>2 DEF Above
  <2> QED
    BY <1>2, <2>1, <2>2, <2>3
<1> QED
  BY <1>1, <1>2

\* The points a chain-sync server may roll back to are the parent and its own.
LEMMA AncestorsEquation ==
    \A q \in Blocks \cup {Anchor} :
        Ancestors(q) = IF q = Anchor THEN {} ELSE {Parent[q]} \cup Ancestors(Parent[q])
<1> DEFINE P(f) == f = [q \in Blocks \cup {Anchor} |->
                         IF q = Anchor THEN {} ELSE {Parent[q]} \cup f[Parent[q]]]
           up == CHOOSE f : P(f)
<1>1. P(Above)
  <2>1. Above = [q \in Blocks \cup {Anchor} |-> Above[q]]
    BY DEF Above
  <2> QED
    BY AboveEquation, <2>1
<1>2. P(up)
  BY <1>1, Zenon
<1>3. \A q : Ancestors(q) = up[q]
  BY Zenon DEF Ancestors
<1> HIDE DEF up
<1> QED
  BY <1>2, <1>3, TreeAssumption

\* The lineage of a block is the block and its parent's lineage.
LEMMA LineageEquation ==
    /\ Lineage(Anchor) = {}
    /\ \A b \in Blocks : Lineage(b) = {b} \cup Lineage(Parent[b])
<1>1. \A p \in Blocks \cup {Anchor} : Lineage(p) = (Ancestors(p) \cup {p}) \ {Anchor}
  BY DEF Lineage, Lineages
<1>2. Lineage(Anchor) = {}
  BY <1>1, AncestorsEquation
<1>3. ASSUME NEW b \in Blocks PROVE Lineage(b) = {b} \cup Lineage(Parent[b])
  <2>1. b # Anchor /\ Parent[b] \in Blocks \cup {Anchor}
    BY TreeAssumption, AnchorAssumption
  <2>2. Ancestors(b) = {Parent[b]} \cup Ancestors(Parent[b])
    BY <2>1, AncestorsEquation
  <2> QED
    BY <1>1, <2>1, <2>2
<1> QED
  BY <1>2, <1>3

\* A lineage is a chain that ends at its point.
LEMMA LineageLinked ==
    \A p \in Blocks \cup {Anchor} : Linked(Lineage(p)) /\ TipPoint(Lineage(p)) = p
<1> DEFINE Good(p) == Linked(Lineage(p)) /\ TipPoint(Lineage(p)) = p
<1>1. Good(Anchor)
  BY LineageEquation, LinkedEmpty DEF TipPoint
<1> DEFINE bad == {b \in Blocks : ~Good(b)}
           slots == {Slot[b] : b \in bad}
<1>2. SUFFICES ASSUME bad # {} PROVE FALSE
  BY <1>1
<1>3. slots \subseteq Nat /\ slots # {}
  BY <1>2, SlotIsNat
<1>4. PICK n \in slots : \A m \in slots : n <= m
  BY <1>3, LeastNatural
<1>5. PICK b \in bad : n = Slot[b]
  OBVIOUS
<1>6. b \in Blocks /\ ~Good(b) /\ Parent[b] \in Blocks \cup {Anchor}
  BY TreeAssumption
<1>7. Good(Parent[b])
  <2>1. CASE Parent[b] = Anchor
    BY <1>1, <2>1
  <2>2. CASE Parent[b] # Anchor
    <3>1. Parent[b] \in Blocks /\ Slot[Parent[b]] < Slot[b]
      BY <1>6, <2>2, TreeAssumption
    <3>2. Slot[Parent[b]] \in Nat /\ Slot[b] \in Nat
      BY <1>6, <3>1, SlotIsNat
    <3>3. Parent[b] \notin bad
      BY <1>4, <1>5, <3>1, <3>2
    <3> QED
      BY <3>1, <3>3
  <2> QED
    BY <2>1, <2>2
<1> HIDE DEF bad, slots
<1>8. Lineage(b) = Lineage(Parent[b]) \cup {b}
  BY <1>6, LineageEquation
<1>9. Linked(Lineage(b)) /\ Tip(Lineage(b)) = b
  BY <1>6, <1>7, <1>8, LinkedExtend
<1> QED
  BY <1>6, <1>8, <1>9 DEF TipPoint

\* A chain is the lineage of its tip.
LEMMA LinkedIsLineage ==
    ASSUME NEW S, Linked(S)
    PROVE  S = Lineage(TipPoint(S))
<1>1. CASE S = {}
  BY <1>1, LineageEquation DEF TipPoint
<1>2. CASE S # {}
  <2> DEFINE t == Tip(S)
  <2>1. S \subseteq Blocks /\ t \in S /\ t \in Blocks /\ \A c \in S : Slot[c] <= Slot[t]
    BY <1>2, TipIsMax DEF Linked
  <2>2. Linked(Lineage(t)) /\ TipPoint(Lineage(t)) = t /\ t \in Lineage(t)
    BY <2>1, LineageLinked, LineageEquation
  <2>3. Lineage(t) \subseteq Blocks /\ Tip(Lineage(t)) = t
    BY <2>2 DEF Linked, TipPoint
  <2>4. \A c \in Lineage(t) : Slot[c] <= Slot[t]
    BY <2>2, <2>3, TipIsMax
  <2>5. Upto(S, Slot[t]) = Upto(Lineage(t), Slot[t])
    BY <2>1, <2>2, LinkedShared
  <2>6. Upto(S, Slot[t]) = S /\ Upto(Lineage(t), Slot[t]) = Lineage(t)
    BY <2>1, <2>4 DEF Upto
  <2> QED
    BY <1>2, <2>5, <2>6 DEF TipPoint
<1> QED
  BY <1>1, <1>2

=============================================================================
