-------------------------- MODULE ForkSwitchProofs --------------------------
(***************************************************************************)
(* The decision for a fork switch.  select_best_chain ends with a          *)
(* candidate that none is preferred to, in whatever order the candidates   *)
(* are given; so the participant decides for the best branch of a drain,   *)
(* and a switch improves the tip.                                          *)
(***************************************************************************)
EXTENDS ParticipantSyncProofs, FiniteSetTheorems

\* The values a TiebreakerView can have.
Views == [slot : Nat, issuer : Nat, counter : Nat, vrf : Nat]

\* What is compared of a candidate.
Comparable(c) == CandidateTipNo(c) \in Nat /\ c.view \in Views

\* compare_select_view of two candidates.
Beats(c, d) == ComparePrefer(CandidateTipNo(c), c.view, CandidateTipNo(d), d.view)

-----------------------------------------------------------------------------

\* walk_to_durable_lca ends in one durable ancestor at most, within k headers.
LEMMA LcaWithinK ==
    ASSUME NEW b, NEW known
    PROVE  /\ \A l \in WalkToDurableLca(b, known) : Cardinality(l.headers) <= SecurityParam
           /\ \A l, m \in WalkToDurableLca(b, known) : l = m
  BY DEF WalkToDurableLca

\* tiebreaker_prefer is a strict weak order: a view that a third does not compare
\* with is as good as it.
LEMMA TiebreakerOrder ==
    /\ \A u, v, w \in Views :
          TiebreakerPrefer(u, w) => TiebreakerPrefer(u, v) \/ TiebreakerPrefer(v, w)
    /\ \A u, v \in Views : TiebreakerPrefer(u, v) => ~TiebreakerPrefer(v, u)
<1>1. \A u \in Views : u.slot \in Nat /\ u.issuer \in Nat /\ u.counter \in Nat /\ u.vrf \in Nat
  BY DEF Views
<1>2. ASSUME NEW u \in Views, NEW v \in Views, NEW w \in Views, TiebreakerPrefer(u, w)
      PROVE  TiebreakerPrefer(u, v) \/ TiebreakerPrefer(v, w)
  BY <1>1, <1>2 DEF TiebreakerPrefer
<1>3. ASSUME NEW u \in Views, NEW v \in Views, TiebreakerPrefer(u, v)
      PROVE  ~TiebreakerPrefer(v, u)
  BY <1>1, <1>3 DEF TiebreakerPrefer
<1> QED
  BY <1>2, <1>3

\* So is compare_select_view, on heights and views.
LEMMA PreferOrder ==
    /\ \A l, m, n \in Nat : \A u, v, w \in Views :
          ComparePrefer(l, u, n, w) => ComparePrefer(l, u, m, v) \/ ComparePrefer(m, v, n, w)
    /\ \A m, n \in Nat : \A u, v \in Views :
          ComparePrefer(m, u, n, v) => ~ComparePrefer(n, v, m, u)
<1>1. ASSUME NEW l \in Nat, NEW m \in Nat, NEW n \in Nat,
             NEW u \in Views, NEW v \in Views, NEW w \in Views, ComparePrefer(l, u, n, w)
      PROVE  ComparePrefer(l, u, m, v) \/ ComparePrefer(m, v, n, w)
  BY <1>1, TiebreakerOrder DEF ComparePrefer
<1>2. ASSUME NEW m \in Nat, NEW n \in Nat, NEW u \in Views, NEW v \in Views,
             ComparePrefer(m, u, n, v)
      PROVE  ~ComparePrefer(n, v, m, u)
  BY <1>2, TiebreakerOrder DEF ComparePrefer
<1> QED
  BY <1>1, <1>2

\* And so is the preference between candidates.
LEMMA BeatsOrder ==
    ASSUME NEW c, Comparable(c), NEW d, Comparable(d), NEW e, Comparable(e)
    PROVE  /\ Beats(c, e) => Beats(c, d) \/ Beats(d, e)
           /\ Beats(c, d) => ~Beats(d, c)
<1>1. /\ CandidateTipNo(c) \in Nat /\ CandidateTipNo(d) \in Nat /\ CandidateTipNo(e) \in Nat
      /\ c.view \in Views /\ d.view \in Views /\ e.view \in Views
  BY DEF Comparable
<1>2. Beats(c, e) => Beats(c, d) \/ Beats(d, e)
  BY <1>1, PreferOrder, Zenon DEF Beats
<1>3. Beats(c, d) => ~Beats(d, c)
  BY <1>1, PreferOrder, Zenon DEF Beats
<1> QED
  BY <1>2, <1>3

\* B[i] is the set of the indices that i is better than.
Ranked(E, B) ==
    /\ \A i, j \in E : j \in B[i] => i \notin B[j]
    /\ \A i, j, k \in E : k \in B[i] => j \in B[i] \/ k \in B[j]

\* i is the first of the best.
IsFirstBest(E, B, i) == \A j \in E : i \notin B[j] /\ (j < i => j \in B[i])

HasFirstBest(n) ==
    \A E \in SUBSET (1..n) : \A B \in [Nat -> SUBSET Nat] :
       E # {} /\ Ranked(E, B) => \E i \in E : IsFirstBest(E, B, i)

\* A loop that keeps the best index so far, and changes it only for a better one,
\* ends with the first of the best.
LEMMA FirstBest == \A n \in Nat : HasFirstBest(n)
<1> DEFINE bad == {n \in Nat : ~HasFirstBest(n)}
<1>1. SUFFICES ASSUME bad # {} PROVE FALSE
  OBVIOUS
<1>2. PICK n \in bad : \A m \in bad : n <= m
  BY <1>1, LeastNatural, Zenon
<1>3. n \in Nat /\ ~HasFirstBest(n)
  OBVIOUS
<1>4. PICK E \in SUBSET (1..n), B \in [Nat -> SUBSET Nat] :
         E # {} /\ Ranked(E, B) /\ ~(\E i \in E : IsFirstBest(E, B, i))
  BY <1>3 DEF HasFirstBest
<1>5. n # 0 /\ n - 1 \in Nat /\ n - 1 < n
  <2>1. n = 0 => 1..n = {}
    OBVIOUS
  <2>2. n # 0
    BY <1>4, <2>1, Zenon
  <2> QED
    BY <1>3, <2>2
<1>6. HasFirstBest(n - 1)
  BY <1>2, <1>5
<1> DEFINE F == E \ {n}
<1>7. F \in SUBSET (1..(n - 1)) /\ \A j \in F : j < n /\ j \in Nat /\ ~(n < j)
  BY <1>3, <1>4
<1>8. Ranked(F, B)
  BY <1>4 DEF Ranked
<1>9. n \in E
  <2>1. n \notin E => F = E
    OBVIOUS
  <2> HIDE DEF F
  <2> QED
    BY <1>4, <1>6, <1>7, <1>8, <2>1 DEF HasFirstBest
<1>10. \A j \in E : j \in F \/ j = n
  OBVIOUS
<1>11. n \notin B[n]
  BY <1>4, <1>9 DEF Ranked
<1>12. ~(n < n)
  BY <1>3
<1>13. CASE F = {}
  <2>1. IsFirstBest(E, B, n)
    BY <1>10, <1>11, <1>12, <1>13 DEF IsFirstBest
  <2> QED
    BY <1>4, <1>9, <2>1
<1>14. CASE F # {}
  <2>1. PICK i \in F : IsFirstBest(F, B, i)
    BY <1>6, <1>7, <1>8, <1>14 DEF HasFirstBest
  <2>2. i \in E /\ F \subseteq E /\ i < n /\ ~(n < i)
    BY <1>7
  <2> HIDE DEF F
  <2>3. CASE i \in B[n]
    <3>1. \A j \in F : j \in B[n]
      BY <1>4, <1>9, <2>1, <2>2, <2>3 DEF Ranked, IsFirstBest
    <3>2. \A j \in F : n \notin B[j]
      BY <1>4, <1>9, <2>2, <3>1 DEF Ranked
    <3>3. IsFirstBest(E, B, n)
      BY <1>10, <1>11, <1>12, <3>1, <3>2 DEF IsFirstBest
    <3> QED
      BY <1>4, <1>9, <3>3
  <2>4. CASE i \notin B[n]
    <3>1. IsFirstBest(E, B, i)
      BY <1>10, <2>1, <2>2, <2>4 DEF IsFirstBest
    <3> QED
      BY <1>4, <2>2, <3>1
  <2> QED
    BY <2>3, <2>4
<1> QED
  BY <1>13, <1>14

-----------------------------------------------------------------------------

\* The candidates of a sequence that can be selected.
EligibleIn(state, cands) == {i \in DOMAIN cands : Eligible(state, cands[i])}

\* The loop of select_best_chain ends with an eligible candidate that no eligible one
\* is preferred to.
LEMMA BestEligibleIsBest ==
    ASSUME NEW state, NEW cands, NEW n \in Nat, DOMAIN cands = 1..n,
           \A i \in 1..n : Comparable(cands[i]),
           EligibleIn(state, cands) # {}
    PROVE  /\ BestEligible(state, cands) \in EligibleIn(state, cands)
           /\ \A j \in EligibleIn(state, cands) :
                 ~Beats(cands[j], cands[BestEligible(state, cands)])
<1> DEFINE E == EligibleIn(state, cands)
           Over(i, j) == Beats(cands[i], cands[j])
           B == [i \in Nat |-> {j \in E : Over(i, j)}]
<1>1. E \in SUBSET (1..n) /\ \A i \in E : i \in Nat /\ Comparable(cands[i])
  BY DEF EligibleIn
<1>2. \A i, j \in E : Over(i, j) => ~Over(j, i)
  BY <1>1, BeatsOrder
<1>3. \A i, j, k \in E : Over(i, k) => Over(i, j) \/ Over(j, k)
  <2> SUFFICES ASSUME NEW i \in E, NEW j \in E, NEW k \in E, Over(i, k)
               PROVE  Over(i, j) \/ Over(j, k)
    OBVIOUS
  <2>1. Comparable(cands[i]) /\ Comparable(cands[j]) /\ Comparable(cands[k])
    BY <1>1
  <2> QED
    BY <2>1, BeatsOrder
<1> HIDE DEF E, Over
<1>4. B \in [Nat -> SUBSET Nat]
  BY <1>1, Zenon
<1>5. \A i \in E : B[i] = {j \in E : Over(i, j)}
  BY <1>1
<1> HIDE DEF B
<1>6. Ranked(E, B)
  BY <1>2, <1>3, <1>5 DEF Ranked
<1>7. PICK i \in E : IsFirstBest(E, B, i)
  <2>1. HasFirstBest(n) /\ E # {}
    BY FirstBest DEF E
  <2> QED
    BY <1>1, <1>4, <1>6, <2>1 DEF HasFirstBest
<1>8. \A j \in E : ~Over(j, i) /\ (j < i => Over(i, j))
  BY <1>5, <1>7 DEF IsFirstBest
<1>9. \E b \in E : \A j \in E : ~Over(j, b) /\ (j < b => Over(b, j))
  BY <1>8
<1>10. BestEligible(state, cands)
          = CHOOSE b \in E : \A j \in E : ~Over(j, b) /\ (j < b => Over(b, j))
  BY Zenon DEF BestEligible, E, EligibleIn, Over, Beats
<1>11. /\ BestEligible(state, cands) \in E
       /\ \A j \in E : ~Over(j, BestEligible(state, cands))
  BY <1>9, <1>10
<1> QED
  BY <1>11 DEF E, Over

\* The selector's own tip, as a candidate of no headers.
Current(state) == [anchorNo |-> state.tipNo, length |-> 0, view |-> state.view]

\* select_best_chain selects an eligible candidate that beats the current tip and that
\* no eligible one beats; and it selects one whenever an eligible one beats the tip.
THEOREM SelectsBest ==
    ASSUME NEW state, "tip" \in DOMAIN state, state.tipNo \in Nat, state.view \in Views,
           NEW cands, NEW n \in Nat, DOMAIN cands = 1..n,
           \A i \in 1..n : Comparable(cands[i])
    PROVE  LET chosen == SelectBestChain(state, cands) IN
           /\ chosen.event = "ChainSelected" =>
                 \E i \in EligibleIn(state, cands) :
                    /\ chosen.state.tip = cands[i].tip
                    /\ Beats(cands[i], Current(state))
                    /\ \A j \in EligibleIn(state, cands) : ~Beats(cands[j], cands[i])
           /\ chosen.event # "ChainSelected" =>
                 \A j \in EligibleIn(state, cands) : ~Beats(cands[j], Current(state))
<1> DEFINE E == EligibleIn(state, cands)
           chosen == SelectBestChain(state, cands)
           b == BestEligible(state, cands)
<1>1. /\ CandidateTipNo(Current(state)) = state.tipNo /\ Current(state).view = state.view
      /\ Comparable(Current(state))
  BY DEF CandidateTipNo, Current, Comparable
<1>2. \A c : Replaces(state, c) <=> Beats(c, Current(state))
  BY <1>1 DEF Replaces, Beats
<1>3. CASE E = {}
  <2>1. \A i \in DOMAIN cands : ~Eligible(state, cands[i])
    BY <1>3 DEF EligibleIn
  <2>2. chosen.event \in {"ForkBeforeImmutableTip", "ExceededRollback"}
    BY <2>1 DEF SelectBestChain, RejectReason
  <2> QED
    BY <1>3, <2>2
<1>4. CASE E # {}
  <2>1. b \in E /\ \A j \in E : ~Beats(cands[j], cands[b])
    BY <1>4, BestEligibleIsBest
  <2>2. ~(\A i \in DOMAIN cands : ~Eligible(state, cands[i]))
    BY <1>4 DEF EligibleIn
  <2>3. CASE Replaces(state, cands[b])
    <3>1. /\ chosen.event = "ChainSelected"
          /\ chosen.state = [state EXCEPT !.tip = cands[b].tip,
                                          !.tipNo = CandidateTipNo(cands[b]),
                                          !.view = cands[b].view]
      BY <2>2, <2>3 DEF SelectBestChain
    <3> QED
      BY <1>2, <2>1, <2>3, <3>1
  <2>4. CASE ~Replaces(state, cands[b])
    <3>1. chosen.event = "TiebreakerLossKeepCurrent"
      BY <2>2, <2>4 DEF SelectBestChain
    <3>2. ASSUME NEW j \in E PROVE ~Beats(cands[j], Current(state))
      <4>1. Comparable(cands[j]) /\ Comparable(cands[b])
        BY <2>1 DEF EligibleIn
      <4>2. ~Beats(cands[j], cands[b]) /\ ~Beats(cands[b], Current(state))
        BY <1>2, <2>1, <2>4
      <4> QED
        BY <1>1, <4>1, <4>2, BeatsOrder
    <3> QED
      BY <3>1, <3>2
  <2> QED
    BY <2>3, <2>4
<1> QED
  BY <1>3, <1>4

\* CN-CONS-01: two orders of the same candidates either both select or neither does,
\* and of the two selected neither is preferred to the other.
THEOREM ArrivalOrderIndependent ==
    ASSUME NEW state, "tip" \in DOMAIN state, state.tipNo \in Nat, state.view \in Views,
           NEW cands, NEW n \in Nat, DOMAIN cands = 1..n,
           NEW other, NEW m \in Nat, DOMAIN other = 1..m,
           \A i \in 1..n : Comparable(cands[i]) /\ \E j \in 1..m : other[j] = cands[i],
           \A j \in 1..m : Comparable(other[j]) /\ \E i \in 1..n : cands[i] = other[j]
    PROVE  LET one == SelectBestChain(state, cands)
               two == SelectBestChain(state, other)
           IN  /\ one.event = "ChainSelected" <=> two.event = "ChainSelected"
               /\ one.event = "ChainSelected" =>
                     \E i \in 1..n, j \in 1..m :
                        /\ one.state.tip = cands[i].tip /\ two.state.tip = other[j].tip
                        /\ ~Beats(cands[i], other[j]) /\ ~Beats(other[j], cands[i])
<1> DEFINE one == SelectBestChain(state, cands)
           two == SelectBestChain(state, other)
           E == EligibleIn(state, cands)
           F == EligibleIn(state, other)
<1>1. /\ E \subseteq 1..n /\ F \subseteq 1..m
      /\ \A i \in E : \E j \in F : other[j] = cands[i]
      /\ \A j \in F : \E i \in E : cands[i] = other[j]
  BY Zenon DEF EligibleIn
<1>2. /\ one.event = "ChainSelected" =>
            \E i \in E : /\ one.state.tip = cands[i].tip
                         /\ Beats(cands[i], Current(state))
                         /\ \A j \in E : ~Beats(cands[j], cands[i])
      /\ one.event # "ChainSelected" => \A j \in E : ~Beats(cands[j], Current(state))
  BY SelectsBest, Zenon
<1>3. /\ two.event = "ChainSelected" =>
            \E i \in F : /\ two.state.tip = other[i].tip
                         /\ Beats(other[i], Current(state))
                         /\ \A j \in F : ~Beats(other[j], other[i])
      /\ two.event # "ChainSelected" => \A j \in F : ~Beats(other[j], Current(state))
  BY SelectsBest, Zenon
<1> HIDE DEF one, two, E, F
<1>4. one.event = "ChainSelected" <=> two.event = "ChainSelected"
  BY <1>1, <1>2, <1>3, Zenon
<1>5. ASSUME one.event = "ChainSelected"
      PROVE  \E i \in 1..n, j \in 1..m :
                /\ one.state.tip = cands[i].tip /\ two.state.tip = other[j].tip
                /\ ~Beats(cands[i], other[j]) /\ ~Beats(other[j], cands[i])
  <2>1. PICK i \in E : /\ one.state.tip = cands[i].tip
                       /\ \A j \in E : ~Beats(cands[j], cands[i])
    BY <1>2, <1>5
  <2>2. PICK j \in F : /\ two.state.tip = other[j].tip
                       /\ \A k \in F : ~Beats(other[k], other[j])
    BY <1>3, <1>4, <1>5
  <2>3. ~Beats(cands[i], other[j]) /\ ~Beats(other[j], cands[i])
    BY <1>1, <2>1, <2>2
  <2> QED
    BY <1>1, <2>1, <2>2, <2>3, Zenon
<1> QED
  BY <1>4, <1>5, Zenon DEF one, two

-----------------------------------------------------------------------------
(* The decision.                                                             *)

\* Two blocks of one slot have different bodies: decide_fork_switch tells the
\* candidates' tips apart by no more.
BodiesDiffer == \A b, c \in Blocks : Slot[b] = Slot[c] /\ Body[b] = Body[c] => b = c

AtMostOne(S) == \A x, y \in S : x = y

\* What the selector reads of a fragment is what it is.
FragmentFull(f) ==
    /\ FragmentOk(f)
    /\ f.view = View[f.tip] /\ f.anchorNo = BlockNo[f.anchor]
    /\ f.length = Cardinality(f.headers) /\ f.length <= SecurityParam

FragmentsFull ==
    /\ \A p \in Peers : AtMostOne(competing[p]) /\ \A f \in competing[p] : FragmentFull(f)
    /\ AtMostOne(pendingSwitch) /\ \A sw \in pendingSwitch : FragmentFull(sw.frag)

\* No eligible fragment ends in a better block than b.
NoneBetter(frags, b) ==
    \A p \in Peers : \A f \in frags[p] : Eligible(SelectorState, f) => ~Preferred(f.tip, b)

\* The decision under way improves on the tip it was taken against.
DecisionOk ==
    /\ pc = "idle" => ~fresh
    /\ fresh /\ pc \in {"drain", "settle"} =>
          \A sw \in pendingSwitch : db # {} /\ Preferred(sw.frag.tip, Tip(db))
    /\ fresh /\ pc = "drain" => \A sw \in pendingSwitch : NoneBetter(competing, sw.frag.tip)
    /\ pc = "rollForward" =>
          \A sw \in pendingSwitch :
             /\ ~stale => db \cup proven = Lineage(sw.frag.tip)
             /\ fresh => replaced \in Blocks /\ Preferred(sw.frag.tip, replaced)

DInv == FragmentsFull /\ DecisionOk

\* The blocks of a chain between two of its blocks are as many as their heights differ.
LEMMA HeightsCount ==
    ASSUME NEW L, Linked(L), NEW a \in L, NEW t \in L, Slot[a] <= Slot[t],
           NEW T, T = {c \in L : Slot[a] < Slot[c] /\ Slot[c] <= Slot[t]}
    PROVE  IsFiniteSet(T) /\ BlockNo[t] = BlockNo[a] + Cardinality(T)
<1> DEFINE S(x) == {c \in L : Slot[a] < Slot[c] /\ Slot[c] <= Slot[x]}
           Good(x) == IsFiniteSet(S(x)) /\ BlockNo[x] = BlockNo[a] + Cardinality(S(x))
           bad == {x \in L : Slot[a] <= Slot[x] /\ ~Good(x)}
           slots == {Slot[x] : x \in bad}
<1>0. L \subseteq Blocks /\ \A c \in L : Slot[c] \in Nat /\ BlockNo[c] \in Nat
  BY SlotIsNat, TreeAssumption DEF Linked
<1>1. SUFFICES ASSUME bad # {} PROVE FALSE
  BY Zenon
<1>2. slots \subseteq Nat /\ slots # {}
  BY <1>0, <1>1, Zenon
<1>3. PICK n \in slots : \A m \in slots : n <= m
  BY <1>2, LeastNatural, Zenon
<1>4. PICK x \in bad : n = Slot[x]
  OBVIOUS
<1>5. x \in L /\ Slot[a] <= Slot[x] /\ ~Good(x)
  OBVIOUS
<1>6. CASE x = a
  <2>1. S(x) = {}
    BY <1>0, <1>6
  <2>2. IsFiniteSet({}) /\ Cardinality({}) = 0
    BY FS_EmptySet
  <2>3. Good(x)
    BY <1>0, <1>6, <2>1, <2>2
  <2> QED
    BY <1>5, <2>3
<1>7. CASE x # a
  <2> DEFINE q == Parent[x]
  <2>1. Slot[a] < Slot[x]
    BY <1>0, <1>5, <1>7 DEF Linked
  <2>2. /\ q \in L /\ q # Anchor /\ Slot[q] < Slot[x]
        /\ \A c \in L : Slot[c] < Slot[x] => Slot[c] <= Slot[q]
    BY <1>5, <2>1, LinkedParent, Zenon
  <2>3. Slot[a] <= Slot[q]
    BY <2>1, <2>2
  <2>4. q \notin bad
    <3>1. q \in bad => Slot[q] \in slots
      BY Zenon
    <3> HIDE DEF slots, bad
    <3>2. Slot[q] \notin slots
      BY <1>0, <1>3, <1>4, <1>5, <2>2
    <3> QED
      BY <3>1, <3>2, Zenon
  <2>5. Good(q)
    BY <2>2, <2>3, <2>4, Zenon
  <2>6. x \notin S(q)
    BY <1>0, <1>5, <2>2
  <2>7. S(x) = S(q) \cup {x}
    <3>1. \A c \in L : Slot[c] = Slot[x] => c = x
      BY <1>5 DEF Linked
    <3> HIDE DEF q
    <3> QED
      BY <1>0, <1>5, <2>1, <2>2, <3>1
  <2>8. IsFiniteSet(S(q)) /\ Cardinality(S(q)) \in Nat
    BY <2>5, FS_CardinalityType
  <2> HIDE DEF S
  <2>9. IsFiniteSet(S(x)) /\ Cardinality(S(x)) = Cardinality(S(q)) + 1
    BY <2>6, <2>7, <2>8, FS_AddElement
  <2>10. BlockNo[x] = BlockNo[q] + 1
    BY <1>0, <1>5, <2>2, HeightAssumption, Zenon
  <2>11. Good(x)
    BY <1>0, <2>2, <2>5, <2>8, <2>9, <2>10
  <2> QED
    BY <1>5, <2>11
<1> QED
  BY <1>6, <1>7

\* The selector's height of a fragment is the block number of its tip.
LEMMA FragmentHeight ==
    ASSUME NEW f, FragmentFull(f)
    PROVE  /\ CandidateTipNo(f) = BlockNo[f.tip] /\ Comparable(f)
           /\ BlockNo[f.tip] <= BlockNo[f.anchor] + SecurityParam
           /\ f.tip \in Blocks
<1> DEFINE L == Lineage(f.tip)
<1>1. /\ f.tip \in Blocks /\ f.anchor \in L
      /\ f.headers = {c \in L : Slot[c] > Slot[f.anchor]}
      /\ f.view = View[f.tip] /\ f.anchorNo = BlockNo[f.anchor]
      /\ f.length = Cardinality(f.headers) /\ f.length <= SecurityParam
  BY DEF FragmentFull, FragmentOk
<1>2. Linked(L) /\ L \subseteq Blocks /\ TipPoint(L) = f.tip /\ f.tip \in L
  BY <1>1, LineageLinked, LineageEquation DEF Linked
<1>3. \A c \in L : Slot[c] <= Slot[f.tip] /\ Slot[c] \in Nat
  BY <1>2, TipIsMax, SlotIsNat DEF TipPoint
<1> HIDE DEF L
<1>4. f.headers = {c \in L : Slot[f.anchor] < Slot[c] /\ Slot[c] <= Slot[f.tip]}
  BY <1>1, <1>3
<1>5. IsFiniteSet(f.headers) /\ BlockNo[f.tip] = BlockNo[f.anchor] + Cardinality(f.headers)
  BY <1>1, <1>2, <1>3, <1>4, HeightsCount
<1>6. /\ Cardinality(f.headers) \in Nat /\ SecurityParam \in Nat
      /\ BlockNo[f.anchor] \in Nat /\ BlockNo[f.tip] \in Nat /\ View[f.tip] \in Views
  BY <1>1, <1>2, <1>5, FS_CardinalityType, TreeAssumption, ParticipantAssumption,
     SecurityParamAssumption, Zenon DEF Views
<1>7. CandidateTipNo(f) = BlockNo[f.tip]
  BY <1>1, <1>5 DEF CandidateTipNo
<1>8. BlockNo[f.tip] <= BlockNo[f.anchor] + SecurityParam
  BY <1>1, <1>5, <1>6
<1> QED
  BY <1>1, <1>6, <1>7, <1>8, Zenon DEF Comparable

\* The selector prefers a fragment to another as their tips are preferred.
LEMMA BeatsIsPreferred ==
    ASSUME NEW f, FragmentFull(f), NEW g, FragmentFull(g)
    PROVE  Beats(f, g) <=> Preferred(f.tip, g.tip)
<1>1. /\ CandidateTipNo(f) = BlockNo[f.tip] /\ CandidateTipNo(g) = BlockNo[g.tip]
      /\ g.tip # Anchor
  BY FragmentHeight, AnchorAssumption
<1>2. f.view = View[f.tip] /\ g.view = View[g.tip]
  BY DEF FragmentFull
<1> QED
  BY <1>1, <1>2 DEF Beats, Preferred

\* Preference between blocks is a strict weak order.
LEMMA PreferredOrder ==
    ASSUME NEW b \in Blocks, NEW c \in Blocks, NEW d \in Blocks
    PROVE  /\ Preferred(b, d) => Preferred(b, c) \/ Preferred(c, d)
           /\ Preferred(b, c) => ~Preferred(c, b)
<1>1. /\ BlockNo[b] \in Nat /\ BlockNo[c] \in Nat /\ BlockNo[d] \in Nat
      /\ View[b] \in Views /\ View[c] \in Views /\ View[d] \in Views
      /\ b # Anchor /\ c # Anchor /\ d # Anchor
  BY TreeAssumption, ParticipantAssumption, AnchorAssumption DEF Views
<1>2. Preferred(b, d) => Preferred(b, c) \/ Preferred(c, d)
  BY <1>1, PreferOrder, Zenon DEF Preferred
<1>3. Preferred(b, c) => ~Preferred(c, b)
  BY <1>1, PreferOrder, Zenon DEF Preferred
<1> QED
  BY <1>2, <1>3

\* What is put to the selector is a sequence of all the fragments.
LEMMA CandidatesAreFragments ==
    ASSUME NEW frags, \A q \in Peers : AtMostOne(frags[q]),
           NEW cands \in AssembleCandidateSet(frags)
    PROVE  \E n \in Nat :
              /\ DOMAIN cands = 1..n
              /\ \A i \in 1..n : \E q \in Peers : cands[i] \in frags[q]
              /\ \A q \in Peers : \A f \in frags[q] : \E i \in 1..n : cands[i] = f
<1> DEFINE Of(p) == CHOOSE f \in frags[p] : TRUE
           S == {p \in Peers : frags[p] # {}}
           n == Cardinality(S)
<1>1. PICK s \in [1..n -> S] :
            /\ \A i, j \in DOMAIN s : i < j => s[i] # s[j]
            /\ cands = [i \in DOMAIN s |-> Of(s[i])]
  <2> DEFINE Before(p, q) ==
                \/ CandidateTipNo(Of(p)) < CandidateTipNo(Of(q))
                \/ /\ CandidateTipNo(Of(p)) = CandidateTipNo(Of(q))
                   /\ \/ TiebreakerSortKey(Of(p).view, Of(q).view)
                      \/ Of(p).view = Of(q).view /\ p < q
  <2>1. PICK s \in {t \in [1..n -> S] : \A i, j \in DOMAIN t :
                                          i < j => t[i] # t[j] /\ Before(t[i], t[j])} :
              cands = [i \in DOMAIN s |-> Of(s[i])]
    BY Zenon DEF AssembleCandidateSet
  <2> HIDE DEF Before, Of, S, n
  <2>2. s \in [1..n -> S] /\ \A i, j \in DOMAIN s : i < j => s[i] # s[j]
    BY <2>1
  <2> QED
    BY <2>1, <2>2, Zenon
<1>2. IsFiniteSet(S)
  BY ParticipantAssumption, FS_Subset
<1>3. n \in Nat
  BY <1>2, FS_CardinalityType
<1>4. s \in [1..n -> S] /\ \A i, j \in 1..n : i # j => s[i] # s[j]
  <2>1. DOMAIN s = 1..n /\ \A i, j \in 1..n : i # j => i < j \/ j < i
    OBVIOUS
  <2> QED
    BY <1>1, <2>1, Zenon
<1> HIDE DEF n
<1>5. s \in Injection(1..n, S)
  BY <1>4 DEF Injection, IsInjective
<1>6. IsFiniteSet(1..n) /\ Cardinality(1..n) = n
  BY <1>3, FS_Interval
<1>7. s \in Surjection(1..n, S)
  BY <1>2, <1>5, <1>6, FS_Injection, Zenon DEF n
<1>8. \A p \in S : \E i \in 1..n : s[i] = p
  BY <1>7 DEF Surjection
<1>9. DOMAIN cands = 1..n /\ \A i \in 1..n : cands[i] = Of(s[i]) /\ s[i] \in S
  BY <1>1, <1>4
<1>10. \A p \in S : Of(p) \in frags[p] /\ p \in Peers
  OBVIOUS
<1>11. \A q \in Peers : \A f \in frags[q] : q \in S /\ f = Of(q)
  BY <1>10 DEF AtMostOne
<1> HIDE DEF S, Of
<1>12. \A i \in 1..n : \E q \in Peers : cands[i] \in frags[q]
  BY <1>9, <1>10
<1>13. \A q \in Peers : \A f \in frags[q] : \E i \in 1..n : cands[i] = f
  <2> TAKE q \in Peers
  <2> TAKE f \in frags[q]
  <2>1. PICK i \in 1..n : s[i] = q
    BY <1>8, <1>11
  <2>2. cands[i] = f
    BY <1>9, <1>11, <2>1, Zenon
  <2> QED
    BY <2>2
<1> QED
  BY <1>3, <1>9, <1>12, <1>13

\* The selector's tip is the durable one.
LEMMA CurrentIsTip ==
    ASSUME Tip(db) \in Blocks
    PROVE  /\ "tip" \in DOMAIN SelectorState
           /\ SelectorState.tipNo \in Nat /\ SelectorState.view \in Views
           /\ \A f : FragmentFull(f) =>
                 (Beats(f, Current(SelectorState)) <=> Preferred(f.tip, Tip(db)))
<1> DEFINE t == Tip(db)
<1>1. BlockNo[t] \in Nat /\ View[t] \in Views /\ t # Anchor
  BY TreeAssumption, ParticipantAssumption, AnchorAssumption DEF Views
<1>2. /\ SelectorState.tipNo = BlockNo[t] /\ SelectorState.view = View[t]
      /\ "tip" \in DOMAIN SelectorState
  BY DEF SelectorState
<1> HIDE DEF t
<1>3. CandidateTipNo(Current(SelectorState)) = BlockNo[t] /\ Current(SelectorState).view = View[t]
  BY <1>1, <1>2 DEF CandidateTipNo, Current
<1>4. ASSUME NEW f, FragmentFull(f)
      PROVE  Beats(f, Current(SelectorState)) <=> Preferred(f.tip, t)
  <2>1. CandidateTipNo(f) = BlockNo[f.tip] /\ f.view = View[f.tip]
    BY <1>4, FragmentHeight, Zenon DEF FragmentFull
  <2> QED
    BY <1>1, <1>3, <2>1, Zenon DEF Beats, Preferred
<1> QED
  BY <1>1, <1>2, <1>4 DEF t

\* decide_fork_switch decides for the best of the eligible fragments if it is better
\* than the durable tip, and for none if none is.
LEMMA SwitchIsBest ==
    ASSUME BodiesDiffer, Tip(db) \in Blocks, NEW p, NEW frags,
           \A q \in Peers : AtMostOne(frags[q]) /\ \A f \in frags[q] : FragmentFull(f),
           NEW cands \in AssembleCandidateSet(frags),
           NEW switch, switch = DecideForkSwitch(p, frags, cands)
    PROVE  /\ switch = {} => NoneBetter(frags, Tip(db))
           /\ AtMostOne(switch)
           /\ \A sw \in switch : /\ Preferred(sw.frag.tip, Tip(db))
                                 /\ NoneBetter(frags, sw.frag.tip)
<1> DEFINE chosen == SelectBestChain(SelectorState, cands)
           Ends(f) == /\ Slot[f.tip] = Slot[chosen.state.tip]
                      /\ Body[f.tip] = Body[chosen.state.tip]
           winners == {q \in Peers : \E f \in frags[q] : Ends(f)}
           winner == CHOOSE q \in winners : \A r \in winners : q <= r
           E == EligibleIn(SelectorState, cands)
<1>1. PICK n \in Nat :
         /\ DOMAIN cands = 1..n
         /\ \A i \in 1..n : \E q \in Peers : cands[i] \in frags[q]
         /\ \A q \in Peers : \A f \in frags[q] : \E i \in 1..n : cands[i] = f
  BY CandidatesAreFragments
<1>2. \A i \in 1..n : FragmentFull(cands[i]) /\ Comparable(cands[i])
  BY <1>1, FragmentHeight, Zenon
<1>3. /\ "tip" \in DOMAIN SelectorState
      /\ SelectorState.tipNo \in Nat /\ SelectorState.view \in Views
      /\ \A i \in 1..n : Beats(cands[i], Current(SelectorState))
                            <=> Preferred(cands[i].tip, Tip(db))
  BY <1>2, CurrentIsTip, Zenon
<1>4. /\ chosen.event = "ChainSelected" =>
            \E i \in E : /\ chosen.state.tip = cands[i].tip
                         /\ Beats(cands[i], Current(SelectorState))
                         /\ \A j \in E : ~Beats(cands[j], cands[i])
      /\ chosen.event # "ChainSelected" =>
            \A j \in E : ~Beats(cands[j], Current(SelectorState))
  BY <1>1, <1>2, <1>3, SelectsBest, Zenon
<1>5. /\ E \subseteq 1..n
      /\ \A q \in Peers : \A f \in frags[q] :
            Eligible(SelectorState, f) => \E i \in E : cands[i] = f
  BY <1>1 DEF EligibleIn
<1>6. switch = IF chosen.event # "ChainSelected" \/ winners = {} THEN {}
               ELSE {[peer |-> winner, frag |-> f] : f \in frags[winner]}
  BY Zenon DEF DecideForkSwitch
<1> HIDE DEF chosen, E
<1>7. CASE chosen.event # "ChainSelected"
  <2>1. switch = {}
    BY <1>6, <1>7, Zenon
  <2>2. NoneBetter(frags, Tip(db))
    <3> SUFFICES ASSUME NEW q \in Peers, NEW f \in frags[q], Eligible(SelectorState, f)
                 PROVE  ~Preferred(f.tip, Tip(db))
      BY DEF NoneBetter
    <3>1. PICK i \in E : cands[i] = f
      BY <1>5, Zenon
    <3> QED
      BY <1>3, <1>4, <1>5, <1>7, <3>1, Zenon
  <2> QED
    BY <2>1, <2>2, Zenon DEF AtMostOne
<1>8. CASE chosen.event = "ChainSelected"
  <2>1. PICK i \in E : /\ chosen.state.tip = cands[i].tip
                       /\ Beats(cands[i], Current(SelectorState))
                       /\ \A j \in E : ~Beats(cands[j], cands[i])
    BY <1>4, <1>8, Zenon
  <2> DEFINE best == cands[i]
  <2>2. FragmentFull(best) /\ best.tip \in Blocks /\ Preferred(best.tip, Tip(db))
    BY <1>2, <1>3, <1>5, <2>1, FragmentHeight, Zenon
  <2>3. NoneBetter(frags, best.tip)
    <3> SUFFICES ASSUME NEW q \in Peers, NEW f \in frags[q], Eligible(SelectorState, f)
                 PROVE  ~Preferred(f.tip, best.tip)
      BY DEF NoneBetter
    <3>1. PICK j \in E : cands[j] = f
      BY <1>5, Zenon
    <3>2. ~Beats(f, best) /\ FragmentFull(f)
      BY <2>1, <3>1
    <3> HIDE DEF best
    <3> QED
      BY <2>2, <3>2, BeatsIsPreferred, Zenon
  <2>4. winners # {}
    <3>1. PICK q \in Peers : cands[i] \in frags[q]
      BY <1>1, <1>5, Zenon
    <3>2. Ends(cands[i])
      BY <2>1
    <3> QED
      BY <3>1, <3>2, Zenon
  <2>5. winners \subseteq Nat
    BY ParticipantAssumption, Zenon
  <2>6. \E q \in winners : \A r \in winners : q <= r
    BY <2>4, <2>5, LeastNatural, Zenon
  <2>7. winner \in winners
    BY <2>6, Zenon
  <2>8. PICK f \in frags[winner] : Ends(f)
    BY <2>7, Zenon
  <2>9. winner \in Peers
    BY <2>7
  <2>10. switch = {[peer |-> winner, frag |-> g] : g \in frags[winner]}
    BY <1>6, <1>8, <2>4, Zenon
  <2> HIDE DEF winner, winners
  <2>11. \A g \in frags[winner] : g = f
    BY <2>8, <2>9 DEF AtMostOne
  <2>12. switch = {[peer |-> winner, frag |-> f]}
    BY <2>8, <2>10, <2>11
  <2>13. f.tip = best.tip
    <3>1. f.tip \in Blocks
      BY <2>8, <2>9, FragmentHeight, Zenon
    <3>2. Slot[f.tip] = Slot[best.tip] /\ Body[f.tip] = Body[best.tip]
      BY <2>1, <2>8, Zenon
    <3> QED
      BY <2>2, <3>1, <3>2, Zenon DEF BodiesDiffer
  <2> HIDE DEF best
  <2>14. AtMostOne(switch) /\ switch # {} /\ \A sw \in switch : sw.frag = f
    BY <2>12 DEF AtMostOne
  <2> QED
    BY <2>2, <2>3, <2>13, <2>14, Zenon
<1> QED
  BY <1>7, <1>8, Zenon

\* The immutable floor moves only on a restart.
LEMMA NoneBetterStays ==
    ASSUME UNCHANGED <<floor, competing>>, NEW b
    PROVE  NoneBetter(competing, b) => NoneBetter(competing, b)'
<1>1. SelectorState.immutableSlot = SlotOf(floor) /\ SelectorState'.immutableSlot = SlotOf(floor)
  BY DEF SelectorState, SlotOf
<1>2. \A f : Eligible(SelectorState', f) <=> Eligible(SelectorState, f)
  BY <1>1 DEF Eligible
<1> QED
  BY <1>2 DEF NoneBetter, Preferred

\* A step that leaves alone all that the decision rests on.
LEMMA DecisionUnchanged ==
    ASSUME DInv, UNCHANGED <<db, floor, competing, pendingSwitch, pc, fresh, stale, proven, replaced>>
    PROVE  DInv'
<1>1. FragmentsFull'
  BY DEF DInv, FragmentsFull
<1>2. \A b : NoneBetter(competing, b) => NoneBetter(competing, b)'
  BY NoneBetterStays, Zenon
<1>3. DecisionOk'
  BY <1>2 DEF DInv, DecisionOk, Preferred
<1> QED
  BY <1>1, <1>3 DEF DInv

\* A step after which no decision is fresh and no switch under way.
LEMMA DecisionDropped ==
    ASSUME DInv, UNCHANGED <<competing, pendingSwitch>>, fresh' = FALSE, pc' # "rollForward"
    PROVE  DInv'
<1>1. FragmentsFull'
  BY DEF DInv, FragmentsFull
<1>2. DecisionOk'
  BY DEF DecisionOk
<1> QED
  BY <1>1, <1>2 DEF DInv

\* A header that joins the fragments: the decision is taken anew, and if it is for none
\* the one that stands is still the best.
LEMMA DispatchCompetingDecides ==
    ASSUME BodiesDiffer, IInv, DInv, NEW p \in Peers, DispatchCompeting(p)
    PROVE  DInv'
<1>1. PICK b \in NextBlock(p) \ db :
    LET lca == WalkToDurableLca(b, caches[p] \cup {b} \cup retention)
        frags == [competing EXCEPT ![p] = {Fragment(l, b) : l \in lca}]
    IN
    /\ db # {}
    /\ pc' = "drain"
    /\ \/ UNCHANGED <<competing, pendingSwitch, fresh>>
       \/ /\ competing' = frags
          /\ \E cands \in AssembleCandidateSet(frags) :
             LET switch == DecideForkSwitch(p, frags, cands) IN
             /\ pendingSwitch' = IF switch = {} THEN pendingSwitch ELSE switch
             /\ fresh' = (fresh \/ switch # {})
    /\ UNCHANGED <<db, floor, switching, stale>>
  BY Zenon DEF DispatchCompeting
<1> DEFINE lca == WalkToDurableLca(b, caches[p] \cup {b} \cup retention)
           frags == [competing EXCEPT ![p] = {Fragment(l, b) : l \in lca}]
<1>2. b \in Blocks /\ pc \in {"idle", "drain"} /\ db # {} /\ Tip(db) \in Blocks
  BY <1>1, NextBlockOk, TipIsMax, Zenon DEF IInv, TypeOK
<1>3. UNCHANGED <<db, floor>> /\ pc' = "drain"
  BY <1>1, Zenon
<1>4. CASE UNCHANGED <<competing, pendingSwitch, fresh>>
  <2>1. FragmentsFull'
    BY <1>4 DEF DInv, FragmentsFull
  <2>2. \A c : NoneBetter(competing, c) => NoneBetter(competing, c)'
    BY <1>3, <1>4, NoneBetterStays, Zenon
  <2>3. DecisionOk'
    BY <1>2, <1>3, <1>4, <2>2, Zenon DEF DInv, DecisionOk, Preferred
  <2> QED
    BY <2>1, <2>3, Zenon DEF DInv
<1>5. ASSUME competing' = frags, NEW cands \in AssembleCandidateSet(frags), NEW switch,
             switch = DecideForkSwitch(p, frags, cands),
             pendingSwitch' = IF switch = {} THEN pendingSwitch ELSE switch,
             fresh' = (fresh \/ switch # {})
      PROVE  DInv'
  <2>1. ASSUME NEW l \in lca PROVE FragmentFull(Fragment(l, b))
    <3>1. FragmentOk(Fragment(l, b))
      BY <1>2, <2>1, FragmentIsOk DEF IInv
    <3>2. Cardinality(l.headers) <= SecurityParam
      BY <2>1, LcaWithinK, Zenon
    <3> QED
      BY <3>1, <3>2, Zenon DEF FragmentFull, Fragment
  <2>2. AtMostOne(lca)
    BY LcaWithinK, Zenon DEF AtMostOne
  <2> HIDE DEF lca
  <2>3. DOMAIN competing = Peers
          /\ \A q \in Peers : AtMostOne(competing[q]) /\ \A f \in competing[q] : FragmentFull(f)
    BY DEF IInv, TypeOK, DInv, FragmentsFull
  <2>4. frags[p] = {Fragment(l, b) : l \in lca} /\ \A q \in Peers : q # p => frags[q] = competing[q]
    BY <2>3
  <2>5. AtMostOne(frags[p]) /\ \A f \in frags[p] : FragmentFull(f)
    BY <2>1, <2>2, <2>4, Zenon DEF AtMostOne
  <2> HIDE DEF frags
  <2>6. \A q \in Peers : AtMostOne(frags[q]) /\ \A f \in frags[q] : FragmentFull(f)
    BY <2>3, <2>4, <2>5, Zenon
  <2>7. /\ switch = {} => NoneBetter(frags, Tip(db))
        /\ AtMostOne(switch)
        /\ \A sw \in switch : Preferred(sw.frag.tip, Tip(db)) /\ NoneBetter(frags, sw.frag.tip)
    BY <1>2, <1>5, <2>6, SwitchIsBest, Zenon
  <2>8. \A sw \in switch : FragmentFull(sw.frag)
    BY <1>5, <2>6, DecisionIsAFragment, Zenon
  <2>9. /\ AtMostOne(pendingSwitch') /\ \A sw \in pendingSwitch' : FragmentFull(sw.frag)
    BY <1>5, <2>7, <2>8, Zenon DEF DInv, FragmentsFull
  <2>10. FragmentsFull'
    BY <1>5, <2>6, <2>9 DEF FragmentsFull
  <2>11. ASSUME fresh', NEW sw \in pendingSwitch'
         PROVE  Preferred(sw.frag.tip, Tip(db)) /\ NoneBetter(frags, sw.frag.tip)
    <3>1. CASE switch # {}
      BY <1>5, <2>7, <2>11, <3>1, Zenon
    <3>2. CASE switch = {}
      <4>1. fresh /\ sw \in pendingSwitch
        BY <1>5, <2>11, <3>2, Zenon
      <4>2. pc = "drain"
        BY <1>2, <4>1 DEF DInv, DecisionOk
      <4>3. Preferred(sw.frag.tip, Tip(db))
        BY <4>1, <4>2, Zenon DEF DInv, DecisionOk
      <4>4. NoneBetter(frags, sw.frag.tip)
        <5> SUFFICES ASSUME NEW q \in Peers, NEW f \in frags[q], Eligible(SelectorState, f)
                     PROVE  ~Preferred(f.tip, sw.frag.tip)
          BY Zenon DEF NoneBetter
        <5>1. ~Preferred(f.tip, Tip(db))
          BY <2>7, <3>2, Zenon DEF NoneBetter
        <5>2. f.tip \in Blocks /\ sw.frag.tip \in Blocks
          BY <2>6, <2>9, <2>11, FragmentHeight, Zenon
        <5> QED
          BY <1>2, <4>3, <5>1, <5>2, PreferredOrder, Zenon
      <4> QED
        BY <4>3, <4>4
    <3> QED
      BY <3>1, <3>2
  <2>12. ASSUME fresh', NEW sw \in pendingSwitch' PROVE NoneBetter(competing, sw.frag.tip)'
    <3>1. \A f : Eligible(SelectorState', f) <=> Eligible(SelectorState, f)
      BY <1>3 DEF Eligible, SelectorState, SlotOf
    <3>2. NoneBetter(frags, sw.frag.tip)
      BY <2>11, <2>12, Zenon
    <3> QED
      BY <1>5, <3>1, <3>2, Zenon DEF NoneBetter, Preferred
  <2>13. DecisionOk'
    BY <1>2, <1>3, <2>11, <2>12, Zenon DEF DecisionOk, Preferred
  <2> QED
    BY <2>10, <2>13, Zenon DEF DInv
<1> QED
  BY <1>1, <1>4, <1>5, Zenon DEF lca

\* The chain rolled back to the anchor, with the proven branch, is the selected chain;
\* the tip it gives up is the one the decision was taken against.
LEMMA ApplyForkSwitchDecides ==
    ASSUME IInv, DInv, ApplyForkSwitch
    PROVE  DInv'
<1>1. PICK sw \in pendingSwitch :
       \/ pendingSwitch' = {} /\ UNCHANGED pc
       \/ /\ db' = Upto(db, Slot[sw.frag.anchor])
          /\ replaced' = Tip(db)
          /\ \/ /\ Reconciled(db', sw.frag.anchor)
                /\ proven' = sw.frag.headers
                /\ pc' = "rollForward"
             \/ pc' = "halted"
          /\ UNCHANGED pendingSwitch
  BY Zenon DEF ApplyForkSwitch, RetireSwitch
<1>2. pc = "settle" /\ UNCHANGED <<competing, fresh, stale>>
  BY Zenon DEF ApplyForkSwitch, drain
<1>3. \A x \in pendingSwitch : x = sw
  BY Zenon DEF DInv, FragmentsFull, AtMostOne
<1>4. pendingSwitch' = {} \/ pendingSwitch' = pendingSwitch
  BY <1>1
<1>5. FragmentsFull'
  BY <1>2, <1>4 DEF DInv, FragmentsFull, AtMostOne
<1>6. CASE pendingSwitch' = {} /\ UNCHANGED pc
  <2>1. DecisionOk'
    BY <1>2, <1>6 DEF DecisionOk
  <2> QED
    BY <1>5, <2>1 DEF DInv
<1>7. CASE pc' = "halted"
  <2>1. DecisionOk'
    BY <1>7 DEF DecisionOk
  <2> QED
    BY <1>5, <2>1 DEF DInv
<1>8. CASE /\ db' = Upto(db, Slot[sw.frag.anchor]) /\ replaced' = Tip(db)
           /\ Reconciled(db', sw.frag.anchor) /\ proven' = sw.frag.headers
           /\ pc' = "rollForward" /\ UNCHANGED pendingSwitch
  <2>1. FragmentOk(sw.frag)
    BY DEF IInv, TypeOK
  <2>2. sw.frag.anchor \in Blocks /\ Slot[sw.frag.anchor] \in Nat
    BY <2>1, LineageFacts, SlotIsNat, Zenon DEF FragmentOk, Points
  <2>3. ASSUME ~stale' PROVE db' \cup proven' = Lineage(sw.frag.tip)
    <3>1. Linked(db')
      BY <1>2, <1>8, <2>2, <2>3, LinkedUpto, Zenon DEF IInv, ChainOk
    <3>2. TipPoint(db') = sw.frag.anchor
      BY <1>8, Zenon DEF Reconciled
    <3> QED
      BY <1>8, <2>1, <3>1, <3>2, SwitchStarts, Zenon
  <2>4. ASSUME fresh' PROVE replaced' \in Blocks /\ Preferred(sw.frag.tip, replaced')
    <3>1. db # {} /\ Preferred(sw.frag.tip, Tip(db))
      BY <1>2, <2>4, Zenon DEF DInv, DecisionOk
    <3> QED
      BY <1>8, <3>1, TipIsMax DEF IInv, TypeOK
  <2>5. DecisionOk'
    BY <1>3, <1>8, <2>3, <2>4, Zenon DEF DecisionOk, Preferred
  <2> QED
    BY <1>5, <2>5 DEF DInv
<1> QED
  BY <1>1, <1>6, <1>7, <1>8, Zenon

\* A block that moves from the branch to the chain leaves the two together as they were.
LEMMA RollForwardDecides ==
    ASSUME IInv, DInv, RollForward
    PROVE  DInv'
<1>1. PICK b \in proven :
       /\ db' = db \cup {b} \/ db' = db
       /\ proven' = proven \ (db' \ db)
       /\ \/ pc' \in {pc, "halted"} /\ UNCHANGED pendingSwitch
          \/ pc' = "settle" /\ pendingSwitch' = {}
  BY DEF RollForward, pending
<1>2. pc = "rollForward" /\ UNCHANGED <<competing, fresh, stale, replaced>>
  BY DEF RollForward, drain
<1>3. db' \cup proven' = db \cup proven
  BY <1>1
<1>4. FragmentsFull'
  BY <1>1, <1>2, Zenon DEF DInv, FragmentsFull, AtMostOne
<1>5. DecisionOk'
  BY <1>1, <1>2, <1>3, Zenon DEF DInv, DecisionOk, Preferred
<1> QED
  BY <1>4, <1>5 DEF DInv

\* Every step of the relay loop, of a peer and of the process keeps what the decisions
\* rest on.
LEMMA DecisionStep ==
    ASSUME BodiesDiffer, IInv, DInv, [Next]_vars
    PROVE  DInv'
<1>1. ASSUME NEW p \in Peers, NEW b \in Reaches[p], PeerAdopts(p, b) PROVE DInv'
  BY <1>1, DecisionUnchanged DEF PeerAdopts, drain, pending, switching, ghosts
<1>2. ASSUME NEW p \in Peers, LinearExtend(p) PROVE DInv'
  <2>1. /\ UNCHANGED <<competing, pendingSwitch>> /\ fresh' = FALSE
        /\ pc' \in {"drain", "halted"}
    BY <1>2 DEF LinearExtend, Halt, drain, pending
  <2> QED
    BY <2>1, DecisionDropped, Zenon
<1>3. ASSUME NEW p \in Peers, AlreadyHave(p) PROVE DInv'
  <2>1. /\ pc \in {"idle", "drain"} /\ pc' = "drain"
        /\ UNCHANGED <<db, floor, competing, pendingSwitch, fresh, stale>>
    BY <1>3, NextBlockOk, Zenon DEF IInv, AlreadyHave, drain, pending, ghosts
  <2>2. FragmentsFull'
    BY <2>1 DEF DInv, FragmentsFull
  <2>3. \A b : NoneBetter(competing, b) => NoneBetter(competing, b)'
    BY <2>1, NoneBetterStays, Zenon
  <2>4. DecisionOk'
    BY <2>1, <2>3, Zenon DEF DInv, DecisionOk, Preferred
  <2> QED
    BY <2>2, <2>4 DEF DInv
<1>4. ASSUME NEW p \in Peers, DispatchCompeting(p) PROVE DInv'
  BY <1>4, DispatchCompetingDecides, Zenon
<1>5. ASSUME NEW p \in Peers, PeerRollBack(p) PROVE DInv'
  <2>1. /\ UNCHANGED <<competing, pendingSwitch>> /\ fresh' = FALSE
        /\ pc' \in {"drain", "halted"}
    BY <1>5 DEF PeerRollBack, Halt, drain, pending
  <2> QED
    BY <2>1, DecisionDropped, Zenon
<1>6. ASSUME NEW p \in Peers, Connect(p) PROVE DInv'
  BY <1>6, DecisionUnchanged DEF Connect, drain, pending, switching, ghosts
<1>7. CASE EndDrain
  <2>1. /\ pc = "drain" /\ pc' = "settle" /\ competing' = [p \in Peers |-> {}]
        /\ UNCHANGED <<db, pendingSwitch, fresh>>
    BY <1>7 DEF EndDrain, pending, ghosts
  <2>2. FragmentsFull'
    BY <2>1, Zenon DEF DInv, FragmentsFull, AtMostOne
  <2>3. DecisionOk'
    BY <2>1, Zenon DEF DInv, DecisionOk, Preferred
  <2> QED
    BY <2>2, <2>3 DEF DInv
<1>8. CASE ApplyForkSwitch
  BY <1>8, ApplyForkSwitchDecides
<1>9. CASE RollForward
  BY <1>9, RollForwardDecides, Zenon
<1>10. CASE RangeRefetch
  <2>1. /\ pc = "settle" /\ pendingSwitch = {}
        /\ UNCHANGED <<pc, competing, pendingSwitch, fresh>>
    BY <1>10, Zenon DEF RangeRefetch, drain
  <2>2. FragmentsFull'
    BY <2>1 DEF DInv, FragmentsFull
  <2>3. DecisionOk'
    BY <2>1 DEF DecisionOk
  <2> QED
    BY <2>2, <2>3 DEF DInv
<1>11. CASE ResolveFence
  <2>1. UNCHANGED <<competing, pendingSwitch>> /\ fresh' = FALSE /\ pc' = "idle"
    BY <1>11 DEF ResolveFence, drain
  <2> QED
    BY <2>1, DecisionDropped, Zenon
<1>12. ASSUME NEW b \in Own, ForgeTick(b) PROVE DInv'
  <2>1. pc = "idle" /\ UNCHANGED <<pc, competing, pendingSwitch, fresh>>
    BY <1>12, Zenon DEF ForgeTick, MayForge, drain, pending, ghosts
  <2>2. FragmentsFull'
    BY <2>1 DEF DInv, FragmentsFull
  <2>3. DecisionOk'
    BY <2>1 DEF DInv, DecisionOk
  <2> QED
    BY <2>2, <2>3 DEF DInv
<1>13. CASE ForgeNotLeader
  BY <1>13, DecisionUnchanged, Zenon DEF ForgeNotLeader, drain, pending, switching, ghosts
<1>14. CASE Crash
  <2>1. /\ pc' = "idle" /\ fresh' = FALSE /\ pendingSwitch' = {}
        /\ competing' = [p \in Peers |-> {}]
    BY <1>14 DEF Crash
  <2> QED
    BY <2>1, Zenon DEF DInv, FragmentsFull, AtMostOne, DecisionOk
<1>15. CASE UNCHANGED vars
  BY <1>15, DecisionUnchanged DEF vars, drain, pending, switching, ghosts
<1> QED
  BY <1>1, <1>2, <1>3, <1>4, <1>5, <1>6, <1>7, <1>8, <1>9, <1>10, <1>11, <1>12, <1>13,
     <1>14, <1>15, Zenon DEF Next, Sync, Settle

\* What the decisions rest on holds in every reachable state.
LEMMA DecisionInductive ==
    ASSUME BodiesDiffer
    PROVE  Spec => []DInv
<1>1. Init => DInv
  BY DEF Init, DInv, FragmentsFull, AtMostOne, DecisionOk
<1>2. IInv /\ DInv /\ [Next]_vars => DInv'
  BY DecisionStep
<1> QED
  BY <1>1, <1>2, Inductive, PTL DEF Spec

-----------------------------------------------------------------------------

\* The pending switch of a drain is to the best of all eligible fragments it gathered,
\* and to a better tip, in whatever order the peers' headers came.  The bodies of two
\* blocks of one slot are taken to differ: decide_fork_switch finds the peer of the
\* selected tip by slot and body hash.
THEOREM SwitchDecisionIsBest ==
    ASSUME BodiesDiffer
    PROVE  Spec => []DecisionIsBest
<1>1. DInv => DecisionIsBest
  BY DEF DInv, DecisionOk, NoneBetter, DecisionIsBest, TipPoint
<1> QED
  BY <1>1, DecisionInductive, PTL

\* A switch that apply_fork_switch takes on a fresh decision ends in a better tip than
\* the one it replaces, and takes at most k blocks off the chain: the walk to the
\* stored ancestor bounds the branch by k, and the branch is at least as high.
THEOREM SwitchImprovesTip ==
    ASSUME BodiesDiffer
    PROVE  Spec => FreshSwitchImproves
<1> DEFINE Improves ==
      \A sw \in pendingSwitch :
         pc = "rollForward" /\ pc' = "settle" /\ fresh /\ ~stale =>
            /\ Preferred(TipPoint(db'), replaced)
            /\ BlockNo[replaced] <= BlockNo[sw.frag.anchor] + SecurityParam
<1>1. ASSUME IInv, DInv, Next PROVE Improves
  <2> SUFFICES ASSUME NEW sw \in pendingSwitch, pc = "rollForward", pc' = "settle",
                      fresh, ~stale
               PROVE  /\ Preferred(TipPoint(db'), replaced)
                      /\ BlockNo[replaced] <= BlockNo[sw.frag.anchor] + SecurityParam
    BY Zenon
  <2>1. RollForward
    <3>1. \A p \in Peers : ~Sync(p)
      BY <1>1, NextBlockOk, RollBackPointOk, Zenon DEF IInv, Sync, LinearExtend, AlreadyHave,
         DispatchCompeting, PeerRollBack
    <3>2. pc' # pc
      OBVIOUS
    <3> QED
      BY <1>1, <3>1, <3>2, Zenon DEF Next, PeerAdopts, Connect, EndDrain, Settle, ApplyForkSwitch,
         RangeRefetch, ResolveFence, ForgeTick, MayForge, ForgeNotLeader, Crash
  <2>2. PICK b \in proven : /\ db' = IF Pumps(db, b) THEN db \cup {b} ELSE db
                            /\ proven' = proven \ (db' \ db)
                            /\ proven' = {}
    BY <2>1, Zenon DEF RollForward
  <2>3. db' \cup proven' = db \cup proven
    BY <2>2
  <2>4. /\ db \cup proven = Lineage(sw.frag.tip)
        /\ replaced \in Blocks /\ Preferred(sw.frag.tip, replaced)
        /\ FragmentFull(sw.frag)
    BY <1>1 DEF DInv, DecisionOk, FragmentsFull
  <2>5. sw.frag.tip \in Blocks /\ BlockNo[sw.frag.tip] <= BlockNo[sw.frag.anchor] + SecurityParam
    BY <2>4, FragmentHeight, Zenon
  <2>6. TipPoint(db') = sw.frag.tip
    BY <2>2, <2>3, <2>4, <2>5, LineageLinked, Zenon
  <2>7. sw.frag.anchor \in Blocks
    BY <2>4, <2>5, LineageFacts, Zenon DEF FragmentFull, FragmentOk, Points
  <2>8. BlockNo[replaced] <= BlockNo[sw.frag.tip]
    BY <2>4, <2>5, TreeAssumption, AnchorAssumption DEF Preferred, ComparePrefer
  <2>9. /\ BlockNo[replaced] \in Nat /\ BlockNo[sw.frag.tip] \in Nat
        /\ BlockNo[sw.frag.anchor] \in Nat
    BY <2>4, <2>5, <2>7, TreeAssumption, Zenon
  <2> QED
    BY <2>4, <2>5, <2>6, <2>8, <2>9, SecurityParamAssumption
<1>2. IInv /\ DInv /\ [Next]_vars => [Improves]_vars
  BY <1>1
<1> QED
  BY <1>2, Inductive, DecisionInductive, PTL DEF Spec, FreshSwitchImproves

=============================================================================
