-------------------------- MODULE WalReplayProofs ---------------------------
(***************************************************************************)
(* What holds of every log, whatever its length and whatever the tree of   *)
(* blocks: how an append changes the chain the log stands for, that a log  *)
(* whose fingerprints chain admits its standing blocks in slot order, and  *)
(* that a log written by admitting and rolling back replays unless a       *)
(* rollback was followed by a deeper one.                                  *)
(***************************************************************************)
EXTENDS WalReplay, ChainProofs

\* Greatest finds the maximum of a bounded non-empty set of naturals.
LEMMA GreatestIsMax ==
    ASSUME NEW I, I \subseteq Nat, I # {}, NEW n \in Nat, \A i \in I : i <= n
    PROVE  Greatest(I) \in I /\ \A j \in I : j <= Greatest(I)
<1> DEFINE T == {n - i : i \in I}
<1>0. \A i \in I : n - i \in Nat
  OBVIOUS
<1>1. T \subseteq Nat /\ T # {}
  BY <1>0
<1>2. PICK t \in T : \A y \in T : t <= y
  BY <1>1, LeastNatural
<1>3. PICK m \in I : t = n - m
  OBVIOUS
<1>4. \A j \in I : j <= m
  <2> TAKE j \in I
  <2>1. n - m <= n - j
    BY <1>2, <1>3
  <2> QED
    BY <2>1
<1> QED
  BY <1>3, <1>4 DEF Greatest

-----------------------------------------------------------------------------
(* Appending to the log.                                                     *)

\* An appended entry is the last of the log and the others stay.
LEMMA AppendEntry ==
    ASSUME NEW w \in Seq(LogEntries), NEW e \in LogEntries
    PROVE  /\ Append(w, e) \in Seq(LogEntries)
           /\ Len(w) \in Nat
           /\ Len(Append(w, e)) = Len(w) + 1
           /\ \A i \in 1..Len(w) : Append(w, e)[i] = w[i] /\ w[i] \in LogEntries
           /\ Append(w, e)[Len(w) + 1] = e
  OBVIOUS

\* What an entry records.
LEMMA EntryFields ==
    ASSUME NEW e \in LogEntries
    PROVE  \/ /\ IsAdmit(e) /\ ~IsRollBack(e)
              /\ e.block \in Blocks
              /\ e.prior_fp \in Fingerprints /\ e.post_fp \in Fingerprints
           \/ IsRollBack(e) /\ ~IsAdmit(e) /\ e.to_point \in Blocks
  BY DEF LogEntries, IsAdmit, IsRollBack

\* An appended AdmitBlock stands, and undoes nothing.
LEMMA ActiveAdmit ==
    ASSUME NEW w \in Seq(LogEntries), NEW e \in LogEntries, IsAdmit(e)
    PROVE  Active(Append(w, e)) = Active(w) \cup {Len(w) + 1}
<1> DEFINE v == Append(w, e)
           n == Len(w)
<1>1. /\ n \in Nat /\ Len(v) = n + 1 /\ v[n + 1] = e
      /\ \A i \in 1..n : v[i] = w[i]
  BY AppendEntry
<1>2. ~IsRollBack(e)
  BY EntryFields
<1> HIDE DEF v, n
<1>3. \A i \in 1..n : SupersededBy(v, i, n + 1) <=> SupersededBy(w, i, n)
  BY <1>1, <1>2 DEF SupersededBy
<1>4. ~SupersededBy(v, n + 1, n + 1)
  BY <1>1 DEF SupersededBy
<1>5. Active(v) = Active(w) \cup {n + 1}
  BY <1>1, <1>3, <1>4 DEF Active, n
<1> QED
  BY <1>5 DEF v, n

\* Logging an admitted block adds it to the chain the log stands for and
\* removes nothing.
LEMMA EffectiveAdmit ==
    ASSUME NEW w \in Seq(LogEntries), NEW e \in LogEntries, IsAdmit(e)
    PROVE  Effective(Append(w, e)) = Effective(w) \cup {e.block}
<1> DEFINE v == Append(w, e)
           n == Len(w)
<1>1. /\ n \in Nat /\ v[n + 1] = e
      /\ \A i \in 1..n : v[i] = w[i]
  BY AppendEntry
<1>2. Active(v) = Active(w) \cup {n + 1}
  BY ActiveAdmit
<1> HIDE DEF v, n
<1>3. \A i \in Active(w) : v[i] = w[i]
  BY <1>1 DEF Active, n
<1> QED
  BY <1>1, <1>2, <1>3 DEF Effective, v

\* A RollBack leaves the entries standing whose blocks are not above its target.
LEMMA ActiveRollBack ==
    ASSUME NEW w \in Seq(LogEntries), NEW e \in LogEntries, IsRollBack(e)
    PROVE  Active(Append(w, e)) = {i \in Active(w) : Slot[w[i].block] <= Slot[e.to_point]}
<1> DEFINE v == Append(w, e)
           n == Len(w)
<1>1. /\ n \in Nat /\ Len(v) = n + 1 /\ v[n + 1] = e
      /\ \A i \in 1..n : v[i] = w[i] /\ w[i] \in LogEntries
  BY AppendEntry
<1>2. ~IsAdmit(e) /\ Slot[e.to_point] \in Nat
  BY EntryFields, TreeAssumption
<1> HIDE DEF v, n
<1>3. ASSUME NEW i \in 1..n
      PROVE  SupersededBy(v, i, n + 1) <=>
                \/ SupersededBy(w, i, n)
                \/ Slot[e.to_point] < Slot[w[i].block]
  BY <1>1 DEF SupersededBy
<1>4. \A i \in 1..n : IsAdmit(w[i]) => Slot[w[i].block] \in Nat
  BY <1>1, EntryFields, TreeAssumption
<1>5. Active(v) = {i \in Active(w) : Slot[w[i].block] <= Slot[e.to_point]}
  BY <1>1, <1>2, <1>3, <1>4 DEF Active, n
<1> QED
  BY <1>5 DEF v

\* Logging a rollback cuts that chain back to the slot of the target.
LEMMA EffectiveRollBack ==
    ASSUME NEW w \in Seq(LogEntries), NEW e \in LogEntries, IsRollBack(e)
    PROVE  Effective(Append(w, e)) = Upto(Effective(w), Slot[e.to_point])
<1> DEFINE v == Append(w, e)
           kept == Upto(Effective(w), Slot[e.to_point])
<1>1. Active(v) = {i \in Active(w) : Slot[w[i].block] <= Slot[e.to_point]}
  BY ActiveRollBack
<1>2. \A i \in 1..Len(w) : v[i] = w[i]
  BY AppendEntry
<1> HIDE DEF v
<1>3. \A i \in Active(w) : v[i] = w[i]
  BY <1>2 DEF Active
<1>4. Effective(v) = {w[i].block : i \in Active(v)}
  BY <1>1, <1>3 DEF Effective
<1>5. ASSUME NEW b \in Effective(v) PROVE b \in kept
  <2>1. PICK i \in Active(v) : b = w[i].block
    BY <1>4
  <2>2. i \in Active(w) /\ Slot[b] <= Slot[e.to_point]
    BY <1>1, <2>1
  <2> QED
    BY <2>1, <2>2 DEF Effective, Upto
<1>6. ASSUME NEW b \in kept PROVE b \in Effective(v)
  <2>1. PICK i \in Active(w) : b = w[i].block
    BY DEF Effective, Upto
  <2>2. i \in Active(v)
    BY <1>1, <2>1 DEF Upto
  <2> QED
    BY <1>4, <2>1, <2>2
<1> HIDE DEF kept
<1>7. Effective(v) = kept
  BY <1>5, <1>6
<1> QED
  BY <1>7 DEF v, kept

-----------------------------------------------------------------------------
(* The fingerprint chain orders the log.                                     *)

\* An AdmitBlock records the slot of its block in the fingerprint after it,
\* and a lower slot in the fingerprint before it.
EntryOk(e) ==
    IsAdmit(e) => /\ e.post_fp.slot = Slot[e.block]
                  /\ e.prior_fp.slot < Slot[e.block]

\* Where the walk stands, no block admitted so far and still standing is above
\* the fingerprint the walk holds.
LEMMA WalkBounds ==
    ASSUME NEW w \in Seq(LogEntries), WalkOk(w),
           \A i \in 1..Len(w) : EntryOk(w[i]),
           NEW n \in 1..(Len(w) + 1), NEW i \in Active(w), i < n
    PROVE  Slot[w[i].block] <= PrevPostFp(w, n).slot
<1> DEFINE Bounded(m) == \A k \in Active(w) :
                            k < m => Slot[w[k].block] <= PrevPostFp(w, m).slot
           Bad == {m \in 1..(Len(w) + 1) : ~Bounded(m)}
<1> SUFFICES ASSUME Bad # {} PROVE FALSE
  OBVIOUS
<1>1. Len(w) \in Nat /\ \A k \in 1..Len(w) : w[k] \in LogEntries
  OBVIOUS
<1>2. PICK m \in Bad : \A k \in Bad : m <= k
  <2>1. Bad \subseteq Nat
    BY <1>1
  <2> QED
    BY <2>1, LeastNatural
<1>3. PICK k \in Active(w) : k < m /\ ~(Slot[w[k].block] <= PrevPostFp(w, m).slot)
  OBVIOUS
<1>4. m \in 1..(Len(w) + 1) /\ \A l \in 1..(m - 1) : Bounded(l)
  BY <1>1, <1>2
<1> HIDE DEF Bad
<1> DEFINE steps == {l \in 1..(m - 1) : l \in Active(w) \/ IsRollBack(w[l])}
           last == Greatest(steps)
<1>5. k \in 1..Len(w) /\ IsAdmit(w[k]) /\ ~SupersededBy(w, k, Len(w))
  BY DEF Active
<1>6. k \in steps
  BY <1>1, <1>3, <1>4, <1>5
<1>7. last \in steps /\ k <= last
  <2>1. steps \subseteq Nat /\ m \in Nat /\ \A l \in steps : l <= m
    BY <1>1, <1>4
  <2> HIDE DEF steps
  <2> QED
    BY <1>6, <2>1, GreatestIsMax
<1>8. PrevPostFp(w, m) =
        IF IsAdmit(w[last]) THEN w[last].post_fp
        ELSE w[Greatest(Recorded(w, w[last].to_point, last))].post_fp
  BY <1>6 DEF PrevPostFp
<1> HIDE DEF last
<1>9. last \in 1..(m - 1) /\ last \in 1..Len(w) /\ w[last] \in LogEntries
  BY <1>1, <1>4, <1>7
<1>10. Slot[w[k].block] \in Nat
  BY <1>1, <1>5, EntryFields, TreeAssumption
<1>11. CASE IsAdmit(w[last])
  <2>1. last \in Active(w)
    BY <1>7, <1>9, <1>11, EntryFields
  <2>2. /\ PrevPostFp(w, m).slot = Slot[w[last].block]
        /\ w[last].prior_fp = PrevPostFp(w, last)
        /\ w[last].prior_fp.slot < Slot[w[last].block]
    BY <1>8, <1>9, <1>11, <2>1 DEF EntryOk, WalkOk
  <2>3. Slot[w[last].block] \in Nat /\ w[last].prior_fp.slot \in Nat
    BY <1>9, <1>11, EntryFields, TreeAssumption DEF Fingerprints
  <2>4. CASE k = last
    BY <1>3, <2>2, <2>3, <2>4
  <2>5. CASE k # last
    <3>1. k < last
      BY <1>5, <1>7, <1>9, <2>5
    <3>2. Slot[w[k].block] <= w[last].prior_fp.slot
      BY <1>4, <1>9, <2>2, <3>1
    <3> QED
      BY <1>3, <1>10, <2>2, <2>3, <3>2
  <2> QED
    BY <2>4, <2>5
<1>12. CASE IsRollBack(w[last])
  <2> DEFINE R == Recorded(w, w[last].to_point, last)
             g == Greatest(R)
  <2>1. g \in R
    <3>1. R \subseteq Nat /\ R # {} /\ last \in Nat /\ \A l \in R : l <= last
      BY <1>1, <1>9, <1>12 DEF WalkOk, Recorded, Active
    <3> HIDE DEF R
    <3> QED
      BY <3>1, GreatestIsMax
  <2>2. g \in 1..Len(w) /\ IsAdmit(w[g]) /\ w[g].block = w[last].to_point
    BY <2>1 DEF Recorded, Active
  <2>3. PrevPostFp(w, m).slot = Slot[w[last].to_point]
    BY <1>8, <1>9, <1>12, <2>2, EntryFields DEF EntryOk
  <2>4. k # last
    BY <1>5, <1>9, <1>12, EntryFields
  <2>5. last \in (k + 1)..Len(w)
    BY <1>1, <1>5, <1>7, <1>9, <2>4
  <2>6. ~(Slot[w[last].to_point] < Slot[w[k].block])
    BY <1>5, <1>12, <2>5 DEF SupersededBy
  <2>7. Slot[w[last].to_point] \in Nat
    BY <1>9, <1>12, EntryFields, TreeAssumption
  <2> QED
    BY <1>3, <1>10, <2>3, <2>6, <2>7
<1> QED
  BY <1>9, <1>11, <1>12, EntryFields

\* A log that replays admits the blocks still standing in slot order.
LEMMA ActiveOrdered ==
    ASSUME NEW w \in Seq(LogEntries), WalkOk(w),
           \A i \in 1..Len(w) : EntryOk(w[i]),
           NEW i \in Active(w), NEW j \in Active(w), i < j
    PROVE  Slot[w[i].block] < Slot[w[j].block]
<1>1. /\ i \in 1..Len(w) /\ w[i] \in LogEntries /\ IsAdmit(w[i])
      /\ j \in 1..Len(w) /\ w[j] \in LogEntries /\ IsAdmit(w[j])
  BY DEF Active
<1>2. Slot[w[i].block] <= PrevPostFp(w, j).slot
  <2>1. j \in 1..(Len(w) + 1)
    BY <1>1
  <2> QED
    BY <2>1, WalkBounds
<1>3. w[j].prior_fp = PrevPostFp(w, j) /\ w[j].prior_fp.slot < Slot[w[j].block]
  BY <1>1 DEF WalkOk, EntryOk
<1>4. /\ Slot[w[i].block] \in Nat /\ Slot[w[j].block] \in Nat
      /\ w[j].prior_fp.slot \in Nat
  BY <1>1, EntryFields, TreeAssumption DEF Fingerprints
<1> QED
  BY <1>2, <1>3, <1>4

\* Trimming the ChainDb to wal_tail_slot drops no block the log stands for,
\* although the reverse scan for that slot ignores RollBack entries.
THEOREM TailSlotCoversLog ==
    ASSUME NEW w \in Seq(LogEntries), WalkOk(w),
           \A i \in 1..Len(w) : EntryOk(w[i]),
           NEW b \in Effective(w)
    PROVE  Slot[b] <= WalTailSlot(w)
<1> DEFINE admits == {i \in 1..Len(w) : IsAdmit(w[i])}
           g == Greatest(admits)
<1>1. PICK i \in Active(w) : b = w[i].block
  BY DEF Effective
<1>2. i \in admits /\ ~SupersededBy(w, i, Len(w)) /\ Len(w) \in Nat
  BY DEF Active
<1>3. g \in admits /\ i <= g
  <2>1. admits \subseteq Nat /\ \A j \in admits : j <= Len(w)
    BY <1>2
  <2> HIDE DEF admits
  <2> QED
    BY <1>2, <2>1, GreatestIsMax
<1>4. WalTailSlot(w) = Slot[w[g].block]
  BY <1>2 DEF WalTailSlot
<1> HIDE DEF g
<1>5. /\ w[i] \in LogEntries /\ w[g] \in LogEntries
      /\ Slot[b] \in Nat /\ Slot[w[g].block] \in Nat
  BY <1>1, <1>2, <1>3, EntryFields, TreeAssumption
<1>6. CASE i = g
  BY <1>1, <1>4, <1>5, <1>6
<1>7. CASE i # g /\ g \in Active(w)
  <2>1. i < g
    BY <1>2, <1>3, <1>7
  <2>2. Slot[w[i].block] < Slot[w[g].block]
    BY <1>7, <2>1, ActiveOrdered
  <2> QED
    BY <1>1, <1>4, <1>5, <2>2
<1>8. CASE g \notin Active(w)
  <2>1. PICK j \in (g + 1)..Len(w) :
            IsRollBack(w[j]) /\ Slot[w[j].to_point] < Slot[w[g].block]
    BY <1>3, <1>8 DEF Active, SupersededBy
  <2>2. j \in (i + 1)..Len(w) /\ j \in 1..Len(w)
    BY <1>2, <1>3, <2>1
  <2>3. ~(Slot[w[j].to_point] < Slot[b])
    BY <1>1, <1>2, <2>1, <2>2 DEF SupersededBy
  <2>4. Slot[w[j].to_point] \in Nat
    BY <2>1, <2>2, EntryFields, TreeAssumption
  <2> QED
    BY <1>4, <1>5, <2>1, <2>3, <2>4
<1> QED
  BY <1>6, <1>7, <1>8

-----------------------------------------------------------------------------
(* A log the node wrote.                                                     *)

\* The blocks that the entries still standing before index n admitted.
Standing(w, n) == {w[i].block : i \in {k \in Active(w) : k < n}}

\* RollBack k goes further back than RollBack j.
Deeper(w, j, k) == IsRollBack(w[k]) /\ Slot[w[k].to_point] < Slot[w[j].to_point]

\* The shape of a log that was written by admitting, each time, a block above the
\* chain the log stood for, and by rolling back to a block of that chain: the entries
\* still standing are in slot order and carry the fingerprints of the blocks up to
\* theirs, the target of a RollBack stood when it was written, and what was admitted
\* after a RollBack is above its target unless a deeper one came in between.
LogOk(w) ==
    /\ \A i, j \in Active(w) : i < j => Slot[w[i].block] < Slot[w[j].block]
    /\ \A i \in Active(w) : /\ w[i].prior_fp = Fingerprint(Standing(w, i))
                            /\ w[i].post_fp = Fingerprint(Standing(w, i + 1))
    /\ \A j \in 1..Len(w) : IsRollBack(w[j]) =>
          /\ \E i \in 1..(j - 1) : /\ IsAdmit(w[i]) /\ w[i].block = w[j].to_point
                                   /\ ~SupersededBy(w, i, j)
          /\ \A i \in Active(w) :
                j < i => \/ Slot[w[j].to_point] < Slot[w[i].block]
                         \/ \E k \in (j + 1)..(i - 1) : Deeper(w, j, k)

\* What stands in the log.
LEMMA ActiveFacts ==
    ASSUME NEW w \in Seq(LogEntries), NEW i \in Active(w)
    PROVE  /\ i \in 1..Len(w) /\ Len(w) \in Nat /\ IsAdmit(w[i]) /\ ~IsRollBack(w[i])
           /\ w[i] \in LogEntries /\ w[i].block \in Blocks /\ Slot[w[i].block] \in Nat
           /\ ~SupersededBy(w, i, Len(w))
<1>1. i \in 1..Len(w) /\ IsAdmit(w[i]) /\ ~SupersededBy(w, i, Len(w)) /\ Len(w) \in Nat
  BY DEF Active
<1>2. w[i] \in LogEntries
  BY <1>1
<1> QED
  BY <1>1, <1>2, EntryFields, SlotIsNat

\* A RollBack records its target and its slot.
LEMMA RollBackFacts ==
    ASSUME NEW w \in Seq(LogEntries), NEW j \in 1..Len(w), IsRollBack(w[j])
    PROVE  w[j].to_point \in Blocks /\ Slot[w[j].to_point] \in Nat /\ j \notin Active(w)
<1>1. w[j] \in LogEntries
  OBVIOUS
<1> QED
  BY <1>1, EntryFields, SlotIsNat DEF Active

\* The target of a RollBack still stands unless a later one went deeper.
LEMMA RecordedUnlessDeeper ==
    ASSUME NEW w \in Seq(LogEntries), LogOk(w), NEW j \in 1..Len(w), IsRollBack(w[j])
    PROVE  \/ Recorded(w, w[j].to_point, j) # {}
           \/ \E k \in (j + 1)..Len(w) : Deeper(w, j, k)
<1>1. PICK i \in 1..(j - 1) : /\ IsAdmit(w[i]) /\ w[i].block = w[j].to_point
                              /\ ~SupersededBy(w, i, j)
  BY DEF LogOk
<1>2. i \in 1..Len(w) /\ i < j /\ Len(w) \in Nat
  OBVIOUS
<1>3. CASE i \in Active(w)
  BY <1>1, <1>2, <1>3 DEF Recorded
<1>4. CASE i \notin Active(w)
  <2>1. PICK k \in (i + 1)..Len(w) : IsRollBack(w[k]) /\ Slot[w[k].to_point] < Slot[w[i].block]
    BY <1>1, <1>2, <1>4 DEF Active, SupersededBy
  <2>2. k \notin (i + 1)..j
    BY <1>1, <2>1 DEF SupersededBy
  <2>3. k \in (j + 1)..Len(w)
    BY <1>2, <2>2
  <2> QED
    BY <1>1, <2>1, <2>3 DEF Deeper
<1> QED
  BY <1>3, <1>4

\* Where an entry that stands was written, and at the end of the log, the walk holds the
\* fingerprint of the blocks standing before.
LEMMA WalkStands ==
    ASSUME NEW w \in Seq(LogEntries), LogOk(w), NEW n \in 1..(Len(w) + 1),
           n \in Active(w) \/ n = Len(w) + 1
    PROVE  PrevPostFp(w, n) = Fingerprint(Standing(w, n))
<1> DEFINE steps == {i \in 1..(n - 1) : i \in Active(w) \/ IsRollBack(w[i])}
           last == Greatest(steps)
<1>1. Len(w) \in Nat /\ n \in Nat
  OBVIOUS
<1>2. \A k \in Active(w) : k < n => k \in steps
  BY <1>1, ActiveFacts
<1>3. CASE steps = {}
  <2>1. Standing(w, n) = {}
    BY <1>2, <1>3 DEF Standing
  <2>2. PrevPostFp(w, n) = Fingerprint({})
    BY <1>3 DEF PrevPostFp
  <2> QED
    BY <2>1, <2>2
<1>4. CASE steps # {}
  <2>1. last \in steps /\ \A k \in steps : k <= last
    <3>1. steps \subseteq Nat /\ \A k \in steps : k <= n
      BY <1>1
    <3> HIDE DEF steps
    <3> QED
      BY <1>1, <1>4, <3>1, GreatestIsMax
  <2>2. PrevPostFp(w, n) =
           IF IsAdmit(w[last]) THEN w[last].post_fp
           ELSE w[Greatest(Recorded(w, w[last].to_point, last))].post_fp
    BY <1>4 DEF PrevPostFp
  <2>3. last \in 1..Len(w) /\ last < n /\ (last \in Active(w) \/ IsRollBack(w[last]))
    BY <1>1, <2>1
  <2>4. \A k \in (last + 1)..(n - 1) : ~IsRollBack(w[k])
    <3> SUFFICES ASSUME NEW k \in (last + 1)..(n - 1), IsRollBack(w[k]) PROVE FALSE
      OBVIOUS
    <3>1. k \in 1..(n - 1) /\ last < k
      BY <2>3
    <3> QED
      BY <2>1, <2>3, <3>1
  <2> HIDE DEF steps, last
  <2>5. CASE last \in Active(w)
    <3>1. \A k \in Active(w) : k < n <=> k < last + 1
      BY <1>1, <1>2, <2>1, <2>3, ActiveFacts
    <3>2. Standing(w, n) = Standing(w, last + 1)
      BY <3>1 DEF Standing
    <3>3. PrevPostFp(w, n) = w[last].post_fp
      BY <2>2, <2>5, ActiveFacts
    <3> QED
      BY <2>5, <3>2, <3>3 DEF LogOk
  <2>6. CASE IsRollBack(w[last])
    <3> DEFINE p == w[last].to_point
               R == Recorded(w, p, last)
               g == Greatest(R)
    <3>1. Slot[p] \in Nat /\ last \notin Active(w) /\ ~IsAdmit(w[last])
      <4>1. w[last] \in LogEntries
        BY <2>3
      <4> QED
        BY <2>3, <2>6, <4>1, RollBackFacts, EntryFields
    <3>2. R # {}
      <4>1. SUFFICES ASSUME NEW k \in (last + 1)..Len(w), Deeper(w, last, k) PROVE FALSE
        BY <2>3, <2>6, RecordedUnlessDeeper
      <4>2. k \notin (last + 1)..(n - 1) /\ IsRollBack(w[k]) /\ Slot[w[k].to_point] < Slot[p]
        BY <2>4, <4>1 DEF Deeper
      <4>3. n \in Active(w) /\ n \in 1..Len(w)
        BY <1>1, <2>3, <4>2
      <4>4. k # n /\ k \in (n + 1)..Len(w)
        BY <1>1, <2>3, <4>2, <4>3, ActiveFacts
      <4>5. Slot[p] < Slot[w[n].block]
        BY <2>3, <2>4, <2>6, <4>3 DEF LogOk, Deeper
      <4>6. Slot[w[k].to_point] \in Nat /\ Slot[w[n].block] \in Nat
        BY <4>2, <4>3, <4>4, ActiveFacts, RollBackFacts
      <4>7. Slot[w[k].to_point] < Slot[w[n].block]
        BY <3>1, <4>2, <4>5, <4>6
      <4>8. SupersededBy(w, n, Len(w))
        BY <4>2, <4>4, <4>7 DEF SupersededBy
      <4> QED
        BY <4>3, <4>8, ActiveFacts
    <3>3. g \in R
      <4>1. R \subseteq Nat /\ last \in Nat /\ \A l \in R : l <= last
        BY <2>3, ActiveFacts DEF Recorded
      <4> HIDE DEF R
      <4> QED
        BY <3>2, <4>1, GreatestIsMax
    <3>4. g \in Active(w) /\ g < last /\ w[g].block = p
      BY <3>3 DEF Recorded
    <3> HIDE DEF R, g
    <3>5. g \in Nat /\ last \in Nat /\ Slot[w[g].block] = Slot[p]
      BY <2>3, <3>4, ActiveFacts
    <3>6. ASSUME NEW k \in Active(w), k < n PROVE k < g + 1
      <4>1. k <= last /\ k # last /\ k \in Nat
        BY <1>2, <2>1, <3>1, <3>6, ActiveFacts
      <4>2. last \in (k + 1)..Len(w)
        BY <2>3, <4>1
      <4>3. ~(Slot[p] < Slot[w[k].block])
        BY <2>6, <4>2, ActiveFacts DEF SupersededBy
      <4>4. ~(g < k)
        BY <3>1, <3>4, <3>5, <4>3, ActiveFacts DEF LogOk
      <4> QED
        BY <3>5, <4>1, <4>4
    <3>7. \A k \in Active(w) : k < g + 1 => k < n
      BY <1>1, <2>3, <3>4, <3>5, ActiveFacts
    <3>8. Standing(w, n) = Standing(w, g + 1)
      BY <3>6, <3>7 DEF Standing
    <3>9. PrevPostFp(w, n) = w[g].post_fp
      BY <2>2, <3>1 DEF g, R
    <3> QED
      BY <3>4, <3>8, <3>9 DEF LogOk
  <2> QED
    BY <2>3, <2>5, <2>6
<1> QED
  BY <1>3, <1>4

\* Every block the log stands for stands before its end.
LEMMA StandingAll ==
    ASSUME NEW w \in Seq(LogEntries)
    PROVE  Standing(w, Len(w) + 1) = Effective(w)
<1>1. \A k \in Active(w) : k < Len(w) + 1
  BY ActiveFacts
<1> QED
  BY <1>1 DEF Standing, Effective

\* The walk ends at the fingerprint of the chain the log stands for.
LEMMA TailFpOfLog ==
    ASSUME NEW w \in Seq(LogEntries), LogOk(w)
    PROVE  TailFp(w) = Fingerprint(Effective(w))
<1>1. Len(w) + 1 \in 1..(Len(w) + 1)
  OBVIOUS
<1> QED
  BY <1>1, StandingAll, WalkStands DEF TailFp

\* compute_superseded and the walk accept a log the node wrote, and arrive at the
\* fingerprint of the chain it stands for, unless a RollBack is followed by a deeper one:
\* then the target of the first is no longer among the points recorded.
THEOREM WrittenLogReplays ==
    ASSUME NEW w \in Seq(LogEntries), LogOk(w)
    PROVE  /\ SupersedeOk(w)
           /\ TailFp(w) = Fingerprint(Effective(w))
           /\ \/ WalkOk(w)
              \/ \E j, k \in 1..Len(w) : j < k /\ IsRollBack(w[j]) /\ Deeper(w, j, k)
<1>1. SupersedeOk(w)
  <2> SUFFICES ASSUME NEW j \in 1..Len(w), IsRollBack(w[j])
               PROVE  \E i \in 1..(j - 1) : /\ IsAdmit(w[i]) /\ ~SupersededBy(w, i, j)
                                            /\ Slot[w[i].block] = Slot[w[j].to_point]
    BY DEF SupersedeOk
  <2>1. PICK i \in 1..(j - 1) : /\ IsAdmit(w[i]) /\ w[i].block = w[j].to_point
                                /\ ~SupersededBy(w, i, j)
    BY DEF LogOk
  <2> QED
    BY <2>1
<1>2. ASSUME NEW i \in Active(w) PROVE w[i].prior_fp = PrevPostFp(w, i)
  <2>1. i \in 1..(Len(w) + 1)
    BY ActiveFacts
  <2> QED
    BY <2>1, WalkStands DEF LogOk
<1>3. ASSUME ~WalkOk(w)
      PROVE  \E j, k \in 1..Len(w) : j < k /\ IsRollBack(w[j]) /\ Deeper(w, j, k)
  <2>1. PICK j \in 1..Len(w) : IsRollBack(w[j]) /\ Recorded(w, w[j].to_point, j) = {}
    BY <1>2, <1>3 DEF WalkOk
  <2>2. PICK k \in (j + 1)..Len(w) : Deeper(w, j, k)
    BY <2>1, RecordedUnlessDeeper
  <2>3. k \in 1..Len(w) /\ j < k
    BY <2>2
  <2> QED
    BY <2>1, <2>2, <2>3
<1> QED
  BY <1>1, <1>3, TailFpOfLog

\* An entry for a block above the chain the log stands for keeps the log's shape.
LEMMA LogAdmit ==
    ASSUME NEW w \in Seq(LogEntries), LogOk(w), NEW e \in LogEntries, IsAdmit(e),
           e.prior_fp = Fingerprint(Effective(w)),
           e.post_fp = Fingerprint(Effective(w) \cup {e.block}),
           \A c \in Effective(w) : Slot[c] < Slot[e.block]
    PROVE  LogOk(Append(w, e))
<1> DEFINE v == Append(w, e)
           n == Len(w)
<1>1. /\ v \in Seq(LogEntries) /\ n \in Nat /\ Len(v) = n + 1 /\ v[n + 1] = e
      /\ \A i \in 1..n : v[i] = w[i]
  BY AppendEntry
<1>2. Active(v) = Active(w) \cup {n + 1}
  BY ActiveAdmit
<1>3. \A i \in Active(w) : i \in 1..n /\ v[i] = w[i] /\ w[i].block \in Effective(w)
  BY <1>1, ActiveFacts DEF Effective
<1>4. Standing(w, n + 1) = Effective(w)
  BY StandingAll
<1> HIDE DEF v, n
<1>5. \A i, j \in Active(v) : i < j => Slot[v[i].block] < Slot[v[j].block]
  <2> SUFFICES ASSUME NEW i \in Active(v), NEW j \in Active(v), i < j
               PROVE  Slot[v[i].block] < Slot[v[j].block]
    OBVIOUS
  <2>1. i \in Active(w)
    BY <1>1, <1>2, <1>3
  <2> QED
    BY <1>1, <1>2, <1>3, <2>1 DEF LogOk
<1>6. ASSUME NEW m \in 1..(n + 1) PROVE Standing(v, m) = Standing(w, m)
  <2>1. \A k \in Active(v) : k < m => k \in Active(w)
    BY <1>1, <1>2
  <2>2. {k \in Active(v) : k < m} = {k \in Active(w) : k < m}
    BY <1>2, <2>1
  <2> QED
    BY <1>3, <2>2 DEF Standing
<1>7. Standing(v, n + 2) = Effective(w) \cup {e.block}
  <2>1. {k \in Active(v) : k < n + 2} = {k \in Active(w) : k < n + 1} \cup {n + 1}
    BY <1>1, <1>2, <1>3
  <2>2. Standing(v, n + 2) = {v[i].block : i \in {k \in Active(w) : k < n + 1} \cup {n + 1}}
    BY <2>1 DEF Standing
  <2>3. Standing(v, n + 2) = {w[i].block : i \in {k \in Active(w) : k < n + 1}} \cup {e.block}
    BY <1>1, <1>3, <2>2
  <2> QED
    BY <1>4, <2>3 DEF Standing
<1>8. ASSUME NEW i \in Active(v)
      PROVE  /\ v[i].prior_fp = Fingerprint(Standing(v, i))
             /\ v[i].post_fp = Fingerprint(Standing(v, i + 1))
  <2>1. CASE i \in Active(w)
    <3>1. i \in 1..(n + 1) /\ i + 1 \in 1..(n + 1) /\ v[i] = w[i]
      BY <1>1, <1>3, <2>1
    <3> QED
      BY <1>6, <2>1, <3>1 DEF LogOk
  <2>2. CASE i = n + 1
    <3>1. n + 1 \in 1..(n + 1) /\ (n + 1) + 1 = n + 2
      BY <1>1
    <3> QED
      BY <1>1, <1>4, <1>6, <1>7, <2>2, <3>1
  <2> QED
    BY <1>2, <2>1, <2>2
<1>9. ASSUME NEW j \in 1..Len(v), IsRollBack(v[j])
      PROVE  /\ \E i \in 1..(j - 1) : /\ IsAdmit(v[i]) /\ v[i].block = v[j].to_point
                                      /\ ~SupersededBy(v, i, j)
             /\ \A i \in Active(v) :
                   j < i => \/ Slot[v[j].to_point] < Slot[v[i].block]
                            \/ \E k \in (j + 1)..(i - 1) : Deeper(v, j, k)
  <2>1. j \in 1..n /\ v[j] = w[j]
    BY <1>1, <1>9, EntryFields
  <2>2. \A k \in 1..n : Deeper(v, j, k) <=> Deeper(w, j, k)
    BY <1>1, <2>1 DEF Deeper
  <2>3. \E i \in 1..(j - 1) : /\ IsAdmit(v[i]) /\ v[i].block = v[j].to_point
                              /\ ~SupersededBy(v, i, j)
    <3>1. PICK i \in 1..(j - 1) : /\ IsAdmit(w[i]) /\ w[i].block = w[j].to_point
                                  /\ ~SupersededBy(w, i, j)
      BY <1>9, <2>1 DEF LogOk, n
    <3>2. i \in 1..n /\ \A k \in (i + 1)..j : k \in 1..n
      BY <1>1, <2>1
    <3> QED
      BY <1>1, <2>1, <3>1, <3>2 DEF SupersededBy
  <2>4. ASSUME NEW i \in Active(v), j < i
        PROVE  \/ Slot[v[j].to_point] < Slot[v[i].block]
               \/ \E k \in (j + 1)..(i - 1) : Deeper(v, j, k)
    <3>1. CASE i \in Active(w)
      <4>1. i \in 1..n /\ \A k \in (j + 1)..(i - 1) : k \in 1..n
        BY <1>1, <1>3, <2>1, <3>1
      <4>2. \/ Slot[w[j].to_point] < Slot[w[i].block]
            \/ \E k \in (j + 1)..(i - 1) : Deeper(w, j, k)
        BY <1>9, <2>1, <2>4, <3>1 DEF LogOk, n
      <4> QED
        BY <1>1, <2>1, <2>2, <4>1, <4>2
    <3>2. CASE i = n + 1
      <4>1. CASE Recorded(w, w[j].to_point, j) # {}
        <5>1. w[j].to_point \in Effective(w)
          BY <4>1 DEF Recorded, Effective
        <5> QED
          BY <1>1, <2>1, <3>2, <5>1
      <4>2. CASE \E k \in (j + 1)..n : Deeper(w, j, k)
        <5>1. PICK k \in (j + 1)..n : Deeper(w, j, k)
          BY <4>2
        <5>2. k \in 1..n /\ k \in (j + 1)..(i - 1)
          BY <1>1, <2>1, <3>2
        <5> QED
          BY <2>2, <5>1, <5>2
      <4> QED
        BY <1>9, <2>1, <4>1, <4>2, RecordedUnlessDeeper DEF n
    <3> QED
      BY <1>2, <2>4, <3>1, <3>2
  <2> QED
    BY <2>3, <2>4
<1>10. LogOk(v)
  BY <1>5, <1>8, <1>9 DEF LogOk
<1> QED
  BY <1>10 DEF v

\* A RollBack to a block of the chain the log stands for keeps the log's shape.
LEMMA LogRollBack ==
    ASSUME NEW w \in Seq(LogEntries), LogOk(w), NEW e \in LogEntries, IsRollBack(e),
           e.to_point \in Effective(w)
    PROVE  LogOk(Append(w, e))
<1> DEFINE v == Append(w, e)
           n == Len(w)
           s == Slot[e.to_point]
<1>1. /\ v \in Seq(LogEntries) /\ n \in Nat /\ Len(v) = n + 1 /\ v[n + 1] = e
      /\ \A i \in 1..n : v[i] = w[i]
  BY AppendEntry
<1>2. Active(v) = {i \in Active(w) : Slot[w[i].block] <= s}
  BY ActiveRollBack
<1>3. s \in Nat /\ \A i \in Active(w) : i \in 1..n /\ v[i] = w[i] /\ Slot[w[i].block] \in Nat
  BY <1>1, ActiveFacts, EntryFields, SlotIsNat
<1> HIDE DEF v, n, s
<1>4. \A i, j \in Active(v) : i < j => Slot[v[i].block] < Slot[v[j].block]
  BY <1>2, <1>3 DEF LogOk
<1>5. ASSUME NEW i \in Active(v), NEW m, m = i \/ m = i + 1 PROVE Standing(v, m) = Standing(w, m)
  <2>1. i \in Active(w) /\ i \in 1..n /\ Slot[w[i].block] <= s
    BY <1>2, <1>3
  <2>2. ASSUME NEW k \in Active(w), k < m PROVE k \in Active(v)
    <3>1. k \in 1..n /\ k <= i
      BY <1>1, <1>3, <1>5, <2>1, <2>2
    <3>2. k = i \/ Slot[w[k].block] < Slot[w[i].block]
      BY <1>1, <2>1, <3>1 DEF LogOk
    <3> QED
      BY <1>2, <1>3, <2>1, <3>2
  <2>3. {k \in Active(v) : k < m} = {k \in Active(w) : k < m}
    BY <1>2, <2>2
  <2> QED
    BY <1>3, <2>3 DEF Standing
<1>6. ASSUME NEW i \in Active(v)
      PROVE  /\ v[i].prior_fp = Fingerprint(Standing(v, i))
             /\ v[i].post_fp = Fingerprint(Standing(v, i + 1))
  <2>1. i \in Active(w) /\ v[i] = w[i]
    BY <1>2, <1>3
  <2> QED
    BY <1>5, <2>1 DEF LogOk
<1>7. ASSUME NEW j \in 1..n, IsRollBack(v[j])
      PROVE  /\ \E i \in 1..(j - 1) : /\ IsAdmit(v[i]) /\ v[i].block = v[j].to_point
                                      /\ ~SupersededBy(v, i, j)
             /\ \A i \in Active(v) :
                   j < i => \/ Slot[v[j].to_point] < Slot[v[i].block]
                            \/ \E k \in (j + 1)..(i - 1) : Deeper(v, j, k)
  <2>1. v[j] = w[j] /\ \A k \in 1..n : Deeper(v, j, k) <=> Deeper(w, j, k)
    BY <1>1 DEF Deeper
  <2>2. \E i \in 1..(j - 1) : /\ IsAdmit(v[i]) /\ v[i].block = v[j].to_point
                              /\ ~SupersededBy(v, i, j)
    <3>1. PICK i \in 1..(j - 1) : /\ IsAdmit(w[i]) /\ w[i].block = w[j].to_point
                                  /\ ~SupersededBy(w, i, j)
      BY <1>7, <2>1 DEF LogOk, n
    <3>2. i \in 1..n /\ \A k \in (i + 1)..j : k \in 1..n
      BY <1>1
    <3> QED
      BY <1>1, <2>1, <3>1, <3>2 DEF SupersededBy
  <2>3. ASSUME NEW i \in Active(v), j < i
        PROVE  \/ Slot[v[j].to_point] < Slot[v[i].block]
               \/ \E k \in (j + 1)..(i - 1) : Deeper(v, j, k)
    <3>1. i \in Active(w) /\ i \in 1..n /\ v[i] = w[i]
      BY <1>2, <1>3
    <3>2. \/ Slot[w[j].to_point] < Slot[w[i].block]
          \/ \E k \in (j + 1)..(i - 1) : Deeper(w, j, k)
      BY <1>7, <2>1, <2>3, <3>1 DEF LogOk, n
    <3>3. \A k \in (j + 1)..(i - 1) : k \in 1..n
      BY <1>1, <3>1
    <3> QED
      BY <2>1, <3>1, <3>2, <3>3
  <2> QED
    BY <2>2, <2>3
<1>8. /\ \E i \in 1..((n + 1) - 1) : /\ IsAdmit(v[i]) /\ v[i].block = v[n + 1].to_point
                                     /\ ~SupersededBy(v, i, n + 1)
      /\ \A i \in Active(v) : ~(n + 1 < i)
  <2>1. PICK i \in Active(w) : w[i].block = e.to_point
    BY DEF Effective
  <2>2. i \in 1..n /\ i \in Active(v) /\ v[i] = w[i]
    BY <1>2, <1>3, <2>1 DEF s
  <2>3. ~SupersededBy(v, i, n + 1) /\ IsAdmit(v[i])
    BY <1>1, <2>2, ActiveFacts
  <2> QED
    BY <1>1, <1>2, <1>3, <2>1, <2>2, <2>3
<1>9. LogOk(v)
  <2>1. \A j \in 1..Len(v) : j \in 1..n \/ j = n + 1
    BY <1>1
  <2> QED
    BY <1>4, <1>6, <1>7, <1>8, <2>1 DEF LogOk
<1> QED
  BY <1>9 DEF v

\* Without rollbacks a block above the chain the log stands for is above its tail slot.
LEMMA TailSlotWithoutRollBacks ==
    ASSUME NEW w \in Seq(LogEntries), \A j \in 1..Len(w) : ~IsRollBack(w[j]),
           NEW b \in Blocks, \A c \in Effective(w) : Slot[c] < Slot[b]
    PROVE  WalTailSlot(w) \in Nat /\ WalTailSlot(w) < Slot[b]
<1> DEFINE admits == {i \in 1..Len(w) : IsAdmit(w[i])}
           g == Greatest(admits)
<1>1. CASE admits = {}
  <2>1. WalTailSlot(w) = 0
    BY <1>1 DEF WalTailSlot
  <2> QED
    BY <2>1, SlotIsNat
<1>2. CASE admits # {}
  <2>1. WalTailSlot(w) = Slot[w[g].block]
    BY <1>2 DEF WalTailSlot
  <2>2. g \in admits
    <3>1. admits \subseteq Nat /\ Len(w) \in Nat /\ \A i \in admits : i <= Len(w)
      OBVIOUS
    <3> HIDE DEF admits
    <3> QED
      BY <1>2, <3>1, GreatestIsMax
  <2> HIDE DEF g
  <2>3. g \in Active(w)
    BY <2>2 DEF Active, SupersededBy
  <2> QED
    BY <2>1, <2>3, ActiveFacts DEF Effective
<1> QED
  BY <1>1, <1>2

\* A log that replays and stands for no block is empty, and its tail slot is zero.
LEMMA NothingStands ==
    ASSUME NEW w \in Seq(LogEntries), WalkOk(w), Active(w) = {}
    PROVE  WalTailSlot(w) = 0 /\ \A j \in 1..Len(w) : ~IsRollBack(w[j])
<1>1. \A j \in 1..Len(w) : ~IsRollBack(w[j])
  BY DEF WalkOk, Recorded
<1>2. {i \in 1..Len(w) : IsAdmit(w[i])} = {}
  BY <1>1 DEF Active, SupersededBy
<1> QED
  BY <1>1, <1>2 DEF WalTailSlot

=============================================================================
