----------------------------- MODULE WalReplay ------------------------------
(***************************************************************************)
(* Replay of the write-ahead log (crates/ade_ledger/src/wal/replay.rs) as  *)
(* closed forms over the index set of the log.  The loops of the code are  *)
(* in WalReplayLoops; TLC checks that the two agree.                       *)
(*                                                                         *)
(* The two entry kinds that make no ledger transition, the seed-epoch      *)
(* provenance record and the epoch-view activation record, are left out:   *)
(* replay skips them on the fingerprint chain.                             *)
(***************************************************************************)
EXTENDS Chain, Sequences

AdmitBlock(prior, b, post) ==
    [kind |-> "AdmitBlock", prior_fp |-> prior, block |-> b, post_fp |-> post]

RollBack(p) == [kind |-> "RollBack", to_point |-> p]

IsAdmit(e) == e.kind = "AdmitBlock"
IsRollBack(e) == e.kind = "RollBack"

Fingerprints == [slot : Nat, utxo : SUBSET Blocks]

LogEntries ==
    [kind : {"AdmitBlock"}, prior_fp : Fingerprints, block : Blocks,
     post_fp : Fingerprints]
      \cup [kind : {"RollBack"}, to_point : Blocks]

\* Faulty: a RollBack undoes its own target too.
SupersededAtTarget(w, i, n) ==
    \E j \in (i + 1)..n : IsRollBack(w[j]) /\ Slot[w[j].to_point] <= Slot[w[i].block]

\* Entry i was admitted and a RollBack at an index up to n undid it.
SupersededBy(w, i, n) ==
    \E j \in (i + 1)..n : IsRollBack(w[j]) /\ Slot[w[j].to_point] < Slot[w[i].block]

\* The entries that compute_superseded leaves standing.
Active(w) ==
    {i \in 1..Len(w) : IsAdmit(w[i]) /\ ~SupersededBy(w, i, Len(w))}

\* The blocks the log says are on the node's chain.
Effective(w) == {w[i].block : i \in Active(w)}

\* compute_superseded finds, at every RollBack, an active entry at its slot.
SupersedeOk(w) ==
    \A j \in 1..Len(w) : IsRollBack(w[j]) =>
        \E i \in 1..(j - 1) : /\ IsAdmit(w[i])
                              /\ ~SupersededBy(w, i, j)
                              /\ Slot[w[i].block] = Slot[w[j].to_point]

Greatest(I) == CHOOSE i \in I : \A j \in I : j <= i

\* The active entries before n that admitted the point p: point_fp[p].
Recorded(w, p, n) == {i \in Active(w) : i < n /\ w[i].block = p}

\* Faulty: a RollBack does not re-anchor the chain.
PrevPostFpNoReanchor(w, n) ==
    LET admits == {i \in 1..(n - 1) : IsAdmit(w[i])}
    IN  IF admits = {} THEN Fingerprint({}) ELSE w[Greatest(admits)].post_fp

\* prev_post_fp as it stands when the walk reaches index n.
PrevPostFp(w, n) ==
    LET steps == {i \in 1..(n - 1) : i \in Active(w) \/ IsRollBack(w[i])}
        last  == Greatest(steps)
    IN  IF steps = {} THEN Fingerprint({})
        ELSE IF IsAdmit(w[last]) THEN w[last].post_fp
        ELSE w[Greatest(Recorded(w, w[last].to_point, last))].post_fp

\* replay_from_anchor reaches the end of the log.
WalkOk(w) ==
    /\ \A j \in 1..Len(w) :
          IsRollBack(w[j]) => Recorded(w, w[j].to_point, j) # {}
    /\ \A i \in Active(w) : w[i].prior_fp = PrevPostFp(w, i)

ReplayOk(w) == SupersedeOk(w) /\ WalkOk(w)

TailFp(w) == PrevPostFp(w, Len(w) + 1)

\* Faulty: one slot above the last AdmitBlock.
WalTailSlotPast(w) ==
    LET admits == {i \in 1..Len(w) : IsAdmit(w[i])}
    IN  1 + IF admits = {} THEN 0 ELSE Slot[w[Greatest(admits)].block]

\* The slot warm start trims the ChainDb to: that of the last AdmitBlock in
\* the log, whether or not a RollBack after it undid it.
WalTailSlot(w) ==
    LET admits == {i \in 1..Len(w) : IsAdmit(w[i])}
    IN  IF admits = {} THEN 0 ELSE Slot[w[Greatest(admits)].block]

=============================================================================
