--------------------------- MODULE WalReplayLoops ---------------------------
(***************************************************************************)
(* compute_superseded and replay_from_anchor as the loops the code runs,   *)
(* and the logs on which the closed forms of WalReplay are compared with   *)
(* them: a block is admitted above every block that still stands, as the   *)
(* header checks have it, but its fingerprints are arbitrary, and a        *)
(* RollBack names an arbitrary point.                                      *)
(***************************************************************************)
EXTENDS WalReplay, SequencesExt

CONSTANT MaxEntries   \* bound: entries of a log

ASSUME MaxEntriesAssumption == MaxEntries \in Nat

\* The stack after a RollBack to slot s pops every top entry above s.
PopAbove(w, active, s) ==
    LET kept == {n \in 0..Len(active) : n > 0 => Slot[w[active[n]].block] <= s}
    IN  SubSeq(active, 1, Greatest(kept))

\* One turn of the loop of compute_superseded; once it has failed it stays so.
SupersedeStep(w, acc, i) ==
    IF ~acc.ok THEN acc
    ELSE IF IsAdmit(w[i]) THEN [acc EXCEPT !.active = Append(@, i)]
    ELSE LET to   == Slot[w[i].to_point]
             kept == PopAbove(w, acc.active, to)
             n    == Len(kept)
         IN  [active |-> kept, ok |-> n > 0 /\ Slot[w[kept[n]].block] = to]

Indices(w) == [i \in 1..Len(w) |-> i]

ComputeSuperseded(w) ==
    FoldLeft(LAMBDA acc, i : SupersedeStep(w, acc, i),
             [active |-> <<>>, ok |-> TRUE], Indices(w))

\* Faulty: looks a RollBack's target up by slot, not by point.
ReplayStepBySlot(w, active, acc, i) ==
    IF ~acc.ok \/ (IsAdmit(w[i]) /\ i \notin active) THEN acc
    ELSE IF IsAdmit(w[i])
    THEN [ok     |-> w[i].prior_fp = acc.prev,
          prev   |-> w[i].post_fp,
          points |-> [p \in DOMAIN acc.points \cup {w[i].block} |->
                         IF p = w[i].block THEN w[i].post_fp ELSE acc.points[p]]]
    ELSE LET same == {p \in DOMAIN acc.points : Slot[p] = Slot[w[i].to_point]}
         IN  IF same # {}
             THEN [acc EXCEPT !.prev = acc.points[CHOOSE p \in same : TRUE]]
             ELSE [acc EXCEPT !.ok = FALSE]

\* One turn of the main walk: prev is prev_post_fp, points is point_fp.
ReplayStep(w, active, acc, i) ==
    IF ~acc.ok \/ (IsAdmit(w[i]) /\ i \notin active) THEN acc
    ELSE IF IsAdmit(w[i])
    THEN [ok     |-> w[i].prior_fp = acc.prev,
          prev   |-> w[i].post_fp,
          points |-> [p \in DOMAIN acc.points \cup {w[i].block} |->
                         IF p = w[i].block THEN w[i].post_fp ELSE acc.points[p]]]
    ELSE IF w[i].to_point \in DOMAIN acc.points
    THEN [acc EXCEPT !.prev = acc.points[w[i].to_point]]
    ELSE [acc EXCEPT !.ok = FALSE]

ReplayFromAnchor(w) ==
    LET active == Range(ComputeSuperseded(w).active)
    IN  FoldLeft(LAMBDA acc, i : ReplayStep(w, active, acc, i),
                 [ok |-> TRUE, prev |-> Fingerprint({}), points |-> <<>>],
                 Indices(w))

-----------------------------------------------------------------------------

VARIABLE log

\* Two fingerprints tell a chain that links from one that does not.
Fps == {Fingerprint({}), Fingerprint(Blocks)}

Init == log = <<>>

LogAdmit(b) ==
    /\ Len(log) < MaxEntries
    /\ ExtendsState(Effective(log), b)
    /\ \E prior, post \in Fps : log' = Append(log, AdmitBlock(prior, b, post))

LogRollBack(b) ==
    /\ Len(log) < MaxEntries
    /\ log' = Append(log, RollBack(b))

Next == \E b \in Blocks : LogAdmit(b) \/ LogRollBack(b)

Spec == Init /\ [][Next]_log

-----------------------------------------------------------------------------

\* compute_superseded fails exactly when some RollBack has no standing entry at
\* its slot; otherwise the entries it leaves on its stack are those that no
\* later RollBack undid.
SupersedeAgrees ==
    LET loop == ComputeSuperseded(log)
    IN  /\ loop.ok = SupersedeOk(log)
        /\ loop.ok => Range(loop.active) = Active(log)

\* replay_from_anchor fails exactly when the closed forms say so, and ends at
\* the fingerprint they give.
ReplayAgrees ==
    SupersedeOk(log) =>
        LET loop == ReplayFromAnchor(log)
        IN  /\ loop.ok = WalkOk(log)
            /\ loop.ok => loop.prev = TailFp(log)

\* DC-WAL-02, DC-CONS-06: a log that replays ends at the post_fp of the standing
\* block with the greatest slot, however many rollbacks and re-admissions of
\* the same block it went through: the fingerprint of an abandoned branch is
\* never the tail.
TailIsTheTip ==
    ReplayOk(log) /\ Active(log) # {} =>
        LET tip == Greatest(Active(log))
        IN  TailFp(log) = log[tip].post_fp

=============================================================================
