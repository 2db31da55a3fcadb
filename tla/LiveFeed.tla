------------------------------ MODULE LiveFeed ------------------------------
(***************************************************************************)
(* The live feed of the relay loop (spawn_live_wire_pump_source): for each *)
(* peer a supervisor that dials, runs a session of the wire pump, forwards *)
(* its events to the peer's lane and reconnects; the fair merge of the     *)
(* lanes; and the relay loop that reads the merged channel and may stall.  *)
(*                                                                         *)
(* Lane 0 is a peer in full.  The peers of the other lanes are busy ones,  *)
(* always ready to fill their lanes again until they are dropped.          *)
(***************************************************************************)
EXTENDS WirePump, FairMerge

VARIABLES
    established,  \* some dial succeeded
    resume,       \* where the next session starts: the last block forwarded
    fed,          \* the point the events forwarded so far lead to
    behind,       \* a session resumed from another point than that
    cursor        \* the point the events read so far lead to

superVars == <<established, resume, fed, behind>>
vars == <<wireVars, mergeVars, superVars, cursor>>

Init ==
    /\ WireInit /\ MergeInit
    /\ established = FALSE /\ resume = Anchor
    /\ fed = Anchor /\ behind = FALSE /\ cursor = Anchor

\* The point after an event.
Follow(p, e) == IF e.kind \in {"Block", "RollBackward"} THEN e.point ELSE p

-----------------------------------------------------------------------------
(* The supervisor of lane 0.                                                 *)

Dial ==
    /\ phase = "dial"
    /\ phase' = "run" /\ open' = TRUE /\ result' = "none"
    /\ asked' = {Frame("FindIntersect", resume)}
    /\ established' = TRUE
    /\ UNCHANGED <<head, ptr, opening, wire, pumpVars, events, skipped, strayed, faults,
                   mergeVars, resume, fed, behind, cursor>>

\* A first dial that fails drops the peer; a later one is tried again.
DialFails ==
    /\ phase = "dial" /\ Fault
    /\ phase' = IF established THEN "dial" ELSE "stopped"
    /\ closed' = IF established THEN closed ELSE closed \cup {0}
    /\ UNCHANGED <<peerVars, wire, open, pumpVars, events, result, skipped, strayed, lanes, start,
                   merged, merging, superVars, cursor>>

\* The resume point follows the blocks; a rollback leaves it where it is.
ResumeAfter(e) == IF e.kind = "Block" THEN e.point ELSE resume

\* One event of the session: to the lane, and blocks noted; Disconnected is dropped.
Forward ==
    /\ events # <<>>
    /\ LET e == Head(events) IN
       IF e.kind = "Disconnected"
       THEN UNCHANGED <<lanes, resume, fed>>
       ELSE Send(0, e) /\ resume' = ResumeAfter(e) /\ fed' = Follow(fed, e)
    /\ events' = Tail(events)
    /\ UNCHANGED <<peerVars, wire, open, phase, pumpVars, result, skipped, strayed, faults,
                   closed, start, merged, merging, established, behind, cursor>>

ShouldReconnectAfter(r) == r \in {"Eof", "TransportWrite"}

\* The session is over and its channel drained.
SessionOver ==
    /\ phase = "ended" /\ events = <<>>
    /\ IF ShouldReconnectAfter(result)
       THEN /\ phase' = "dial"
            /\ behind' = (behind \/ resume # fed)
            /\ UNCHANGED closed
       ELSE /\ phase' = "stopped"
            /\ closed' = closed \cup {0}
            /\ UNCHANGED behind
    /\ UNCHANGED <<peerVars, wire, open, pumpVars, events, result, skipped, strayed, faults, lanes,
                   start, merged, merging, established, resume, fed, cursor>>

-----------------------------------------------------------------------------
(* The other lanes, and the reader.                                          *)

BusyPeer(i) ==
    /\ i \notin closed
    /\ \/ Send(i, Event("TipUpdate", Origin)) /\ UNCHANGED closed
       \/ closed' = closed \cup {i} /\ UNCHANGED lanes
    /\ UNCHANGED <<wireVars, start, merged, merging, superVars, cursor>>

\* pump_lookahead and next_item: the relay loop reads the next event.
ReadFeed ==
    /\ merged # <<>>
    /\ merged' = Tail(merged)
    /\ cursor' = IF Head(merged).peer = 0 THEN Follow(cursor, Head(merged).event)
                 ELSE cursor
    /\ UNCHANGED <<wireVars, lanes, closed, start, merging, superVars>>

\* The feed has ended, and so does the relay loop.
FeedEnded ==
    /\ ~merging /\ merged = <<>>
    /\ UNCHANGED vars

Wire(A) == A /\ UNCHANGED <<mergeVars, superVars, cursor>>
Merging(A) == A /\ UNCHANGED <<wireVars, superVars, cursor>>

Next ==
    \/ Wire(PeerMoves) \/ Wire(AnswerFindIntersect) \/ Wire(AnswerRequestNext)
    \/ Wire(AnswerRange) \/ Wire(AnswerKeepAlive) \/ Wire(OutOfProtocol) \/ Wire(Lose)
    \/ Wire(Dispatch) \/ Wire(ReadChunk) \/ Wire(ReadWhileWaiting)
    \/ Wire(ReadEof) \/ Wire(KeepAliveTick) \/ Wire(Emit) \/ Wire(Finalize)
    \/ Dial \/ DialFails \/ Forward \/ SessionOver
    \/ Merging(Merge) \/ Merging(MergeEnds)
    \/ \E i \in Lanes \ {0} : BusyPeer(i)
    \/ ReadFeed \/ FeedEnded

\* Every task runs on, and each arm of a select! that stays ready is taken; a peer
\* answers while the connection is up.  Nothing is asked of the relay loop.
Fairness ==
    /\ WF_vars(Wire(AnswerFindIntersect)) /\ WF_vars(Wire(AnswerRequestNext))
    /\ WF_vars(Wire(AnswerRange)) /\ WF_vars(Wire(AnswerKeepAlive))
    /\ WF_vars(Wire(Dispatch)) /\ WF_vars(Wire(ReadChunk))
    /\ WF_vars(Wire(ReadWhileWaiting)) /\ WF_vars(Wire(ReadEof))
    /\ WF_vars(Wire(KeepAliveTick)) /\ WF_vars(Wire(Emit)) /\ WF_vars(Wire(Finalize))
    /\ WF_vars(Dial) /\ WF_vars(Forward) /\ WF_vars(SessionOver)
    /\ WF_vars(Merging(Merge)) /\ WF_vars(Merging(MergeEnds))

Spec == Init /\ [][Next]_vars /\ Fairness

-----------------------------------------------------------------------------
(* Properties.                                                               *)

\* What the relay loop reads of a peer is a walk on the chain: a block extends the
\* point before it, and a rollback goes back from there, across sessions and whatever
\* was lost with one (INV-WL-2, INV-WL-7); unless the peer could not serve a body it
\* had announced, or a session resumed from another point than the feed had reached.
FeedLinked ==
    [][ merged # <<>> /\ merged' = Tail(merged) /\ Head(merged).peer = 0
          /\ ~skipped /\ ~behind =>
        LET e == Head(merged).event IN
        /\ e.kind = "Block" => Parent[e.point] = cursor
        /\ e.kind = "RollBackward" => e.point \in Ancestors(cursor) \cup {cursor}
      ]_vars

\* A peer that keeps to the protocols is never dropped for the frames it sent while
\* the pump waited for room: nothing new is asked then (INV-WL-3, INV-WL-4).
DeferralFits == result = "DeferredFrameOverflow" => strayed

\* While the pump waits for room in a full channel its keep-alive comes round again,
\* however long the relay loop stalls (INV-WL-1), or its answer is in a chunk that was
\* read before the wait began.
KeepAliveInFlight == phase = "run" /\ keepAlive = "ServerHasAgency"
AnswerBehind == \E i \in 1..Len(pending) : IsKeepAlive(pending[i])

KeepAliveServed == []<>(~KeepAliveInFlight \/ AnswerBehind)

\* INV-WL-1 as it is written: no stall of the consumer, of any duration or cause,
\* keeps the pump from having its keep-alive answered.
KeepAliveLive == []<>~KeepAliveInFlight

\* The relay loop does not stop reading.
ReaderRuns == []<>(merged = <<>>)

\* A lane with an event is served however busy the other peers are, if the relay loop
\* reads at all (DC-PUMP-04).
LaneServed ==
    ReaderRuns => \A i \in Lanes : []<>(Len(lanes[i]) < LaneCap)

\* What the relay loop has read comes to the tip of the peer's chain, through lost
\* connections and rollbacks, unless the peer was dropped.
CatchesUp == ReaderRuns => <>[](phase = "stopped" \/ cursor = head)

=============================================================================
