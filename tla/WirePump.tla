------------------------------ MODULE WirePump ------------------------------
(***************************************************************************)
(* One session of the admission wire pump (ade_runtime wire_pump.rs) with  *)
(* one upstream peer: chain-sync and block-fetch in lock step, and the     *)
(* keep-alive client that has to stay alive while the pump waits for room  *)
(* in the channel of its events.                                           *)
(*                                                                         *)
(* The peer is external.  It answers each request in turn over one ordered *)
(* stream of frames; it may move to a better chain at any time, send what  *)
(* the protocols do not allow, or go away.                                 *)
(***************************************************************************)
EXTENDS Chain, SequencesExt

CONSTANTS
    Origin,        \* the point before the first block
    Moves,         \* the pairs <<b, c>> such that a peer at b may move to c
    EventsCap,     \* capacity of events_out
    MaxDeferred,   \* MAX_DEFERRED_PEER_FRAMES
    MaxFaults      \* bound: connections lost or refused, and frames out of protocol

ASSUME WireAssumption ==
    /\ Origin \notin Blocks \cup {Anchor}
    /\ Moves \subseteq (Blocks \cup {Anchor}) \X Blocks
    /\ EventsCap \in Nat \ {0} /\ MaxDeferred \in Nat /\ MaxFaults \in Nat

VARIABLES
    head,       \* the tip of the peer's chain
    ptr,        \* the peer's chain-sync read pointer
    opening,    \* the peer has yet to roll back to the intersection
    asked,      \* the requests the peer has not answered
    wire,       \* the frames on their way to the pump
    open,       \* the connection is up
    phase,      \* "dial", "run", "ending" (finalize), "ended" or "stopped"
    keepAlive,  \* KeepAliveLane.state
    pending,    \* pending_frames
    emitting,   \* the events of the frame dispatched last, not yet sent
    outbox,     \* outbox_payloads
    events,     \* the channel events_out
    result,     \* the AdmissionWirePumpResult
    skipped,    \* a body asked for was not served
    strayed,    \* the peer sent a frame the protocols do not allow
    faults

peerVars == <<head, ptr, opening, asked>>
pumpVars == <<keepAlive, pending, emitting, outbox>>
wireVars == <<peerVars, wire, open, phase, pumpVars, events, result, skipped, strayed,
              faults>>

Frame(m, p) == [msg |-> m, point |-> p]
Event(k, p) == [kind |-> k, point |-> p]

WireInit ==
    /\ head = Anchor /\ ptr = Anchor /\ opening = FALSE /\ asked = {}
    /\ wire = <<>> /\ open = FALSE /\ phase = "dial"
    /\ keepAlive = "ClientIdle" /\ pending = <<>> /\ emitting = <<>> /\ outbox = <<>>
    /\ events = <<>> /\ result = "none" /\ skipped = FALSE
    /\ strayed = FALSE /\ faults = 0

Fault == faults < MaxFaults /\ faults' = faults + 1

-----------------------------------------------------------------------------
(* The peer.                                                                 *)

PeerMoves ==
    /\ \E b \in Blocks : <<head, b>> \in Moves /\ head' = b
    /\ UNCHANGED <<ptr, opening, asked, wire, open, phase, pumpVars, events, result,
                   skipped, strayed, faults>>

OnChain(p) == p \in Lineage(head) \cup {Anchor}

\* The peer answers a request with some frames.  AwaitReply and StartBatch, of which
\* the pump takes no notice, are left out.
Answers(req, frames) ==
    /\ req \in asked
    /\ asked' = asked \ {req}
    /\ wire' = wire \o frames
    /\ UNCHANGED <<head, open, phase, pumpVars, events, result, skipped, strayed, faults>>

AnswerFindIntersect ==
    \E r \in asked :
       /\ r.msg = "FindIntersect"
       /\ Answers(r, <<Frame(IF OnChain(r.point) THEN "IntersectFound"
                                 ELSE "IntersectNotFound", r.point)>>)
       /\ ptr' = IF OnChain(r.point) THEN r.point ELSE Origin
       /\ opening' = TRUE

\* The blocks that follow the read pointer, and where the chain it was read from
\* meets the present one.
NextOf(p) == {b \in Lineage(head) : Parent[b] = p}
Meet(p) == TipPoint(Lineage(p) \cap Lineage(head))

\* Where the peer sends the pump back to.
RollBackPoint == IF ptr = Origin \/ OnChain(ptr) THEN ptr ELSE Meet(ptr)

AnswerRequestNext ==
    \E r \in asked :
       /\ r.msg = "RequestNext"
       /\ \/ /\ opening \/ ~OnChain(ptr)
             /\ Answers(r, <<Frame("RollBackward", RollBackPoint)>>)
             /\ ptr' = RollBackPoint /\ opening' = FALSE
          \/ /\ ~opening
             /\ \E b \in NextOf(ptr) :
                   Answers(r, <<Frame("RollForward", b)>>) /\ ptr' = b
             /\ UNCHANGED opening

AnswerRange ==
    \E r \in asked :
       /\ r.msg = "RequestRange"
       /\ Answers(r, IF OnChain(r.point)
                         THEN <<Frame("Block", r.point), Frame("BatchDone", r.point)>>
                         ELSE <<Frame("NoBlocks", r.point)>>)
       /\ UNCHANGED <<ptr, opening>>

AnswerKeepAlive ==
    \E r \in asked :
       /\ r.msg = "KeepAlive"
       /\ Answers(r, <<Frame("ResponseKeepAlive", Origin)>>)
       /\ UNCHANGED <<ptr, opening>>

OutOfProtocol ==
    /\ Fault /\ open
    /\ wire' = Append(wire, Frame("Unexpected", Origin))
    /\ strayed' = TRUE
    /\ UNCHANGED <<peerVars, open, phase, pumpVars, events, result, skipped>>

\* The peer keeps nothing of a connection that is gone.
Forget == ptr' = Anchor /\ opening' = FALSE /\ asked' = {}

\* The connection is lost, and the frames under way with it from some point on.
Lose ==
    /\ Fault /\ open
    /\ open' = FALSE
    /\ Forget
    /\ \E n \in 0..Len(wire) : wire' = SubSeq(wire, 1, n)
    /\ UNCHANGED <<head, phase, pumpVars, events, result, skipped, strayed>>

-----------------------------------------------------------------------------
(* The pump.                                                                 *)

Reading == phase = "run" /\ emitting = <<>> /\ pending = <<>>
Waiting == phase = "run" /\ emitting # <<>>

\* The session ends: what was not sent is dropped, and finalize follows.
EndSession(r) ==
    /\ phase' = "ending"
    /\ result' = r
    /\ pending' = <<>> /\ emitting' = <<>> /\ outbox' = <<>>

\* flush_outbound: requests are written, to no end if the connection is gone, which
\* the pump may find out.
Write(reqs) ==
    /\ asked' = IF open THEN asked \cup ToSet(reqs) ELSE asked
    /\ UNCHANGED <<phase, result>>

WriteFails(reqs) ==
    /\ ~open /\ reqs # <<>>
    /\ EndSession("TransportWrite")
    /\ UNCHANGED asked

\* Faulty: a rollback is told as a new tip only.
EventsTipOnly(f) ==
    IF f.msg \in {"IntersectFound", "IntersectNotFound", "RollForward", "RollBackward"}
    THEN <<Event("TipUpdate", Origin)>>
    ELSE IF f.msg = "Block" THEN <<Event("Block", f.point)>>
    ELSE <<>>

\* handle_chain_sync and handle_block_fetch: what a frame is turned into, ...
EventsOf(f) ==
    IF f.msg \in {"IntersectFound", "IntersectNotFound", "RollForward"}
    THEN <<Event("TipUpdate", Origin)>>
    ELSE IF f.msg = "RollBackward" THEN <<Event("RollBackward", f.point)>>
    ELSE IF f.msg = "Block" THEN <<Event("Block", f.point)>>
    ELSE <<>>

\* Faulty: the next header is asked for along with the body.
RequestsPipelined(f) ==
    IF f.msg = "RollForward"
    THEN <<Frame("RequestRange", f.point), Frame("RequestNext", Origin)>>
    ELSE IF f.msg \in {"IntersectFound", "IntersectNotFound", "RollBackward",
                       "NoBlocks", "BatchDone"}
    THEN <<Frame("RequestNext", Origin)>>
    ELSE <<>>

\* Faulty: a body that is not served leaves the stream where it is.
RequestsNotAfterNoBlocks(f) ==
    IF f.msg = "RollForward" THEN <<Frame("RequestRange", f.point)>>
    ELSE IF f.msg \in {"IntersectFound", "IntersectNotFound", "RollBackward", "BatchDone"}
    THEN <<Frame("RequestNext", Origin)>>
    ELSE <<>>

\* ... what is asked next, ...
RequestsOf(f) ==
    IF f.msg = "RollForward" THEN <<Frame("RequestRange", f.point)>>
    ELSE IF f.msg \in {"IntersectFound", "IntersectNotFound", "RollBackward",
                       "NoBlocks", "BatchDone"}
    THEN <<Frame("RequestNext", Origin)>>
    ELSE <<>>

\* ... and whether it ends the session.
ErrorOf(f) ==
    IF f.msg = "Unexpected" THEN "UnexpectedProtocolMessage"
    ELSE IF f.msg = "RollBackward" /\ f.point = Origin THEN "UnsupportedRollbackPoint"
    ELSE "none"

IsKeepAlive(f) == f.msg = "ResponseKeepAlive"

\* dispatch_peer_frame, for one frame at a time.  What it asks is written after its
\* event is sent.
Dispatch ==
    /\ phase = "run" /\ emitting = <<>> /\ pending # <<>>
    /\ LET f == Head(pending) IN
       /\ keepAlive' = IF IsKeepAlive(f) THEN "ClientIdle" ELSE keepAlive
       /\ skipped' = (skipped \/ f.msg = "NoBlocks")
       /\ \/ /\ ErrorOf(f) = "none" /\ EventsOf(f) # <<>>
             /\ pending' = Tail(pending)
             /\ emitting' = EventsOf(f) /\ outbox' = RequestsOf(f)
             /\ UNCHANGED <<phase, result, asked>>
          \/ /\ ErrorOf(f) = "none" /\ EventsOf(f) = <<>>
             /\ \/ /\ Write(RequestsOf(f))
                   /\ pending' = Tail(pending)
                   /\ UNCHANGED <<emitting, outbox>>
                \/ WriteFails(RequestsOf(f))
          \/ /\ ErrorOf(f) # "none" /\ EndSession(ErrorOf(f))
             /\ UNCHANGED asked
    /\ UNCHANGED <<head, ptr, opening, wire, open, events, strayed, faults>>

\* The next chunk of the stream, of one frame or more.
ReadChunk ==
    /\ Reading
    /\ \E n \in 1..Len(wire) :
          /\ pending' = SubSeq(wire, 1, n)
          /\ wire' = SubSeq(wire, n + 1, Len(wire))
    /\ UNCHANGED <<peerVars, open, phase, keepAlive, emitting, outbox, events, result,
                   skipped, strayed, faults>>

\* Faulty: while it waits for room the pump does not read.
ReadWhileWaitingNever ==
    /\ FALSE
    /\ UNCHANGED wireVars

\* The same while it waits for room: a keep-alive answer is taken at once, the rest
\* is deferred, up to the cap.
ReadWhileWaiting ==
    /\ Waiting
    /\ \E n \in 1..Len(wire) :
       LET chunk == SubSeq(wire, 1, n)
           deferred == SelectSeq(chunk, LAMBDA f : ~IsKeepAlive(f))
       IN
       /\ wire' = SubSeq(wire, n + 1, Len(wire))
       /\ keepAlive' = IF deferred # chunk THEN "ClientIdle" ELSE keepAlive
       /\ IF Len(pending) + Len(deferred) > MaxDeferred
          THEN EndSession("DeferredFrameOverflow")
          ELSE /\ pending' = pending \o deferred
               /\ UNCHANGED <<phase, result, emitting, outbox>>
    /\ UNCHANGED <<peerVars, open, events, skipped, strayed, faults>>

\* The stream has ended; an event that waits for room is lost with the session.
ReadEof ==
    /\ Reading \/ Waiting
    /\ ~open /\ wire = <<>>
    /\ EndSession("Eof")
    /\ UNCHANGED <<peerVars, wire, open, keepAlive, events, skipped, strayed, faults>>

\* keep_alive_cadence_send; the timer fires only where the pump waits.
KeepAliveTick ==
    /\ Reading \/ Waiting
    /\ keepAlive = "ClientIdle"
    /\ \/ /\ Write(<<Frame("KeepAlive", Origin)>>)
          /\ keepAlive' = "ServerHasAgency"
          /\ UNCHANGED <<pending, emitting, outbox>>
       \/ WriteFails(<<Frame("KeepAlive", Origin)>>) /\ UNCHANGED keepAlive
    /\ UNCHANGED <<head, ptr, opening, wire, open, events, skipped, strayed, faults>>

\* emit_cooperative has a permit.  A frame makes one event at most, so the outbox is
\* flushed next.
Emit ==
    /\ Waiting /\ Len(events) < EventsCap
    /\ events' = events \o emitting
    /\ \/ /\ Write(outbox)
          /\ emitting' = <<>> /\ outbox' = <<>>
          /\ UNCHANGED pending
       \/ WriteFails(outbox)
    /\ UNCHANGED <<head, ptr, opening, wire, open, keepAlive, skipped, strayed, faults>>

Finalize ==
    /\ phase = "ending" /\ Len(events) < EventsCap
    /\ events' = Append(events, Event("Disconnected", Origin))
    /\ phase' = "ended"
    /\ open' = FALSE /\ wire' = <<>> /\ Forget
    /\ keepAlive' = "ClientIdle"
    /\ UNCHANGED <<head, pending, emitting, outbox, result, skipped, strayed, faults>>

=============================================================================
