------------------------------ MODULE FairMerge ------------------------------
(***************************************************************************)
(* One bounded lane per peer, and the task that merges the lanes into the  *)
(* channel the relay loop reads (ade_node fair_merge.rs).                  *)
(***************************************************************************)
EXTENDS Naturals, Sequences

CONSTANTS
    NumLanes,   \* how many peers are configured
    LaneCap,    \* PER_PEER_LANE_CAP
    MergedCap   \* LIVE_WIRE_PUMP_CHANNEL_CAP

ASSUME LaneAssumption == /\ NumLanes \in Nat \ {0}
                         /\ LaneCap \in Nat \ {0} /\ MergedCap \in Nat \ {0}

Lanes == 0..NumLanes - 1

VARIABLES
    lanes,      \* lanes[i]: the events of peer i not yet merged
    closed,     \* the lanes whose sender is gone
    start,      \* the lane fair_recv asks first
    merged,     \* the merged channel: events with their peers
    merging     \* fair_merge has not returned

mergeVars == <<lanes, closed, start, merged, merging>>

MergeInit ==
    /\ lanes = [i \in Lanes |-> <<>>]
    /\ closed = {}
    /\ start = 0
    /\ merged = <<>>
    /\ merging = TRUE

Send(i, e) == /\ Len(lanes[i]) < LaneCap
              /\ lanes' = [lanes EXCEPT ![i] = Append(@, e)]

\* The lanes with an event, and how far the rotation is from each.
Ready == {i \in Lanes : lanes[i] # <<>>}
Distance(i) == (i + NumLanes - start) % NumLanes

\* Faulty: the next round begins at the lane just served.
RotateNot(i) == i

RotatePast(i) == (i + 1) % NumLanes

\* fair_recv takes from the first ready lane of the rotation, and fair_merge sends.
Serve(i) ==
    /\ \A j \in Ready : Distance(i) <= Distance(j)
    /\ merged' = Append(merged, [peer |-> i, event |-> Head(lanes[i])])
    /\ lanes' = [lanes EXCEPT ![i] = Tail(@)]
    /\ start' = RotatePast(i)

Merge ==
    /\ merging /\ Len(merged) < MergedCap
    /\ \E i \in Ready : Serve(i)
    /\ UNCHANGED <<closed, merging>>

\* Every lane has been retired.
MergeEnds ==
    /\ merging /\ Ready = {} /\ closed = Lanes
    /\ merging' = FALSE
    /\ UNCHANGED <<lanes, closed, start, merged>>

=============================================================================
