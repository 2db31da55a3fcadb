SPECIFICATION FairSpec
CONSTANTS
    Blocks = {"a1", "a2", "a3", "b2", "b3", "c3", "x3", "b4"}
    Anchor = "anchor"
    AnchorSlot = 0
    MaxSlot = 7
    Slot <- TreeSlot
    BlockNo <- TreeBlockNo
    Parent <- TreeParent
    TrackUtxo = TRUE
    SecurityParam = 2
    Peers = {1, 2}
    View <- TreeView
    Body <- TreeBody
    Reaches <- TreeReaches
    Invalid = {"b4"}
    Own = {"a3"}
    MaxFaults = 1
INVARIANTS
    DurableChainLinked
    NeverAbandon
    DecisionIsBest
PROPERTIES
    FreshSwitchImproves
    FenceHolds
    SyncPassEnds
CHECK_DEADLOCK FALSE
