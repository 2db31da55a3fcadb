SPECIFICATION Spec
CONSTANTS
    Blocks = {"a1", "b1", "a2"}
    Anchor = "anchor"
    AnchorSlot = 0
    MaxSlot = 3
    Slot <- TreeSlot
    BlockNo <- TreeBlockNo
    Parent <- TreeParent
    TrackUtxo = FALSE
    Origin = "origin"
    Moves <- PeerPath
    EventsCap = 1
    MaxDeferred = 2
    MaxFaults = 0
    NumLanes = 2
    LaneCap = 1
    MergedCap = 1
PROPERTY KeepAliveLive
