SPECIFICATION FeedSpec
CONSTANTS
    Blocks = {"a1", "a2", "b2", "b3"}
    Anchor = "anchor"
    AnchorSlot = 0
    MaxSlot = 4
    Slot <- ForkSlot
    BlockNo <- ForkBlockNo
    Parent <- ForkParent
    TrackUtxo = TRUE
    SecurityParam = 2
    Peers = {1, 2}
    View <- ForkView
    Body <- ForkBody
    Reaches <- ForkReaches
    Invalid = {}
    Own = {}
    MaxFaults = 0
PROPERTY
    Converges
CHECK_DEADLOCK FALSE
