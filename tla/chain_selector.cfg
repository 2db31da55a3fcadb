SPECIFICATION Spec
CONSTANTS
    Blocks = {"a1", "b1", "a2", "c3", "d3", "c5", "e5", "c6", "f6", "c9", "f9", "g9", "d9", "x7", "y2", "d6", "d10", "h7"}
    Anchor = "anchor"
    AnchorSlot = 0
    MaxSlot = 10
    Slot <- TreeSlot
    BlockNo <- TreeBlockNo
    Parent <- TreeParent
    TrackUtxo = TRUE
    EpochLength = 4
    Rsw = 2
    CertKey <- TreeKey
    Counter <- TreeCounter
    Unsound = {"y2"}
    SecurityParam = 2
    SnapshotLimit = 4
    View <- TreeView
INVARIANTS
    ChainDepOfTip
    SnapshotsOfChain
PROPERTIES
    OnlyExtensionsSelected
    RollbackDepthBounded
