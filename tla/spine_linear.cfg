SPECIFICATION FairSpec
CONSTANTS
    Blocks = {"a1", "a2", "a3", "a4", "a5"}
    Anchor = "anchor"
    AnchorSlot = 0
    MaxSlot = 8
    Slot <- LinearSlot
    BlockNo <- LinearBlockNo
    Parent <- LinearParent
    TrackUtxo = FALSE
    CadenceSlots = 2
    RetainLatest = 1
    MaxRollBacks = 0
    MaxCrashes = 2
    None = "none"
CHECK_DEADLOCK FALSE
INVARIANT DbMatchesWal
INVARIANT SnapshotsFaithful
INVARIANT FollowsPeer
PROPERTY RecoveryCompletes
PROPERTY ImplementsDurableChain
