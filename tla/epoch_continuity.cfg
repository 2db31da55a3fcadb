SPECIFICATION FairSpec
CONSTANTS
    Blocks = {"a1", "a2", "b2", "b3", "a4", "b4", "a5", "a6", "c6", "d6", "a8", "d8", "y4", "z8"}
    Anchor = "anchor"
    AnchorSlot = 0
    MaxSlot = 9
    Slot <- TreeSlot
    BlockNo <- TreeBlockNo
    Parent <- TreeParent
    TrackUtxo = TRUE
    EpochLength = 4
    SecurityParam = 1
    Collateral = {"b3", "c6", "a8", "d8"}
    MaxRollBacks = 2
    MaxCrashes = 1
INVARIANTS
    CertifiedOnChain
    RecoveryAdmitted
    LeadershipFaithful
    CheckpointOnChain
    AuthorityAtTip
    RecoversExactView
    CaughtUp
PROPERTY
    CoadvanceEnds
CHECK_DEADLOCK FALSE
