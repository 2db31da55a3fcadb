SPECIFICATION Spec
CONSTANTS
    Blocks = {"a1", "a2", "a3", "b2", "b3", "c3", "c4"}
    Anchor = "anchor"
    AnchorSlot = 0
    MaxSlot = 8
    Slot <- ForkSlot
    BlockNo <- ForkBlockNo
    Parent <- ForkParent
    TrackUtxo = FALSE
    CadenceSlots = 2
    RetainLatest = 1
    MaxRollBacks = 2
    MaxCrashes = 2
    None = "none"
CHECK_DEADLOCK FALSE
INVARIANT TypeOK
INVARIANT AckedSurvives
