SPECIFICATION Spec
CONSTANTS
    Blocks = {"a1", "a2", "a3", "b2"}
    Anchor = "anchor"
    AnchorSlot = 0
    MaxSlot = 8
    Slot <- TreeSlot
    BlockNo <- TreeBlockNo
    Parent <- TreeParent
    TrackUtxo = FALSE
    MaxEntries = 5
CHECK_DEADLOCK FALSE
INVARIANT SupersedeAgrees
INVARIANT ReplayAgrees
INVARIANT TailIsTheTip
