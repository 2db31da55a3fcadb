SPECIFICATION FairSpec
CONSTANTS
    EntriesPerFile = 2
    MaxAppends = 5
    MaxCrashes = 3
CHECK_DEADLOCK FALSE
INVARIANT AckedReadable
INVARIANT CountExact
PROPERTY Reopens
