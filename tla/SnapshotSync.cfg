SPECIFICATION Spec
CONSTANTS
    MaxIndex = 6
    MaxEvents = 1
    Distance = 2
    Reserved = 2
    Keep = 1
    MaxAppend = 2
INVARIANTS
    TypeOK
    StateIsPrefixApart
    SnapshotIsTrueApart
    CanServe
    NothingSkippedApart
    RequestsFitApart
    CommitFindsEntryApart
PROPERTY
    CatchesUp
\* the bounds on the log and on failures stop the system
CHECK_DEADLOCK FALSE
