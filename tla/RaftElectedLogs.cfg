SPECIFICATION Spec
CONSTANTS
    Server = {s1, s2, s3}
    MaxTerm = 3
    MaxLog = 2
    MaxEvents = 0
    MaxAppendSize = 2
    DualMutex = TRUE
SYMMETRY Symmetry
INVARIANT
    SettledLogsMatch
PROPERTY
    LeaderHasChosen
\* the bounds on terms, logs and events stop the system
CHECK_DEADLOCK FALSE
