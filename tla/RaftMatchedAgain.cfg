SPECIFICATION Spec
CONSTANTS
    Server = {s1, s2, s3, s4, s5}
    MaxTerm = 3
    MaxLog = 2
    MaxEvents = 0
    MaxAppendSize = 1
    DualMutex = FALSE
SYMMETRY Symmetry
INVARIANT
    MatchedIsReplicated
\* the bounds on terms, logs and events stop the system
CHECK_DEADLOCK FALSE
