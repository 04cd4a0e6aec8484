SPECIFICATION Spec
CONSTANTS
    Server = {s1, s2, s3}
    MaxTerm = 4
    MaxLog = 2
    MaxEvents = 0
    MaxAppendSize = 1
    DualMutex = FALSE
SYMMETRY Symmetry
PROPERTY
    CommitIsFinal
\* the bounds on terms, logs and events stop the system
CHECK_DEADLOCK FALSE
