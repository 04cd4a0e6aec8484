SPECIFICATION Spec
CONSTANTS
    Server = {s1, s2, s3}
    MaxTerm = 2
    MaxLog = 2
    MaxEvents = 1
    MaxAppendSize = 1
    DualMutex = TRUE
SYMMETRY Symmetry
INVARIANTS
    TypeOK
    SettledLogsMatch
    AnswersAreTrue
PROPERTY
    CommitsWithLeader
    LeaderHasChosen
\* the bounds on terms, logs and events stop the system
CHECK_DEADLOCK FALSE
