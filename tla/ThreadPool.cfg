SPECIFICATION Spec
CONSTANTS
    Worker = {w1, w2}
    Caller = {owner, user}
    Owner = owner
    Jobs = {j1, j2}
    Injected = Injected
INVARIANTS
    TypeOK
    JobsLeftCounts
PROPERTIES
    WaitAllDrains
    EveryJobRuns
\* a joined pool stops
CHECK_DEADLOCK FALSE
