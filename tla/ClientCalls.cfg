SPECIFICATION Spec
CONSTANTS
    Call = {c1, c2}
    NoCall = NoCall
    MaxTerm = 3
    MaxLog = 3
INVARIANTS
    TypeOK
    OkIsApplied
    AppliedInOrder
    NeverInverted
PROPERTY
    CommittedIsApplied
\* the bounds on terms and logs stop the system
CHECK_DEADLOCK FALSE
