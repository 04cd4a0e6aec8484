SPECIFICATION Spec
CONSTANTS
    Server = {s1, s2, s3}
    None = None
    MaxTerm = 2
    MaxEvents = 3
    Durable = TRUE
SYMMETRY Symmetry
INVARIANTS
    TypeOK
    OneVotePerTerm
    ElectionSafety
    CountedVotesWereCast
\* the bound on events stops the system
CHECK_DEADLOCK FALSE
