SPECIFICATION Spec
CONSTANTS
    Server = {s1, s2, s3}
    None = None
    MaxTerm = 2
    MaxEvents = 3
    Durable = FALSE
SYMMETRY Symmetry
INVARIANTS
    ElectionSafety
\* the bound on events stops the system
CHECK_DEADLOCK FALSE
