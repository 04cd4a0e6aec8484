SPECIFICATION Spec
CONSTANTS
    MaxIndex = 6
    MaxEvents = 2
    Distance = 2
    Reserved = 2
    Keep = 1
    MaxAppend = 2
INVARIANT
    RequestsFit
\* the bounds on the log and on failures stop the system
CHECK_DEADLOCK FALSE
