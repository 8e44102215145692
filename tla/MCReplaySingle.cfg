\* Recordings of one or two scale-ups.
SPECIFICATION FairSpec
CONSTANTS
    MaxEvents = 2
    MaxInstant = 4
    Span = 2
INVARIANTS
    ExitsWithoutPanic
CHECK_DEADLOCK FALSE
