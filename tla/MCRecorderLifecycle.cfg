SPECIFICATION Spec
CONSTANTS
    Clusters = {a, b}
    Watched = a
    NoKey = NoKey
    MaxTime = 1
    None = None
INVARIANTS
    TypeOK
PROPERTIES
    OnlyOldEventsDropped
    EventKept
