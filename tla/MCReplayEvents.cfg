\* Every recording of up to five scale-ups over seven instants, with bursts of
\* two instants; the loop stops, so that a state without successor is no
\* deadlock.
SPECIFICATION FairSpec
CONSTANTS
    MaxEvents = 5
    MaxInstant = 7
    Span = 2
INVARIANTS
    TypeOK
    WindowsTile
    MarksApart
    BurstsReplayed
    ReportsApart
    PanicsOnSingleOnly
PROPERTIES
    Terminates
CHECK_DEADLOCK FALSE
