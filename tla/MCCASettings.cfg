\* Three changes of the two objects, with every overlap of the two handlers,
\* restarts, gaps of the watch and failed calls of the database.
SPECIFICATION FairSpec
CONSTANTS
    Deployment = dep
    ConfigMap = cm
    Names = {dep, cm}
    Specs = {a, b}
    MaxTime = 4
    None = None
    Idle = Idle
    Failures = TRUE
INVARIANTS
    TypeOK
    HalvesCurrent
PROPERTIES
    NoRowRepeated
    EventuallyRecorded
