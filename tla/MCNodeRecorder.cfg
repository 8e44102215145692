\* One object, a node or a CSI node: every history of four changes of the
\* cluster, with gaps of the watch, restarts and failed calls of the database
\* in between.  Handlers of different objects share nothing here.
SPECIFICATION FairSpec
CONSTANTS
    Names = {n}
    Specs = {a, b}
    MaxTime = 5
    MaxRows = 2
    None = None
INVARIANTS
    TypeOK
    RecordedOnce
    GoneNotLoaded
    CSINodeLoaded
    LiveNodeLoaded
PROPERTIES
    EventuallyLoaded
