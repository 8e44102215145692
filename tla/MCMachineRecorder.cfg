\* One machine deployment and one machine class, handled in any order
\* relative to each other: every history of three changes of the cluster, with
\* gaps of the watch, restarts and failed stores in between.
SPECIFICATION FairSpec
CONSTANTS
    Names = {mcd, mcc}
    Specs = {a, b}
    MaxTime = 4
    None = None
    Classes = {mcc}
INVARIANTS
    TypeOK
    LatestRowCurrent
    CaughtUpRowCurrent
    GoneMarked
PROPERTIES
    OnlyChangesStored
    TableIsChronicle
    EventuallyRecorded
