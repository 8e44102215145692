SPECIFICATION AppSpec
CONSTANTS
    Clusters = {a, b}
    Reported = a
    LastReport = 1
    ClusterOf <- MCClusterOf
    MaxUploads = 2
    Nil = Nil
INVARIANTS
    AppTypeOK
    PairsMatch
PROPERTIES
    EveryDatabaseReplayed
