SPECIFICATION AppSpec
CONSTANTS
    Clusters = {a}
    Reported = a
    LastReport = 2
    ClusterOf <- MCClusterOf
    MaxUploads = 1
    Nil = Nil
PROPERTIES
    EveryPairCompared
