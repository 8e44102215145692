\* Two names, of one bare name in two namespaces, each a pod's or a priority
\* class's: every history of four changes of the cluster, with gaps of the
\* watch, restarts and failed calls of the database in between.
SPECIFICATION Spec
CONSTANTS
    Names = {n, m}
    waiting = waiting
    bound = bound
    done = done
    shared = shared
    Specs <- MCSpecs
    Undetermined = {}
    Finished <- MCFinished
    HashOf <- MCHashOf
    BareName <- MCBareName
    KubeSystem = {}
    MaxTime = 5
    MaxRows = 2
    None = None
SYMMETRY MCSymmetry
INVARIANTS
    TypeOK
    PodRecordedOnce
    GonePodMarked
    PodLoaded
    ClassLoaded
