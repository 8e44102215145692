\* The same without failing calls of the database.
SPECIFICATION Spec
CONSTANTS
    Deployment = dep
    ConfigMap = cm
    Names = {dep, cm}
    Specs = {a, b}
    MaxTime = 4
    None = None
    Idle = Idle
    Failures = FALSE
INVARIANTS
    ConfigRecorded
