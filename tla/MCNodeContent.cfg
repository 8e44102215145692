\* One node and four changes, without the fairness.
SPECIFICATION Spec
CONSTANTS
    Names = {n}
    Specs = {a, b}
    MaxTime = 5
    MaxRows = 3
    None = None
INVARIANTS
    NodeContentLoaded
