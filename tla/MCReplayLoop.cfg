SPECIFICATION Spec
CONSTANTS
    Configs = {c, d}
    PodNames = {p}
    MaxEvents = 3
    None = None
INVARIANTS
    TypeOK
    NoNodeReportedTwice
    ScenarioOfItsSnapshot
    DeployedOnItsNodes
PROPERTIES
    Terminates
