SPECIFICATION Spec
CONSTANTS
    Nodes = {n1, n2}
    Procs = {p1, p2}
    NoNode = NoNode
    Jobs = {"upload", "delete", "download", "repair"}
    Faults = {"refused", "late", "crash", "damage"}
    MaxFaults = 2
SYMMETRY Symmetric
INVARIANTS
    TypeOK
    PublishedMeansStored
    HealthyIsBacked
    ServedIsGood
\* A deleted file with nothing left to do is a legitimate end.
CHECK_DEADLOCK FALSE
