SPECIFICATION Spec
CONSTANTS
    Nodes = {n1, n2, n3}
    Procs = {p1, p2}
    NoNode = NoNode
    Jobs = {"upload", "delete", "repair"}
    Faults = {"lost", "crash", "down"}
    MaxFaults = 1
SYMMETRY Symmetric
INVARIANT RunningHasRunner
PROPERTIES
    RefinesLifecycle
\* A deleted file with nothing left to do is a legitimate end.
CHECK_DEADLOCK FALSE
