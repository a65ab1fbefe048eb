SPECIFICATION FairSpec
CONSTANTS
    Nodes = {n1, n2}
    Procs = {p1, p2}
    NoNode = NoNode
    Jobs = {"upload", "scrub", "repair"}
    Faults = {"damage"}
    MaxFaults = 1
PROPERTY SelfHealing
\* A deleted file with nothing left to do is a legitimate end.
CHECK_DEADLOCK FALSE
