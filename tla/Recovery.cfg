SPECIFICATION FairSpec
CONSTANTS
    Nodes = {n1, n2}
    Procs = {p1, p2}
    NoNode = NoNode
    Jobs = {"upload", "retry", "delete"}
    Faults = {"refused", "lost", "crash"}
    MaxFaults = 3
INVARIANTS
    StagingOutlivesCreates
    OneCreator
    GoneMeansErased
PROPERTIES
    DeletionRecovers
    RecoveryCompletes
\* A deleted file with nothing left to do is a legitimate end.
CHECK_DEADLOCK FALSE
