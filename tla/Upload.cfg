SPECIFICATION Spec
CONSTANTS
    Chunks = {c1, c2}
    Requests = {r1, r2, r3}
    Bodies = {"right", "wrong"}
    MaxFaults = 1
SYMMETRY Symmetric
INVARIANTS
    TypeOK
    AcknowledgedIsOnDisk
    PreparedIsRight
PROPERTIES
    RefinesUpload
\* A session that is gone, or that nothing can complete, is a legitimate end.
CHECK_DEADLOCK FALSE
