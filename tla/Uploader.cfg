SPECIFICATION FairSpec
CONSTANTS
    Chunks = {c1, c2, c3}
    Parallel = 2
    Delays = 1
    MaxPauses = 1
    MaxFaults = 2
INVARIANTS
    TypeOK
    CompletesWhole
    QuietWhenStopped
PROPERTIES
    ProgressIsKept
    CancelEnds
    UploadEnds
\* An upload that has ended, or waits for its user, is a legitimate end.
CHECK_DEADLOCK FALSE
