SPECIFICATION Spec
CONSTANTS
    Folders = {f1, f2}
    Files = {x1}
    Sessions = {s1, s2, s3}
    Identities = {i1}
    Requests = {r1, r2}
    Limit = 1
    Root = Root
    None = None
SYMMETRY Symmetric
INVARIANTS
    NothingLosesItsFolder
    SessionsBounded
    StagingHasOwner
