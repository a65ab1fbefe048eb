SPECIFICATION FairSpec
CONSTANTS
    Users = {u1, u2}
    Admins = {u1}
    Roots = {"files"}
    Monitor = "overview"
    Slots = {1, 2, 3}
    None = None
INVARIANTS
    OwnDataOnly
    OneIdentity
PROPERTIES
    BlankEnds
\* A tab on which nobody signs in is a legitimate end: what must go on is BlankEnds.
CHECK_DEADLOCK FALSE
