SPECIFICATION Spec
CONSTANTS
    Requests = {r1, r2}
    MaxHarms = 2
    MaxRefusals = 1
SYMMETRY Symmetric
INVARIANTS
    TypeOK
    AckIsDurable
    AnswersAreCurrent
    NeverTorn
