\* Two concurrent handlers, three calls, user deletes and foreign writes on.
CONSTANTS
    c1 = c1
    c2 = c2
    Callers <- MCCallers
    KubernetesAPIRequestLimit = 3
    RequestSizes = {1, 2}
    Delta = 1
    MaxCalls = 3
    MaxPolls = 1
    MaxForeignWrites = 1
    ForeignDelete = TRUE
SYMMETRY MCSymmetry
\* Runs end when MaxCalls calls have returned: no deadlock check.
CHECK_DEADLOCK FALSE
SPECIFICATION Spec
INVARIANTS
    TypeOK
    LVNeverOrphaned
    RecordKeptUntilReleased
    ReleaseBudget
PROPERTIES
    RecordSpec
