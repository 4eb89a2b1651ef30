\* A user deletes the record while a wait polls it before it has a status.
CONSTANTS
    c1 = c1
    c2 = c2
    Callers <- MCCallers
    KubernetesAPIRequestLimit = 3
    RequestSizes = {1, 2}
    Delta = 1
    MaxCalls = 3
    MaxPolls = 1
    MaxForeignWrites = 1
    ForeignDelete = TRUE
SYMMETRY MCSymmetry
\* Runs end when MaxCalls calls have returned: no deadlock check.
CHECK_DEADLOCK FALSE
SPECIFICATION Spec
PROPERTY DeletionEndsWait
