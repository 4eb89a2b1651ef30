\* Two handlers, three requests, the code's budget of three attempts.
CONSTANTS
    c1 = c1
    c2 = c2
    Callers <- MCCallers
    KubernetesApiRequestLimit = 3
    Sizes = {1, 2}
    Delta = 1
    MaxCalls = 3
    MaxPolls = 1
    MaxEnvWrites = 2
SYMMETRY MCSymmetry
\* Runs end when MaxCalls requests have returned: no deadlock check.
CHECK_DEADLOCK FALSE
SPECIFICATION Spec
INVARIANTS
    TypeOK
    CreateGetUpdateRetryPolicy
PROPERTIES
    RecordSpec
