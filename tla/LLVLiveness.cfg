\* Two handlers, three calls, one size, a fair node agent.
\* No symmetry: it is not sound for liveness checking.
CONSTANTS
    c1 = c1
    c2 = c2
    Callers <- MCCallers
    KubernetesAPIRequestLimit = 3
    RequestSizes = {1}
    Delta = 1
    MaxCalls = 3
    MaxPolls = 1
    MaxForeignWrites = 0
    ForeignDelete = TRUE
\* Runs end when MaxCalls calls have returned: no deadlock check.
CHECK_DEADLOCK FALSE
SPECIFICATION FairSpec
PROPERTIES
    DeletionCompletes
