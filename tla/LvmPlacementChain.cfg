\* Same instance; checks ChainFollowsSpec alone.
CONSTANTS
    n1 = n1
    n2 = n2
    Nodes <- MCNodes
    MaxLVGs = 3
    MaxSpace = 1
    LVMTypes = {"Thick", "Thin"}
    KubernetesApiRequestLimit = 2
SYMMETRY MCSymmetry
\* One helper call, then nothing: no deadlock check.
CHECK_DEADLOCK FALSE
SPECIFICATION Spec
INVARIANT
    ChainFollowsSpec
