\* Up to three groups on two nodes with sizes 0..1 or unparsable, both
\* types, every storage class map; every helper once, with transient store
\* failures up to the budget of 2.
CONSTANTS
    n1 = n1
    n2 = n2
    Nodes <- MCNodes
    MaxLVGs = 3
    MaxSpace = 1
    LVMTypes = {"Thick", "Thin"}
    KubernetesApiRequestLimit = 2
SYMMETRY MCSymmetry
\* One helper call, then nothing: no deadlock check.
CHECK_DEADLOCK FALSE
SPECIFICATION Spec
INVARIANTS
    TypeOK
    MaxFreeVGFollowsReference
    ParamsFollowSelect
