\* Three groups on two nodes, free space 0..2, both types, every request.
CONSTANTS
    n1 = n1
    n2 = n2
    Nodes <- MCNodes
    MaxLVGs = 3
    MaxSpace = 2
    LVMTypes = {"Thick", "Thin"}
    PreferredNodes <- MCPreferredNodes
    ContiguousParams = {"absent", "true", "false"}
SYMMETRY MCSymmetry
\* The chain runs once and returns: no deadlock check.
CHECK_DEADLOCK FALSE
SPECIFICATION Spec
INVARIANTS
    TypeOK
    MaxFreeFollowsSpec
    SelectionFollowsSpec
    LLVSpecFollowsBuilder
