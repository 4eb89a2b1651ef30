\* The sds-lvm-csi node service: two targets, up to six kubelet calls
\* (publish, failed unpublish, retry, republish on each), every mounter
\* outcome and volume context.
CONSTANTS
    t1 = t1
    t2 = t2
    Targets <- MCTargets
    NodeDriver = "sds-lvm-csi"
    MaxCalls = 6
SYMMETRY MCSymmetry
\* Behaviours end when the call bound is spent.
CHECK_DEADLOCK FALSE
SPECIFICATION Spec
INVARIANT ReadonlyHonoured
