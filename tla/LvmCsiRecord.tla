---------------------------- MODULE LvmCsiRecord ----------------------------
(***************************************************************************)
(* What the sds-lvm-csi driver's LVMLogicalVolume record promises, whoever *)
(* writes it.  The driver puts no finalizer on it, so a delete frees the   *)
(* name at once.                                                           *)
(*  - The name is taken only while it is free, and every record made     *)
(*    under it is a new incarnation.                                      *)
(*  - A new record has no status and a size that a request asked for.      *)
(*  - Only the CSI side changes spec.size, to a size some request asked    *)
(*    for, and it never touches the status.                               *)
(*  - Only the agent changes the status, and it never touches the size.   *)
(*  - Failed is reported only of a record that had no status yet.          *)
(* Revisions, the actual size and writes of other controllers are not part *)
(* of this view, so a write that changes only them is a stutter.           *)
(***************************************************************************)
EXTENDS Naturals

CONSTANT Sizes      \* the sizes a request may ask for

VARIABLES
    exists,         \* a record holds the name
    uid,            \* its incarnation
    size,           \* its spec.size; 0 while the name is free
    phase           \* its status phase; "None" while it has no status

rvars == <<exists, uid, size, phase>>

Init ==
    /\ exists = FALSE
    /\ uid = 0
    /\ size = 0
    /\ phase = "None"

(* A Create takes the free name with a new incarnation.                    *)
Create ==
    /\ ~exists
    /\ \E s \in Sizes : size' = s
    /\ exists' = TRUE /\ uid' > uid /\ phase' = "None"

(* A Delete frees the name.                                                *)
Delete ==
    /\ exists
    /\ exists' = FALSE /\ size' = 0 /\ phase' = "None"
    /\ UNCHANGED uid

(* An Update of spec.size, which leaves the status as it is.               *)
Resize ==
    /\ exists
    /\ \E s \in Sizes : size' = s
    /\ UNCHANGED <<exists, uid, phase>>

(* The agent reports the LV: Created at any time, Failed only before any  *)
(* other report.                                                           *)
Report ==
    /\ exists
    /\ \/ phase' = "Created"
       \/ phase = "None" /\ phase' = "Failed"
    /\ UNCHANGED <<exists, uid, size>>

Next == Create \/ Delete \/ Resize \/ Report

Spec == Init /\ [][Next]_rvars
=============================================================================
