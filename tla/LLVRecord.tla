------------------------------ MODULE LLVRecord ------------------------------
(***************************************************************************)
(* What one LogicalVolumeRecord promises (spec §3 and §4.6), whoever        *)
(* writes it: the name is taken only while no record holds it; the phase   *)
(* moves only None -> Pending -> {Created, Failed}; a finalizer token is   *)
(* removed only by its owner (the coordinator's by ReleaseFinalizer, the   *)
(* agent's by the agent once the record is marked for deletion); and the   *)
(* record leaves the store only when it is marked for deletion and no      *)
(* token is left.  Sizes, revisions and other writers' fields are not      *)
(* part of this view: writes that change only them are stutters.           *)
(***************************************************************************)
CONSTANTS
    CSIToken,       \* the coordinator's finalizer token
    AgentToken      \* the node agent's finalizer token

VARIABLES
    exists,         \* a record holds the name
    deleting,       \* the record is marked for deletion
    fin,            \* its finalizer tokens
    phase           \* its status phase; "None" while it has no status

rvars == <<exists, deleting, fin, phase>>

(* The store drops a record marked for deletion once no token is left.     *)
Kept(del, f) == ~(del /\ f = {})

Init ==
    /\ exists = FALSE
    /\ deleting = FALSE
    /\ fin = {}
    /\ phase = "None"

(* The coordinator creates the record with its token.                      *)
Create ==
    /\ ~exists
    /\ exists' = TRUE /\ deleting' = FALSE
    /\ fin' = {CSIToken} /\ phase' = "None"

(* The agent takes the record up: its token, phase Pending.                *)
TakeUp ==
    /\ exists /\ ~deleting /\ phase = "None"
    /\ fin' = fin \cup {AgentToken} /\ phase' = "Pending"
    /\ UNCHANGED <<exists, deleting>>

(* The agent settles a pending record.                                     *)
Settle ==
    /\ exists /\ ~deleting /\ phase = "Pending"
    /\ phase' \in {"Created", "Failed"}
    /\ UNCHANGED <<exists, deleting, fin>>

(* The coordinator removes its own token.                                  *)
Release ==
    /\ exists /\ CSIToken \in fin
    /\ fin' = fin \ {CSIToken}
    /\ exists' = Kept(deleting, fin')
    /\ UNCHANGED <<deleting, phase>>

(* Someone deletes the record: it is marked, and gone if no token is left. *)
MarkDeleted ==
    /\ exists /\ ~deleting
    /\ deleting' = TRUE
    /\ exists' = Kept(TRUE, fin)
    /\ UNCHANGED <<fin, phase>>

(* The agent, done with a record marked for deletion, removes its token.   *)
AgentRelease ==
    /\ exists /\ deleting /\ AgentToken \in fin
    /\ fin' = fin \ {AgentToken}
    /\ exists' = Kept(deleting, fin')
    /\ UNCHANGED <<deleting, phase>>

Next ==
    \/ Create \/ TakeUp \/ Settle \/ Release \/ MarkDeleted \/ AgentRelease

Spec == Init /\ [][Next]_rvars
=============================================================================
