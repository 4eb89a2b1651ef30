-------------------------- MODULE LvmCsiRefinement --------------------------
(***************************************************************************)
(* LvmCsiClient implements LvmCsiRecord: the store's record, seen through  *)
(* its existence, incarnation, spec.size and status phase, changes only as *)
(* the record's promises allow, whatever the concurrent handlers, the lost *)
(* requests and responses, the retries and the agent do.                   *)
(***************************************************************************)
EXTENDS LvmCsiClient

Record == INSTANCE LvmCsiRecord
    WITH exists <- llv.exists,
         uid <- llv.uid,
         size <- llv.size,
         phase <- llv.phase

(* The record of LvmCsiClient behaves as LvmCsiRecord specifies: no retry  *)
(* of CreateLVMLogicalVolume takes a name that is held, no                 *)
(* UpdateLVMLogicalVolume sends a size nobody asked for or overwrites the  *)
(* status, and the agent's reports keep spec.size.                         *)
RecordSpec == Record!Spec
=============================================================================
