---------------------------- MODULE LLVRefinement ----------------------------
(***************************************************************************)
(* LLVLifecycle implements LLVRecord: the store's record, seen through its  *)
(* existence, deletion mark, finalizers and phase, changes only as the      *)
(* record's promises allow, whatever the concurrent handlers, the agent    *)
(* and the other writers do.  Every full-object Update the CSI controller  *)
(* sends from a fetched copy must therefore be a Release of its own token  *)
(* or change nothing of this view.                                         *)
(***************************************************************************)
EXTENDS LLVLifecycle

Record == INSTANCE LLVRecord
    WITH CSIToken <- SDSLocalVolumeCSIFinalizer,
         AgentToken <- AgentFinalizer,
         exists <- llv.exists,
         deleting <- llv.deleting,
         fin <- llv.fin,
         phase <- llv.phase

(* The LLV record of LLVLifecycle behaves as LLVRecord specifies: no write *)
(* of removeLLVFinalizerIfExist, ExpandLVMLogicalVolume or                  *)
(* DeleteLVMLogicalVolume drops another owner's finalizer, puts a released *)
(* one back, or moves the phase backwards.                                 *)
RecordSpec == Record!Spec
=============================================================================
