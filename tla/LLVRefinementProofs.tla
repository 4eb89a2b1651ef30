------------------------- MODULE LLVRefinementProofs -------------------------
(***************************************************************************)
(* Proof that LLVLifecycle implements LLVRecord under the mapping of       *)
(* LLVRefinement, for every value of the constants.  Each step of the      *)
(* detailed specification is a step of the abstract one or leaves its     *)
(* view alone.  Two facts carry the argument: a handler's Update succeeds  *)
(* only with a copy as new as the store, which then has the store's        *)
(* finalizers (CopiesCoherent, from LLVLifecycleProofs), and a record that *)
(* is in the store is never marked for deletion with no finalizer left     *)
(* (StoreConsistent), so a write that keeps the finalizers keeps it there. *)
(***************************************************************************)
EXTENDS LLVRefinement, LLVLifecycleProofs

(* The store never keeps a record that is marked for deletion and has no   *)
(* finalizer left.                                                         *)
StoreConsistent == llv.exists => ~(llv.deleting /\ llv.fin = {})

(* The view of the record that LLVRecord sees.                             *)
View == <<llv.exists, llv.deleting, llv.fin, llv.phase>>

-----------------------------------------------------------------------------
(* A write through StoreWrite leaves the record consistent.                *)
LEMMA StoreWriteConsistent ==
    ASSUME NEW fin, NEW del, NEW ph, NEW sz, NEW act,
           llv' = StoreWrite(fin, del, ph, sz, act)
    PROVE  StoreConsistent'
BY Zenon DEF StoreWrite, StoreConsistent

(* Initially the record is absent.                                         *)
LEMMA InitStoreConsistent == Init => StoreConsistent
BY DEF Init, NoLLV, StoreConsistent

(* Every step keeps the record consistent: every change to it is a        *)
(* StoreWrite or a new incarnation carrying the CSI finalizer.             *)
LEMMA NextStoreConsistent ==
    StoreConsistent /\ [Next]_vars => StoreConsistent'
<1> SUFFICES ASSUME StoreConsistent, [Next]_vars PROVE StoreConsistent'
    OBVIOUS
<1>1. CASE llv' = llv
    BY <1>1 DEF StoreConsistent
<1>2. ASSUME NEW c \in Callers, Caller(c) PROVE StoreConsistent'
    <2>1. CASE CreateLVMLogicalVolume(c)
        <3>1. llv' = llv \/ llv' = NewLLV(c)
            BY <2>1 DEF CreateLVMLogicalVolume
        <3>2. QED
            BY <3>1, <1>1 DEF NewLLV, StoreConsistent
    <2>2. CASE RemoveLLVFinalizerIfExist(c) \/ ExpandLVMLogicalVolume(c)
        <3>1. \/ llv' = llv
              \/ \E f, z : llv' = Put(f, z)
            BY <2>2 DEF RemoveLLVFinalizerIfExist, ExpandLVMLogicalVolume,
               storeVars
        <3>2. QED
            BY <3>1, <1>1, StoreWriteConsistent DEF Put
    <2>3. CASE DeleteLVMLogicalVolumeDelete(c)
        <3>1. \/ llv' = llv
              \/ llv' = StoreWrite(llv.fin, TRUE, llv.phase, llv.size,
                                   llv.actual)
            BY <2>3 DEF DeleteLVMLogicalVolumeDelete
        <3>2. QED
            BY <3>1, <1>1, StoreWriteConsistent
    <2>4. CASE \/ Provision(c) \/ Deprovision(c) \/ Expand(c) \/ Cancel(c)
               \/ WaitForStatusUpdate(c) \/ DeleteLVMLogicalVolumeGet(c)
               \/ ExpandGet(c)
        BY <2>4, <1>1 DEF Provision, Deprovision, Expand, StartCall, Cancel,
           WaitForStatusUpdate, DeleteLVMLogicalVolumeGet, ExpandGet,
           storeVars
    <2>5. QED
        BY <1>2, <2>1, <2>2, <2>3, <2>4 DEF Caller
<1>3. ASSUME Environment PROVE StoreConsistent'
    <2>1. \E fin, del, ph, sz, act : llv' = StoreWrite(fin, del, ph, sz, act)
        BY <1>3 DEF Environment, AgentStart, AgentCreate, AgentFail,
           AgentResize, AgentDelete, UserDelete, ForeignUpdate
    <2>2. QED
        BY <2>1, StoreWriteConsistent
<1>4. QED
    BY <1>1, <1>2, <1>3 DEF Next, vars, storeVars

-----------------------------------------------------------------------------
(* The refinement.                                                         *)

(* A step that keeps the record's view is a stutter of LLVRecord.          *)
LEMMA ViewStutter ==
    ASSUME View' = View
    PROVE  UNCHANGED Record!rvars
BY DEF View, Record!rvars

(* The initial record, absent, is LLVRecord's initial state.             *)
LEMMA InitRecord == Init => Record!Init
BY DEF Init, NoLLV, Record!Init

(* The release write of removeLLVFinalizerIfExist is Record!Release.       *)
LEMMA ReleaseStep ==
    ASSUME IInv, NEW c \in Callers,
           SDSLocalVolumeCSIFinalizer \in local[c].fin,
           FinalizerUpdateApplies(c),
           llv' = Put(local[c].fin \ {SDSLocalVolumeCSIFinalizer},
                      local[c].size)
    PROVE  Record!Release
<1>1. local[c].fin = llv.fin
    BY DEF FinalizerUpdateApplies, Fresh, IInv, CopiesCoherent
<1>2. /\ llv'.fin = llv.fin \ {SDSLocalVolumeCSIFinalizer}
      /\ llv'.deleting = llv.deleting /\ llv'.phase = llv.phase
      /\ llv'.exists = ~(llv.deleting /\ llv'.fin = {})
    BY <1>1, StoreWriteFields DEF Put
<1>3. QED
    BY <1>1, <1>2 DEF FinalizerUpdateApplies, Record!Release, Record!Kept

(* A write that keeps the finalizers, the deletion mark and the phase of   *)
(* a record in the store keeps the view.                                   *)
LEMMA KeepingWrite ==
    ASSUME StoreConsistent, llv.exists,
           NEW sz, NEW act,
           llv' = StoreWrite(llv.fin, llv.deleting, llv.phase, sz, act)
    PROVE  View' = View
<1>1. /\ llv'.fin = llv.fin /\ llv'.deleting = llv.deleting
      /\ llv'.phase = llv.phase
      /\ llv'.exists = ~(llv.deleting /\ llv.fin = {})
    BY StoreWriteFields
<1>2. llv'.exists = llv.exists
    BY <1>1, Zenon DEF StoreConsistent
<1>3. QED
    BY <1>1, <1>2 DEF View

(* Every step of a handler is a step or a stutter of LLVRecord.           *)
LEMMA CallerRefines ==
    ASSUME IInv, StoreConsistent, NEW c \in Callers, Caller(c)
    PROVE  [Record!Next]_Record!rvars
<1>1. CASE llv' = llv
    BY <1>1, ViewStutter DEF View
<1>2. CASE CreateLVMLogicalVolume(c) /\ llv' # llv
    <2>1. ~llv.exists /\ llv' = NewLLV(c)
        BY <1>2 DEF CreateLVMLogicalVolume, Return
    <2>2. Record!Create
        BY <2>1 DEF NewLLV, Record!Create
    <2>3. QED
        BY <2>2 DEF Record!Next
<1>3. CASE RemoveLLVFinalizerIfExist(c) /\ llv' # llv
    <2>1. /\ SDSLocalVolumeCSIFinalizer \in local[c].fin
          /\ FinalizerUpdateApplies(c)
          /\ llv' = Put(local[c].fin \ {SDSLocalVolumeCSIFinalizer},
                        local[c].size)
        BY <1>3 DEF RemoveLLVFinalizerIfExist, Return, storeVars
    <2>2. QED
        BY <2>1, ReleaseStep DEF Record!Next
<1>4. CASE DeleteLVMLogicalVolumeDelete(c) /\ llv' # llv
    <2>1. /\ llv.exists /\ ~llv.deleting
          /\ llv' = StoreWrite(llv.fin, TRUE, llv.phase, llv.size,
                               llv.actual)
        BY <1>4 DEF DeleteLVMLogicalVolumeDelete
    <2>2. /\ llv'.fin = llv.fin /\ llv'.deleting = TRUE
          /\ llv'.phase = llv.phase
          /\ llv'.exists = ~(TRUE /\ llv.fin = {})
        BY <2>1 DEF StoreWrite
    <2>3. Record!MarkDeleted
        BY <2>1, <2>2 DEF Record!MarkDeleted, Record!Kept
    <2>4. QED
        BY <2>3 DEF Record!Next
<1>5. CASE ExpandLVMLogicalVolume(c) /\ llv' # llv
    <2>1. /\ llv' = Put(local[c].fin, reqSize[c])
          /\ llv.exists /\ Fresh(local[c])
        BY <1>5 DEF ExpandLVMLogicalVolume, ExpandUpdateApplies, Return
    <2>2. local[c].fin = llv.fin
        BY <2>1 DEF Fresh, IInv, CopiesCoherent
    <2>3. llv' = StoreWrite(llv.fin, llv.deleting, llv.phase, reqSize[c],
                            llv.actual)
        BY <2>1, <2>2 DEF Put
    <2>4. QED
        BY <2>1, <2>3, KeepingWrite, ViewStutter
<1>6. QED
    <2>1. CASE Provision(c) \/ Deprovision(c) \/ Expand(c) \/ Cancel(c)
              \/ WaitForStatusUpdate(c) \/ DeleteLVMLogicalVolumeGet(c)
              \/ ExpandGet(c)
        BY <2>1, <1>1 DEF Provision, Deprovision, Expand, StartCall, Cancel,
           WaitForStatusUpdate, DeleteLVMLogicalVolumeGet, ExpandGet,
           storeVars
    <2>2. QED
        BY <2>1, <1>1, <1>2, <1>3, <1>4, <1>5 DEF Caller

(* Every step of the agent and of the other writers is a step or a        *)
(* stutter of LLVRecord.                                                   *)
LEMMA EnvironmentRefines ==
    ASSUME StoreConsistent, Environment
    PROVE  [Record!Next]_Record!rvars
<1>1. CASE AgentStart
    <2>1. Record!TakeUp
        BY <1>1 DEF AgentStart, StoreWrite, LLVStatusPending, Record!TakeUp
    <2>2. QED
        BY <2>1 DEF Record!Next
<1>2. CASE AgentCreate
    <2>1. PICK a \in ActualSizes(llv.size) :
            llv' = StoreWrite(llv.fin, llv.deleting, LLVStatusCreated,
                              llv.size, a)
        BY <1>2 DEF AgentCreate
    <2>2. Record!Settle
        BY <1>2, <2>1 DEF AgentCreate, StoreWrite, LLVStatusCreated,
           LLVStatusPending, Record!Settle
    <2>3. QED
        BY <2>2 DEF Record!Next
<1>3. CASE AgentFail
    <2>1. Record!Settle
        BY <1>3 DEF AgentFail, StoreWrite, LLVStatusFailed, LLVStatusPending,
           Record!Settle
    <2>2. QED
        BY <2>1 DEF Record!Next
<1>4. CASE AgentResize
    <2>1. PICK a \in ActualSizes(llv.size) :
            llv' = StoreWrite(llv.fin, llv.deleting, llv.phase, llv.size, a)
        BY <1>4 DEF AgentResize
    <2>2. QED
        BY <1>4, <2>1, KeepingWrite, ViewStutter DEF AgentResize
<1>5. CASE AgentDelete
    <2>1. Record!AgentRelease
        BY <1>5 DEF AgentDelete, StoreWrite, Record!AgentRelease, Record!Kept
    <2>2. QED
        BY <2>1 DEF Record!Next
<1>6. CASE UserDelete
    <2>1. Record!MarkDeleted
        BY <1>6 DEF UserDelete, StoreWrite, Record!MarkDeleted, Record!Kept
    <2>2. QED
        BY <2>1 DEF Record!Next
<1>7. CASE ForeignUpdate
    BY <1>7, KeepingWrite, ViewStutter DEF ForeignUpdate
<1>8. QED
    BY <1>1, <1>2, <1>3, <1>4, <1>5, <1>6, <1>7 DEF Environment

(* Under the invariants every step of LLVLifecycle is a step or a stutter *)
(* of LLVRecord.                                                          *)
LEMMA NextRecord ==
    IInv /\ StoreConsistent /\ [Next]_vars => [Record!Next]_Record!rvars
<1> SUFFICES ASSUME IInv, StoreConsistent, [Next]_vars
             PROVE  [Record!Next]_Record!rvars
    OBVIOUS
<1>1. CASE \E c \in Callers : Caller(c)
    BY <1>1, CallerRefines
<1>2. CASE Environment
    BY <1>2, EnvironmentRefines
<1>3. CASE UNCHANGED vars
    BY <1>3, ViewStutter DEF vars, storeVars, View
<1>4. QED
    BY <1>1, <1>2, <1>3 DEF Next

(* The LLV record as removeLLVFinalizerIfExist, ExpandLVMLogicalVolume,    *)
(* DeleteLVMLogicalVolume, the agent and the other writers leave it        *)
(* behaves as LLVRecord specifies, for every number of concurrent handlers *)
(* and every attempt budget: the conditional full-object Updates never     *)
(* drop a finalizer they do not own, nor put a released one back.          *)
THEOREM Refinement == Spec => RecordSpec
<1>1. Spec => []IInv
    BY InitIInv, NextIInv, PTL DEF Spec
<1>2. Spec => []StoreConsistent
    BY InitStoreConsistent, NextStoreConsistent, PTL DEF Spec
<1>3. QED
    BY <1>1, <1>2, InitRecord, NextRecord, PTL
    DEF Spec, RecordSpec, Record!Spec
=============================================================================
