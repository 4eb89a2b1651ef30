------------------------- MODULE LLVLifecycleProofs -------------------------
(***************************************************************************)
(* Proofs about LLVLifecycle for every value of its constants: the type    *)
(* invariant, and that an LV on the node never loses its record           *)
(* (LVNeverOrphaned).                                                      *)
(***************************************************************************)
EXTENDS LLVLifecycle, TLAPS

(* A handler's fetched copy is never newer than the store, and a copy that *)
(* is as new as the store has the store's finalizers: nothing was written  *)
(* since it was fetched.  This is what makes the full-object Updates of    *)
(* removeLLVFinalizerIfExist and ExpandLVMLogicalVolume safe.              *)
CopiesCoherent ==
    \A c \in Callers :
        /\ local[c].rv <= llv.rv
        /\ local[c].rv = llv.rv => local[c].fin = llv.fin

(* Once the agent has taken up a live record it holds its finalizer until  *)
(* the record is marked for deletion.                                      *)
AgentHoldsFinalizer ==
    (llv.exists /\ ~llv.deleting /\ llv.phase # "None")
        => AgentFinalizer \in llv.fin

(* TypeOK split into the variables with Boolean values, which Zenon       *)
(* handles, and the others, which need arithmetic.                         *)
TypeBool ==
    /\ lvOnNode \in BOOLEAN
    /\ csiReleased \in BOOLEAN
    /\ ctxDone \in [Callers -> BOOLEAN]

TypeData ==
    /\ llv \in LLV
    /\ foreignWrites \in 0 .. MaxForeignWrites
    /\ pc \in [Callers -> PCs]
    /\ reqSize \in [Callers -> Nat]
    /\ local \in [Callers -> LLV]
    /\ attempt \in [Callers -> 0 .. KubernetesAPIRequestLimit]
    /\ conflicts \in [Callers -> Nat]
    /\ attemptCounter \in [Callers -> Nat]
    /\ result \in [Callers -> Results]
    /\ calls \in 0 .. MaxCalls

(* The inductive strengthening of LVNeverOrphaned.                        *)
IInv ==
    /\ TypeOK
    /\ LVNeverOrphaned
    /\ CopiesCoherent
    /\ AgentHoldsFinalizer

USE LimitAssumption, SizesAssumption, BoundsAssumption

-----------------------------------------------------------------------------
(* The type invariant.                                                     *)

LEMMA StoreWriteType ==
    ASSUME llv \in LLV,
           NEW fin \in SUBSET Finalizers, NEW del \in BOOLEAN,
           NEW ph \in Phases, NEW sz \in Nat, NEW act \in Nat
    PROVE  StoreWrite(fin, del, ph, sz, act) \in LLV
BY DEF StoreWrite, LLV

LEMMA NoLLVType == NoLLV \in LLV
BY DEF NoLLV, LLV, Phases

LEMMA InitTypeOK == Init => TypeOK
<1> SUFFICES ASSUME Init PROVE TypeOK
    OBVIOUS
<1>1. llv \in LLV /\ local \in [Callers -> LLV]
    BY NoLLVType DEF Init
<1>2. pc \in [Callers -> PCs] /\ result \in [Callers -> Results]
    BY DEF Init, PCs, Results
<1>3. /\ foreignWrites \in 0 .. MaxForeignWrites /\ calls \in 0 .. MaxCalls
      /\ attempt \in [Callers -> 0 .. KubernetesAPIRequestLimit]
    BY DEF Init
<1>4. /\ reqSize \in [Callers -> Nat] /\ conflicts \in [Callers -> Nat]
      /\ attemptCounter \in [Callers -> Nat]
      /\ ctxDone \in [Callers -> BOOLEAN]
    BY DEF Init
<1>5. lvOnNode \in BOOLEAN /\ csiReleased \in BOOLEAN
    BY Zenon DEF Init
<1>6. QED
    BY <1>1, <1>2, <1>3, <1>4, <1>5 DEF TypeOK

(* The Boolean-valued variables stay Boolean.                            *)
LEMMA NextTypeBool == TypeBool /\ [Next]_vars => TypeBool'
<1> SUFFICES ASSUME TypeBool, [Next]_vars PROVE TypeBool'
    OBVIOUS
<1>1. ASSUME NEW c \in Callers, Caller(c) PROVE TypeBool'
    <2>1. CASE Provision(c)
        BY <2>1, Zenon DEF Provision, StartCall, TypeBool, storeVars
    <2>2. CASE Deprovision(c)
        BY <2>2, Zenon DEF Deprovision, StartCall, TypeBool, storeVars
    <2>3. CASE Expand(c)
        BY <2>3, Zenon DEF Expand, StartCall, TypeBool, storeVars
    <2>4. CASE CreateLVMLogicalVolume(c)
        BY <2>4, Zenon DEF CreateLVMLogicalVolume, Return, TypeBool, storeVars
    <2>5. CASE WaitForStatusUpdate(c)
        BY <2>5, Zenon DEF WaitForStatusUpdate, Return, TypeBool, storeVars
    <2>6. CASE DeleteLVMLogicalVolumeGet(c)
        BY <2>6, Zenon DEF DeleteLVMLogicalVolumeGet, Return, TypeBool, storeVars
    <2>7. CASE RemoveLLVFinalizerIfExist(c)
        BY <2>7, Zenon DEF RemoveLLVFinalizerIfExist, Return, TypeBool, storeVars
    <2>8. CASE DeleteLVMLogicalVolumeDelete(c)
        BY <2>8, Zenon DEF DeleteLVMLogicalVolumeDelete, Return, TypeBool, storeVars
    <2>9. CASE ExpandGet(c)
        BY <2>9, Zenon DEF ExpandGet, Return, TypeBool, storeVars
    <2>10. CASE ExpandLVMLogicalVolume(c)
        BY <2>10, Zenon DEF ExpandLVMLogicalVolume, Return, TypeBool, storeVars
    <2>11. CASE Cancel(c)
        BY <2>11, Zenon DEF Cancel, TypeBool, storeVars
    <2>12. QED
        BY <1>1, <2>1, <2>2, <2>3, <2>4, <2>5, <2>6, <2>7, <2>8, <2>9, <2>10, <2>11
        DEF Caller
<1>2. CASE Environment
    <2>1. CASE AgentStart
        BY <2>1, Zenon DEF AgentStart, TypeBool, callerVars
    <2>2. CASE AgentCreate
        BY <2>2, Zenon DEF AgentCreate, TypeBool, callerVars
    <2>3. CASE AgentFail
        BY <2>3, Zenon DEF AgentFail, TypeBool, callerVars
    <2>4. CASE AgentResize
        BY <2>4, Zenon DEF AgentResize, TypeBool, callerVars
    <2>5. CASE AgentDelete
        BY <2>5, Zenon DEF AgentDelete, TypeBool, callerVars
    <2>6. CASE UserDelete
        BY <2>6, Zenon DEF UserDelete, TypeBool, callerVars
    <2>7. CASE ForeignUpdate
        BY <2>7, Zenon DEF ForeignUpdate, TypeBool, callerVars
    <2>8. QED
        BY <1>2, <2>1, <2>2, <2>3, <2>4, <2>5, <2>6, <2>7
        DEF Environment
<1>3. CASE UNCHANGED vars
    BY <1>3, Zenon DEF vars, storeVars, callerVars, TypeBool
<1>4. QED
    BY <1>1, <1>2, <1>3 DEF Next

(* The other variables keep their types.                                  *)
LEMMA NextTypeData == TypeData /\ [Next]_vars => TypeData'
<1> SUFFICES ASSUME TypeData, [Next]_vars PROVE TypeData'
    OBVIOUS
<1>1. llv \in LLV
    BY DEF TypeData
<1>2. ASSUME NEW c \in Callers, Caller(c) PROVE TypeData'
    <2>0. local[c] \in LLV /\ reqSize[c] \in Nat
        BY DEF TypeData
    <2>1. CASE Provision(c)
        BY <2>1 DEF Provision, StartCall, TypeData, PCs, Results, storeVars
    <2>2. CASE Deprovision(c)
        BY <2>2 DEF Deprovision, StartCall, TypeData, PCs, Results, storeVars
    <2>3. CASE Expand(c)
        BY <2>3 DEF Expand, StartCall, TypeData, PCs, Results, storeVars
    <2>4. CASE CreateLVMLogicalVolume(c)
        <3>1. NewLLV(c) \in LLV
            BY <1>1, <2>0 DEF NewLLV, LLV, Finalizers, Phases
        <3>2. QED
            BY <2>4, <3>1 DEF CreateLVMLogicalVolume, Return, TypeData, PCs,
                              Results
    <2>5. CASE WaitForStatusUpdate(c)
        <3>1. PollOutcome(llv, reqSize[c]) \in Results \cup {"Continue"}
            BY DEF PollOutcome, Results
        <3>2. QED
            BY <2>5, <3>1 DEF WaitForStatusUpdate, Return, TypeData, PCs,
                              Results, storeVars
    <2>6. CASE DeleteLVMLogicalVolumeGet(c)
        BY <1>1, <2>6 DEF DeleteLVMLogicalVolumeGet, Return, TypeData, PCs,
                          Results, storeVars
    <2>7. CASE RemoveLLVFinalizerIfExist(c)
        <3>1. Put(local[c].fin \ {SDSLocalVolumeCSIFinalizer},
                  local[c].size) \in LLV
            BY <1>1, <2>0, StoreWriteType DEF Put, LLV
        <3>2. QED
            BY <1>1, <2>7, <3>1 DEF RemoveLLVFinalizerIfExist,
                ReleaseLoopContinues, FinalizerUpdateApplies, Return,
                TypeData, PCs, Results, storeVars
    <2>8. CASE DeleteLVMLogicalVolumeDelete(c)
        <3>1. StoreWrite(llv.fin, TRUE, llv.phase, llv.size, llv.actual)
                \in LLV
            BY <1>1, StoreWriteType DEF LLV
        <3>2. QED
            BY <1>1, <2>8, <3>1 DEF DeleteLVMLogicalVolumeDelete, Return,
                                    TypeData, PCs, Results
    <2>9. CASE ExpandGet(c)
        BY <1>1, <2>9 DEF ExpandGet, Return, TypeData, PCs, Results,
                          storeVars
    <2>10. CASE ExpandLVMLogicalVolume(c)
        <3>1. Put(local[c].fin, reqSize[c]) \in LLV
            BY <1>1, <2>0, StoreWriteType DEF Put, LLV
        <3>2. QED
            BY <2>10, <3>1 DEF ExpandLVMLogicalVolume, Return, TypeData, PCs,
                               Results
    <2>11. CASE Cancel(c)
        BY <2>11 DEF Cancel, TypeData, storeVars
    <2>12. QED
        BY <1>2, <2>1, <2>2, <2>3, <2>4, <2>5, <2>6, <2>7, <2>8, <2>9,
           <2>10, <2>11 DEF Caller
<1>3. CASE Environment
    <2>1. CASE AgentStart
        BY <1>1, <2>1, StoreWriteType DEF AgentStart, TypeData, LLV, Phases,
                                           Finalizers, callerVars
    <2>2. CASE AgentCreate
        <3>1. \A a \in ActualSizes(llv.size) :
                StoreWrite(llv.fin, llv.deleting, LLVStatusCreated,
                           llv.size, a) \in LLV
            <4>1. \A a \in ActualSizes(llv.size) : a \in Nat
                BY <1>1, SizesAssumption DEF ActualSizes, LLV
            <4>2. LLVStatusCreated \in Phases
                BY DEF Phases
            <4>3. QED
                BY <1>1, <4>1, <4>2, StoreWriteType DEF LLV
        <3>2. QED
            BY <2>2, <3>1 DEF AgentCreate, TypeData, callerVars
    <2>3. CASE AgentFail
        BY <1>1, <2>3, StoreWriteType DEF AgentFail, TypeData, LLV, Phases,
                                           callerVars
    <2>4. CASE AgentResize
        <3>1. \A a \in ActualSizes(llv.size) :
                StoreWrite(llv.fin, llv.deleting, llv.phase, llv.size, a)
                  \in LLV
            <4>1. \A a \in ActualSizes(llv.size) : a \in Nat
                BY <1>1, SizesAssumption DEF ActualSizes, LLV
            <4>2. QED
                BY <1>1, <4>1, StoreWriteType DEF LLV
        <3>2. QED
            BY <2>4, <3>1 DEF AgentResize, TypeData, callerVars
    <2>5. CASE AgentDelete
        BY <1>1, <2>5, StoreWriteType DEF AgentDelete, TypeData, LLV,
                                           callerVars
    <2>6. CASE UserDelete
        BY <1>1, <2>6, StoreWriteType DEF UserDelete, TypeData, LLV,
                                           callerVars
    <2>7. CASE ForeignUpdate
        <3>1. StoreWrite(llv.fin, llv.deleting, llv.phase, llv.size,
                         llv.actual) \in LLV
            BY <1>1, StoreWriteType DEF LLV
        <3>2. foreignWrites' \in 0 .. MaxForeignWrites
            BY <2>7 DEF ForeignUpdate, TypeData
        <3>3. QED
            BY <2>7, <3>1, <3>2 DEF ForeignUpdate, TypeData, callerVars
    <2>8. QED
        BY <1>3, <2>1, <2>2, <2>3, <2>4, <2>5, <2>6, <2>7 DEF Environment
<1>4. CASE UNCHANGED vars
    BY <1>4 DEF vars, storeVars, callerVars, TypeData
<1>5. QED
    BY <1>2, <1>3, <1>4 DEF Next

LEMMA TypeSplit == TypeOK <=> TypeBool /\ TypeData
BY Zenon DEF TypeOK, TypeBool, TypeData

LEMMA NextTypeOK == TypeOK /\ [Next]_vars => TypeOK'
<1> SUFFICES ASSUME TypeOK, [Next]_vars PROVE TypeOK'
    OBVIOUS
<1>1. TypeBool' /\ TypeData'
    BY TypeSplit, NextTypeBool, NextTypeData
<1>2. QED
    BY <1>1, TypeSplit, PTL

(* Every reachable state is well typed.                                    *)
THEOREM TypeCorrect == Spec => []TypeOK
BY InitTypeOK, NextTypeOK, PTL DEF Spec
-----------------------------------------------------------------------------
(* LVNeverOrphaned.                                                        *)

LEMMA StoreWriteFields ==
    ASSUME NEW fin, NEW del, NEW ph, NEW sz, NEW act
    PROVE  LET w == StoreWrite(fin, del, ph, sz, act) IN
           /\ w.fin = fin /\ w.deleting = del /\ w.phase = ph
           /\ w.rv = llv.rv + 1
           /\ w.exists = ~(del /\ fin = {})
BY DEF StoreWrite

LEMMA InitIInv == Init => IInv
<1> SUFFICES ASSUME Init PROVE IInv
    OBVIOUS
<1>1. TypeOK
    BY InitTypeOK
<1>2. LVNeverOrphaned /\ CopiesCoherent /\ AgentHoldsFinalizer
    BY DEF Init, NoLLV, LVNeverOrphaned, CopiesCoherent, AgentHoldsFinalizer
<1>3. QED
    BY <1>1, <1>2 DEF IInv

(* The strengthening minus TypeOK.                                         *)
Rest == LVNeverOrphaned /\ CopiesCoherent /\ AgentHoldsFinalizer

(* A step that leaves the record, the LV and the copies alone.             *)
LEMMA StoreUntouched ==
    ASSUME IInv, llv' = llv, lvOnNode' = lvOnNode, local' = local
    PROVE  Rest'
BY Zenon DEF IInv, Rest, LVNeverOrphaned, CopiesCoherent, AgentHoldsFinalizer

(* A handler refetches the record (Get): its copy becomes the current one. *)
LEMMA Refetch ==
    ASSUME IInv, NEW c \in Callers, llv' = llv, lvOnNode' = lvOnNode,
           local' = [local EXCEPT ![c] = llv]
    PROVE  Rest'
<1>1. CopiesCoherent'
    BY DEF IInv, TypeOK, LLV, CopiesCoherent
<1>2. LVNeverOrphaned' /\ AgentHoldsFinalizer'
    BY Zenon DEF IInv, LVNeverOrphaned, AgentHoldsFinalizer
<1>3. QED
    BY <1>1, <1>2 DEF Rest

(* A write to the record that keeps the agent's finalizer whenever there   *)
(* is an LV on the node, and whenever the record is live and has a status. *)
LEMMA WriteKeepsIInv ==
    ASSUME IInv,
           llv'.rv = llv.rv + 1,
           llv'.exists = ~(llv'.deleting /\ llv'.fin = {}),
           local' = local,
           lvOnNode' => AgentFinalizer \in llv'.fin,
           (~llv'.deleting /\ llv'.phase # "None")
               => AgentFinalizer \in llv'.fin
    PROVE  Rest'
<1>2. CopiesCoherent'
    BY DEF IInv, TypeOK, LLV, CopiesCoherent
<1>3. LVNeverOrphaned'
    BY Zenon DEF LVNeverOrphaned
<1>4. AgentHoldsFinalizer'
    BY Zenon DEF AgentHoldsFinalizer
<1>5. QED
    BY <1>2, <1>3, <1>4 DEF Rest

LEMMA NextIInv == IInv /\ [Next]_vars => IInv'
<1> SUFFICES ASSUME IInv, [Next]_vars PROVE IInv'
    OBVIOUS
<1>0. TypeOK /\ TypeOK'
    BY NextTypeOK DEF IInv
<1>1. ASSUME NEW c \in Callers, Caller(c) PROVE Rest'
    <2>1. CASE Provision(c) \/ Deprovision(c) \/ Expand(c)
        BY <2>1, StoreUntouched DEF Provision, Deprovision, Expand, StartCall,
                                    storeVars
    <2>2. CASE CreateLVMLogicalVolume(c)
        BY <1>0, <2>2, StoreUntouched DEF CreateLVMLogicalVolume, NewLLV,
           Return, IInv, TypeOK, LLV, Rest, LVNeverOrphaned, CopiesCoherent,
           AgentHoldsFinalizer
    <2>3. CASE WaitForStatusUpdate(c)
        BY <2>3, StoreUntouched DEF WaitForStatusUpdate, storeVars
    <2>4. CASE DeleteLVMLogicalVolumeGet(c) \/ ExpandGet(c)
        BY <2>4, StoreUntouched, Refetch DEF DeleteLVMLogicalVolumeGet,
           ExpandGet, Return, storeVars
    <2>5. CASE RemoveLLVFinalizerIfExist(c)
        <3>1. CASE UNCHANGED <<llv, lvOnNode, local>>
            BY <3>1, StoreUntouched
        <3>2. CASE UNCHANGED <<llv, lvOnNode>>
                   /\ local' = [local EXCEPT ![c] = llv]
            BY <3>2, Refetch
        <3>3. CASE llv' # llv
            <4>1. /\ llv' = Put(local[c].fin \ {SDSLocalVolumeCSIFinalizer},
                               local[c].size)
                  /\ local' = [local EXCEPT ![c] = llv']
                  /\ lvOnNode' = lvOnNode
                  /\ llv.exists /\ Fresh(local[c])
                BY <2>5, <3>3 DEF RemoveLLVFinalizerIfExist,
                   FinalizerUpdateApplies, Return, storeVars
            <4>2. local[c].fin = llv.fin
                BY <4>1 DEF Fresh, IInv, CopiesCoherent
            <4>3. /\ llv'.fin = llv.fin \ {SDSLocalVolumeCSIFinalizer}
                  /\ llv'.deleting = llv.deleting /\ llv'.phase = llv.phase
                  /\ llv'.exists = ~(llv.deleting /\ llv'.fin = {})
                BY <4>1, <4>2, StoreWriteFields DEF Put
            <4>4. AgentFinalizer # SDSLocalVolumeCSIFinalizer
                BY DEF AgentFinalizer, SDSLocalVolumeCSIFinalizer
            <4>5. CopiesCoherent'
                <5>1. llv' \in LLV /\ llv'.rv = llv.rv + 1
                    BY <1>0, <4>1, StoreWriteFields DEF TypeOK, Put
                <5>2. QED
                    BY <4>1, <5>1 DEF IInv, TypeOK, LLV, CopiesCoherent
            <4>6. LVNeverOrphaned' /\ AgentHoldsFinalizer'
                BY <4>1, <4>3, <4>4, Zenon
                DEF IInv, LVNeverOrphaned, AgentHoldsFinalizer
            <4>7. QED
                BY <4>5, <4>6 DEF Rest
        <3>4. QED
            BY <2>5, <3>1, <3>2, <3>3 DEF RemoveLLVFinalizerIfExist, Return,
               storeVars
    <2>6. CASE DeleteLVMLogicalVolumeDelete(c)
        <3>1. CASE llv' = llv
            BY <2>6, <3>1, StoreUntouched DEF DeleteLVMLogicalVolumeDelete
        <3>2. CASE llv' # llv
            <4>1. llv' = StoreWrite(llv.fin, TRUE, llv.phase, llv.size,
                                    llv.actual)
                BY <2>6, <3>2 DEF DeleteLVMLogicalVolumeDelete
            <4>2. /\ llv'.fin = llv.fin /\ llv'.deleting = TRUE
                  /\ llv'.rv = llv.rv + 1
                  /\ llv'.exists = ~(llv'.deleting /\ llv'.fin = {})
                <5>1. /\ llv'.fin = llv.fin /\ llv'.deleting = TRUE
                      /\ llv'.rv = llv.rv + 1
                      /\ llv'.exists = ~(TRUE /\ llv.fin = {})
                    BY <4>1 DEF StoreWrite
                <5>2. QED
                    BY <5>1, Zenon
            <4>3. lvOnNode' = lvOnNode /\ local' = local
                BY <2>6 DEF DeleteLVMLogicalVolumeDelete
            <4>4. lvOnNode' => AgentFinalizer \in llv'.fin
                BY <4>2, <4>3 DEF IInv, LVNeverOrphaned
            <4>5. QED
                BY <4>2, <4>3, <4>4, WriteKeepsIInv
        <3>3. QED
            BY <3>1, <3>2
    <2>7. CASE ExpandLVMLogicalVolume(c)
        <3>1. CASE llv' = llv
            BY <2>7, <3>1, StoreUntouched DEF ExpandLVMLogicalVolume
        <3>2. CASE llv' # llv
            <4>1. /\ llv' = Put(local[c].fin, reqSize[c])
                  /\ llv.exists /\ Fresh(local[c])
                BY <2>7, <3>2 DEF ExpandLVMLogicalVolume, ExpandUpdateApplies, Return
            <4>2. local[c].fin = llv.fin
                BY <4>1 DEF Fresh, IInv, CopiesCoherent
            <4>3. /\ llv'.fin = llv.fin /\ llv'.deleting = llv.deleting
                  /\ llv'.phase = llv.phase /\ llv'.rv = llv.rv + 1
                  /\ llv'.exists = ~(llv'.deleting /\ llv'.fin = {})
                BY <4>1, <4>2, StoreWriteFields DEF Put
            <4>4. lvOnNode' = lvOnNode /\ local' = local
                BY <2>7 DEF ExpandLVMLogicalVolume
            <4>5. /\ lvOnNode' => AgentFinalizer \in llv'.fin
                  /\ (~llv'.deleting /\ llv'.phase # "None")
                        => AgentFinalizer \in llv'.fin
                BY <4>1, <4>3, <4>4
                DEF IInv, LVNeverOrphaned, AgentHoldsFinalizer
            <4>6. QED
                BY <4>3, <4>4, <4>5, WriteKeepsIInv
        <3>3. QED
            BY <3>1, <3>2
    <2>8. CASE Cancel(c)
        BY <2>8, StoreUntouched DEF Cancel, storeVars
    <2>9. QED
        BY <1>1, <2>1, <2>2, <2>3, <2>4, <2>5, <2>6, <2>7, <2>8 DEF Caller
<1>2. ASSUME Environment PROVE Rest'
    <2>0. UNCHANGED local
        BY <1>2 DEF Environment, AgentStart, AgentCreate, AgentFail,
                    AgentResize, AgentDelete, UserDelete, ForeignUpdate,
                    callerVars
    <2>1. CASE AgentStart
        <3>1. llv' = StoreWrite(llv.fin \cup {AgentFinalizer}, llv.deleting,
                                LLVStatusPending, llv.size, llv.actual)
              /\ lvOnNode' = lvOnNode
            BY <2>1 DEF AgentStart
        <3>2. /\ llv'.fin = llv.fin \cup {AgentFinalizer}
              /\ llv'.rv = llv.rv + 1
              /\ llv'.exists = ~(llv'.deleting /\ llv'.fin = {})
            BY <3>1, StoreWriteFields
        <3>3. QED
            BY <2>0, <3>1, <3>2, WriteKeepsIInv
    <2>2. CASE AgentCreate
        <3>1. PICK a \in ActualSizes(llv.size) :
                /\ llv' = StoreWrite(llv.fin, llv.deleting, LLVStatusCreated,
                                     llv.size, a)
                /\ lvOnNode' = TRUE
            BY <2>2 DEF AgentCreate
        <3>2. /\ llv'.fin = llv.fin /\ llv'.deleting = llv.deleting
              /\ llv'.rv = llv.rv + 1
              /\ llv'.exists = ~(llv'.deleting /\ llv'.fin = {})
            BY <3>1, StoreWriteFields
        <3>3. AgentFinalizer \in llv.fin
            <4>1. LLVStatusPending # "None"
                BY DEF LLVStatusPending
            <4>2. QED
                BY <2>2, <4>1 DEF AgentCreate, IInv, AgentHoldsFinalizer
        <3>4. QED
            BY <2>0, <3>2, <3>3, WriteKeepsIInv
    <2>3. CASE AgentFail \/ AgentResize
        <3>1. PICK ph, a :
                /\ llv' = StoreWrite(llv.fin, llv.deleting, ph, llv.size, a)
                /\ lvOnNode' = lvOnNode
            BY <2>3 DEF AgentFail, AgentResize
        <3>2. /\ llv'.fin = llv.fin /\ llv'.rv = llv.rv + 1
              /\ llv'.exists = ~(llv'.deleting /\ llv'.fin = {})
            BY <3>1, StoreWriteFields
        <3>3. AgentFinalizer \in llv.fin
            <4>1. LLVStatusPending # "None" /\ LLVStatusCreated # "None"
                BY DEF LLVStatusPending, LLVStatusCreated
            <4>2. QED
                BY <2>3, <4>1 DEF AgentFail, AgentResize, IInv,
                                  AgentHoldsFinalizer
        <3>4. QED
            BY <2>0, <3>2, <3>3, WriteKeepsIInv
    <2>7. CASE ForeignUpdate
        <3>1. llv' = StoreWrite(llv.fin, llv.deleting, llv.phase, llv.size,
                                llv.actual)
              /\ lvOnNode' = lvOnNode /\ llv.exists
            BY <2>7 DEF ForeignUpdate
        <3>2. /\ llv'.fin = llv.fin /\ llv'.deleting = llv.deleting
              /\ llv'.phase = llv.phase /\ llv'.rv = llv.rv + 1
              /\ llv'.exists = ~(llv'.deleting /\ llv'.fin = {})
            BY <3>1, StoreWriteFields
        <3>3. /\ lvOnNode' => AgentFinalizer \in llv'.fin
              /\ (~llv'.deleting /\ llv'.phase # "None")
                    => AgentFinalizer \in llv'.fin
            BY <3>1, <3>2 DEF IInv, LVNeverOrphaned, AgentHoldsFinalizer
        <3>4. QED
            BY <2>0, <3>2, <3>3, WriteKeepsIInv
    <2>4. CASE AgentDelete
        <3>1. llv' = StoreWrite(llv.fin \ {AgentFinalizer}, llv.deleting,
                                llv.phase, llv.size, llv.actual)
              /\ ~lvOnNode' /\ llv.deleting
            BY <2>4 DEF AgentDelete
        <3>2. /\ llv'.deleting = llv.deleting /\ llv'.rv = llv.rv + 1
              /\ llv'.exists = ~(llv'.deleting /\ llv'.fin = {})
            BY <3>1 DEF StoreWrite
        <3>3. QED
            BY <2>0, <3>1, <3>2, WriteKeepsIInv
    <2>5. CASE UserDelete
        <3>1. llv' = StoreWrite(llv.fin, TRUE, llv.phase, llv.size,
                                llv.actual)
              /\ lvOnNode' = lvOnNode
            BY <2>5 DEF UserDelete
        <3>2. /\ llv'.fin = llv.fin /\ llv'.deleting = TRUE
              /\ llv'.rv = llv.rv + 1
              /\ llv'.exists = ~(llv'.deleting /\ llv'.fin = {})
            <4>1. /\ llv'.fin = llv.fin /\ llv'.deleting = TRUE
                  /\ llv'.rv = llv.rv + 1
                  /\ llv'.exists = ~(TRUE /\ llv.fin = {})
                BY <3>1 DEF StoreWrite
            <4>2. QED
                BY <4>1, Zenon
        <3>3. lvOnNode' => AgentFinalizer \in llv'.fin
            BY <3>1, <3>2 DEF IInv, LVNeverOrphaned
        <3>4. QED
            BY <2>0, <3>2, <3>3, WriteKeepsIInv
    <2>6. QED
        BY <1>2, <2>1, <2>2, <2>3, <2>4, <2>5, <2>7 DEF Environment
<1>3. ASSUME UNCHANGED vars PROVE Rest'
    <2>1. llv' = llv /\ lvOnNode' = lvOnNode /\ local' = local
        BY <1>3 DEF vars, storeVars, callerVars
    <2>2. QED
        BY <2>1, StoreUntouched
<1>4. QED
    BY <1>0, <1>1, <1>2, <1>3 DEF Next, IInv, Rest

(* No full-object Update by the CSI controller drops the agent's          *)
(* finalizer (removeLLVFinalizerIfExist, ExpandLVMLogicalVolume), so an LV *)
(* on the node always has a record that still carries that finalizer.      *)
THEOREM NeverOrphaned == Spec => []LVNeverOrphaned
<1>1. IInv => LVNeverOrphaned
    BY DEF IInv
<1>2. QED
    BY <1>1, InitIInv, NextIInv, PTL DEF Spec
=============================================================================
