-------------------------- MODULE LLVReleaseProofs --------------------------
(***************************************************************************)
(* Proofs about the CSI finalizer of LLVLifecycle, for every value of its  *)
(* constants: the record stays in the store until the controller has      *)
(* released its finalizer (RecordKeptUntilReleased), and the release loop  *)
(* of removeLLVFinalizerIfExist keeps its attempt budget (ReleaseBudget).  *)
(***************************************************************************)
EXTENDS LLVLifecycleProofs

USE LimitAssumption, SizesAssumption, BoundsAssumption

(* While the controller has not released the current incarnation, that    *)
(* incarnation is in the store and carries the CSI finalizer.              *)
CSIHeld ==
    (llv.uid > 0 /\ ~csiReleased)
        => (llv.exists /\ SDSLocalVolumeCSIFinalizer \in llv.fin)

(* The strengthening of RecordKeptUntilReleased: CSIHeld, and IInv for the *)
(* copies, whose full-object Updates must not drop the finalizer.          *)
KeptInv == IInv /\ CSIHeld

(* The bookkeeping of handler c's release loop: a delete starts with no    *)
(* Conflicts, inside the loop every attempt so far ended in a Conflict, a  *)
(* running call has no result yet, and the loop gives up for the budget   *)
(* only after KubernetesAPIRequestLimit Conflicts.                         *)
BudgetOK(c) ==
    /\ pc[c] = "DelGet" => conflicts[c] = 0
    /\ pc[c] = "RmFin" => conflicts[c] = attempt[c]
    /\ pc[c] # "Idle" => result[c] = "none"
    /\ result[c] = "ExhaustedNoCause"
          => conflicts[c] = KubernetesAPIRequestLimit
    /\ conflicts[c] <= KubernetesAPIRequestLimit

BudgetInv == TypeOK /\ \A c \in Callers : BudgetOK(c)

-----------------------------------------------------------------------------
(* RecordKeptUntilReleased.                                                *)

(* A store write that keeps the CSI finalizer of an unreleased record     *)
(* keeps CSIHeld.                                                          *)
LEMMA HeldWrite ==
    ASSUME CSIHeld,
           NEW f, NEW d, NEW ph, NEW sz, NEW act,
           llv' = StoreWrite(f, d, ph, sz, act),
           csiReleased' = csiReleased,
           (llv.uid > 0 /\ ~csiReleased) => SDSLocalVolumeCSIFinalizer \in f
    PROVE  CSIHeld'
BY DEF StoreWrite, CSIHeld

LEMMA InitKeptInv == Init => KeptInv
<1>1. Init => CSIHeld
    BY DEF Init, NoLLV, CSIHeld
<1>2. QED
    BY <1>1, InitIInv DEF KeptInv

LEMMA NextCSIHeld == KeptInv /\ [Next]_vars => CSIHeld'
<1> SUFFICES ASSUME KeptInv, [Next]_vars PROVE CSIHeld'
    OBVIOUS
<1>0. CSIHeld /\ TypeOK /\ CopiesCoherent
    BY DEF KeptInv, IInv
<1>1. ASSUME NEW c \in Callers, Caller(c) PROVE CSIHeld'
    <2>1. CASE Provision(c) \/ Deprovision(c) \/ Expand(c)
        BY <1>0, <2>1 DEF Provision, Deprovision, Expand, StartCall,
                         storeVars, CSIHeld
    <2>2. CASE WaitForStatusUpdate(c) \/ DeleteLVMLogicalVolumeGet(c)
               \/ ExpandGet(c) \/ Cancel(c)
        BY <1>0, <2>2 DEF WaitForStatusUpdate, DeleteLVMLogicalVolumeGet,
                         ExpandGet, Cancel, Return, storeVars, CSIHeld
    <2>3. CASE CreateLVMLogicalVolume(c)
        BY <1>0, <2>3 DEF CreateLVMLogicalVolume, NewLLV, Return, CSIHeld
    <2>4. CASE RemoveLLVFinalizerIfExist(c)
        BY <1>0, <2>4 DEF RemoveLLVFinalizerIfExist, Return, storeVars,
                         CSIHeld
    <2>5. CASE DeleteLVMLogicalVolumeDelete(c)
        <3>1. CASE llv' = llv /\ csiReleased' = csiReleased
            BY <1>0, <3>1 DEF CSIHeld
        <3>2. CASE /\ llv' = StoreWrite(llv.fin, TRUE, llv.phase, llv.size,
                                        llv.actual)
                   /\ csiReleased' = csiReleased
            BY <1>0, <3>2, HeldWrite DEF CSIHeld
        <3>3. QED
            BY <2>5, <3>1, <3>2 DEF DeleteLVMLogicalVolumeDelete
    <2>6. CASE ExpandLVMLogicalVolume(c)
        <3>1. CASE /\ ExpandUpdateApplies(c)
                   /\ llv' = Put(local[c].fin, reqSize[c])
                   /\ csiReleased' = csiReleased
            <4>1. local[c].fin = llv.fin
                BY <1>0, <3>1 DEF ExpandUpdateApplies, Fresh, CopiesCoherent
            <4>2. QED
                BY <1>0, <3>1, <4>1, HeldWrite DEF Put, CSIHeld
        <3>2. CASE llv' = llv /\ csiReleased' = csiReleased
            BY <1>0, <3>2 DEF CSIHeld
        <3>3. QED
            BY <2>6, <3>1, <3>2 DEF ExpandLVMLogicalVolume
    <2>7. QED
        BY <1>1, <2>1, <2>2, <2>3, <2>4, <2>5, <2>6 DEF Caller
<1>2. CASE Environment
    <2>1. CASE AgentStart
        BY <1>0, <2>1, HeldWrite DEF AgentStart, CSIHeld
    <2>2. CASE AgentCreate
        BY <1>0, <2>2, HeldWrite DEF AgentCreate, CSIHeld
    <2>3. CASE AgentFail \/ AgentResize
        BY <1>0, <2>3, HeldWrite DEF AgentFail, AgentResize, CSIHeld
    <2>4. CASE AgentDelete
        <3>1. SDSLocalVolumeCSIFinalizer # AgentFinalizer
            BY DEF SDSLocalVolumeCSIFinalizer, AgentFinalizer
        <3>2. QED
            BY <1>0, <2>4, <3>1, HeldWrite DEF AgentDelete, CSIHeld
    <2>5. CASE UserDelete \/ ForeignUpdate
        BY <1>0, <2>5, HeldWrite DEF UserDelete, ForeignUpdate, CSIHeld
    <2>6. QED
        BY <1>2, <2>1, <2>2, <2>3, <2>4, <2>5 DEF Environment
<1>3. CASE UNCHANGED vars
    BY <1>0, <1>3 DEF vars, storeVars, CSIHeld
<1>4. QED
    BY <1>1, <1>2, <1>3 DEF Next

LEMMA NextKeptInv == KeptInv /\ [Next]_vars => KeptInv'
BY NextCSIHeld, NextIInv DEF KeptInv

(* No write of the controller, the agent, another writer or a user can    *)
(* take a record out of the store before removeLLVFinalizerIfExist has     *)
(* released the CSI finalizer that CreateLVMLogicalVolume put on it: the   *)
(* record outlives a direct user delete, and its LV is never left without  *)
(* the controller's knowledge.                                             *)
THEOREM KeptUntilReleased == Spec => []RecordKeptUntilReleased
<1>1. KeptInv => RecordKeptUntilReleased
    BY DEF KeptInv, CSIHeld, RecordKeptUntilReleased
<1>2. QED
    BY <1>1, InitKeptInv, NextKeptInv, PTL DEF Spec

-----------------------------------------------------------------------------
(* ReleaseBudget.                                                          *)

(* The part of the state that describes handler c's release loop.          *)
Own(c) == <<pc[c], attempt[c], conflicts[c], result[c]>>

(* A step of another handler, or of the environment, leaves handler d's   *)
(* loop alone.                                                             *)
LEMMA Frame ==
    ASSUME TypeOK, NEW c \in Callers, NEW d \in Callers, c # d, Caller(c)
    PROVE  Own(d)' = Own(d)
<1>1. CASE Provision(c) \/ Deprovision(c) \/ Expand(c)
    BY <1>1 DEF Provision, Deprovision, Expand, StartCall, Own, TypeOK
<1>2. CASE CreateLVMLogicalVolume(c) \/ WaitForStatusUpdate(c)
    BY <1>2 DEF CreateLVMLogicalVolume, WaitForStatusUpdate, Return, Own,
                TypeOK
<1>3. CASE DeleteLVMLogicalVolumeGet(c) \/ DeleteLVMLogicalVolumeDelete(c)
    BY <1>3 DEF DeleteLVMLogicalVolumeGet, DeleteLVMLogicalVolumeDelete,
                Return, Own, TypeOK
<1>4. CASE RemoveLLVFinalizerIfExist(c)
    BY <1>4 DEF RemoveLLVFinalizerIfExist, Return, Own, TypeOK
<1>5. CASE ExpandGet(c) \/ ExpandLVMLogicalVolume(c) \/ Cancel(c)
    BY <1>5 DEF ExpandGet, ExpandLVMLogicalVolume, Cancel, Return, Own,
                TypeOK
<1>6. QED
    BY <1>1, <1>2, <1>3, <1>4, <1>5 DEF Caller

LEMMA InitBudgetInv == Init => BudgetInv
<1>1. ASSUME Init, NEW c \in Callers PROVE BudgetOK(c)
    <2>1. pc[c] = "Idle" /\ conflicts[c] = 0 /\ result[c] = "none"
        BY <1>1 DEF Init
    <2>2. QED
        BY <2>1, LimitAssumption DEF BudgetOK
<1>2. QED
    BY <1>1, InitTypeOK DEF BudgetInv

(* Handler c's own step keeps BudgetOK(c).                                 *)
LEMMA OwnStep ==
    ASSUME NEW c \in Callers, TypeOK, BudgetOK(c), Caller(c)
    PROVE  BudgetOK(c)'
<1>1. CASE Provision(c) \/ Deprovision(c) \/ Expand(c)
    BY <1>1, LimitAssumption DEF Provision, Deprovision, Expand, StartCall,
                                 BudgetOK, TypeOK
<1>2. CASE CreateLVMLogicalVolume(c) \/ WaitForStatusUpdate(c)
    BY <1>2 DEF CreateLVMLogicalVolume, WaitForStatusUpdate, PollOutcome,
                Return, BudgetOK, TypeOK
<1>3. CASE DeleteLVMLogicalVolumeGet(c)
    BY <1>3 DEF DeleteLVMLogicalVolumeGet, Return, BudgetOK, TypeOK
<1>4. CASE DeleteLVMLogicalVolumeDelete(c)
    BY <1>4 DEF DeleteLVMLogicalVolumeDelete, Return, BudgetOK, TypeOK
<1>5. CASE ExpandGet(c) \/ ExpandLVMLogicalVolume(c) \/ Cancel(c)
    BY <1>5 DEF ExpandGet, ExpandLVMLogicalVolume, Cancel, Return, BudgetOK,
                TypeOK
<1>6. CASE RemoveLLVFinalizerIfExist(c)
    <2>0. /\ pc[c] = "RmFin" /\ conflicts[c] = attempt[c]
          /\ attempt[c] \in 0 .. KubernetesAPIRequestLimit
          /\ conflicts \in [Callers -> Nat] /\ attempt \in [Callers -> Nat]
          /\ pc \in [Callers -> PCs] /\ result \in [Callers -> Results]
        BY <1>6 DEF RemoveLLVFinalizerIfExist, BudgetOK, TypeOK
    (* The budget is spent: attempt = conflicts = the limit.               *)
    <2>1. CASE /\ ~ReleaseLoopContinues(c)
               /\ Return(c, "ExhaustedNoCause")
               /\ UNCHANGED <<attempt, conflicts>>
        <3>1. conflicts[c] = KubernetesAPIRequestLimit
            BY <2>0, <2>1, LimitAssumption DEF ReleaseLoopContinues
        <3>2. QED
            BY <2>0, <2>1, <3>1 DEF Return, BudgetOK
    (* The loop ends without a new Conflict.                               *)
    <2>2. CASE /\ pc' = [pc EXCEPT ![c] = "Delete"]
               /\ UNCHANGED <<attempt, conflicts, result>>
        BY <1>6, <2>0, <2>2 DEF BudgetOK
    <2>3. CASE /\ \E r \in {"NotFound", "Error"} : Return(c, r)
               /\ UNCHANGED <<attempt, conflicts>>
        BY <1>6, <2>0, <2>3 DEF Return, BudgetOK
    (* A Conflict within the budget.                                       *)
    <2>4. CASE /\ ReleaseLoopContinues(c)
               /\ conflicts' = [conflicts EXCEPT ![c] = conflicts[c] + 1]
               /\ \/ /\ \E r \in {"Canceled", "Error"} : Return(c, r)
                     /\ UNCHANGED attempt
                  \/ /\ attempt' = [attempt EXCEPT ![c] = attempt[c] + 1]
                     /\ UNCHANGED <<pc, result>>
        <3>0. conflicts' = [conflicts EXCEPT ![c] = conflicts[c] + 1]
              /\ attempt[c] < KubernetesAPIRequestLimit
            BY <2>4 DEF ReleaseLoopContinues
        <3>1. conflicts'[c] = conflicts[c] + 1
              /\ conflicts[c] + 1 <= KubernetesAPIRequestLimit
            BY <2>0, <3>0
        <3>2. QED
            BY <2>0, <2>4, <3>1 DEF Return, BudgetOK
    <2>5. QED
        <3>1. CASE ~ReleaseLoopContinues(c)
            <4>1. Return(c, "ExhaustedNoCause")
                  /\ UNCHANGED <<storeVars, local, attempt, conflicts>>
                BY <1>6, <3>1 DEF RemoveLLVFinalizerIfExist
            <4>2. UNCHANGED <<attempt, conflicts>>
                BY <4>1
            <4>3. QED
                BY <2>1, <3>1, <4>1, <4>2
        <3>2. CASE /\ ReleaseLoopContinues(c)
                   /\ Live(c) /\ llv.exists /\ ~Fresh(local[c])
                   /\ conflicts' = [conflicts EXCEPT ![c] = @ + 1]
                   /\ IF attempt[c] < KubernetesAPIRequestLimit - 1
                      THEN \/ /\ Return(c, "Canceled")
                              /\ UNCHANGED <<local, attempt>>
                           \/ /\ local' = [local EXCEPT ![c] = llv]
                              /\ attempt' = [attempt EXCEPT ![c] = @ + 1]
                              /\ UNCHANGED <<pc, result>>
                           \/ /\ Return(c, "Error")
                              /\ UNCHANGED <<local, attempt>>
                      ELSE /\ attempt' = [attempt EXCEPT ![c] = @ + 1]
                           /\ UNCHANGED <<pc, result, local>>
            BY <2>4, <3>2, Zenon
        <3>3. QED
            BY <1>6, <2>1, <2>2, <2>3, <3>1, <3>2, Zenon
            DEF RemoveLLVFinalizerIfExist
<1>7. QED
    BY <1>1, <1>2, <1>3, <1>4, <1>5, <1>6 DEF Caller

LEMMA NextBudgetInv == BudgetInv /\ [Next]_vars => BudgetInv'
<1> SUFFICES ASSUME BudgetInv, [Next]_vars PROVE BudgetInv'
    OBVIOUS
<1>1. TypeOK'
    BY NextTypeOK DEF BudgetInv
<1>2. ASSUME NEW d \in Callers PROVE BudgetOK(d)'
    <2>1. BudgetOK(d) /\ TypeOK
        BY DEF BudgetInv
    <2>2. ASSUME NEW c \in Callers, Caller(c) PROVE BudgetOK(d)'
        <3>1. CASE c = d
            BY <2>1, <2>2, <3>1, OwnStep
        <3>2. CASE c # d
            BY <2>1, <2>2, <3>2, Frame DEF BudgetOK, Own
        <3>3. QED
            BY <3>1, <3>2
    <2>3. CASE Environment
        BY <2>1, <2>3 DEF Environment, AgentStart, AgentCreate, AgentFail,
                         AgentResize, AgentDelete, UserDelete, ForeignUpdate,
                         callerVars, BudgetOK
    <2>4. CASE UNCHANGED vars
        BY <2>1, <2>4 DEF vars, callerVars, BudgetOK
    <2>5. QED
        BY <2>2, <2>3, <2>4 DEF Next
<1>3. QED
    BY <1>1, <1>2 DEF BudgetInv

(* removeLLVFinalizerIfExist issues at most KubernetesAPIRequestLimit      *)
(* Updates and gives up for the budget only after exactly that many       *)
(* Conflicts, for every budget and number of concurrent handlers, whatever *)
(* cancellations and other writers do.                                     *)
THEOREM BudgetKept == Spec => []ReleaseBudget
<1>1. BudgetInv => ReleaseBudget
    BY DEF BudgetInv, BudgetOK, ReleaseBudget
<1>2. QED
    BY <1>1, InitBudgetInv, NextBudgetInv, PTL DEF Spec
=============================================================================
