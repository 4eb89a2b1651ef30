---------------------------- MODULE LLVLifecycle ----------------------------
(***************************************************************************)
(* The life of one LVMLogicalVolume (LLV) record as the sds-local-volume   *)
(* CSI controller drives it through the Kubernetes API                     *)
(* (images/sds-local-volume-csi/src/pkg/utils/func.go):                    *)
(*                                                                         *)
(*   CreateLVMLogicalVolume   creates the record with the CSI finalizer,   *)
(*   WaitForStatusUpdate      polls it until the node agent settles it,    *)
(*   DeleteLVMLogicalVolume   fetches it, removes the CSI finalizer with   *)
(*                            removeLLVFinalizerIfExist (optimistic        *)
(*                            concurrency, refetch on Conflict) and        *)
(*                            deletes it,                                  *)
(*   ExpandLVMLogicalVolume   writes a new spec.size with a fetched copy.  *)
(*                                                                         *)
(* Several controller request handlers (Callers) run these concurrently on *)
(* the same volume name.  The environment is the store (resourceVersion    *)
(* check on Update, removal of a record marked for deletion once its last  *)
(* finalizer is gone), the sds-node-configurator agent that creates the LV *)
(* on the node and owns its own finalizer, other writers that only bump    *)
(* the resourceVersion, a user deleting the record directly, and context   *)
(* cancellation (gRPC deadline) of a request.                              *)
(*                                                                         *)
(* Only one volume name is modelled: the code never relates two names.     *)
(* Sizes are small naturals; the data of a record is abstracted to the     *)
(* fields some guard reads.                                                *)
(***************************************************************************)
EXTENDS Naturals

CONSTANTS
    Callers,                    \* concurrent controller request handlers
    KubernetesAPIRequestLimit,  \* attempt budget of removeLLVFinalizerIfExist
    RequestSizes,               \* sizes a CreateVolume or expansion asks for
    Delta,                      \* size tolerance given to WaitForStatusUpdate
    MaxCalls,                   \* bound: CSI calls in one behaviour
    MaxPolls,                   \* bound: polling iterations of one wait
    MaxForeignWrites,           \* bound: unrelated writes to the record
    ForeignDelete               \* may a user delete the LLV object directly?

ASSUME LimitAssumption == KubernetesAPIRequestLimit \in Nat \ {0}
ASSUME SizesAssumption == RequestSizes \subseteq Nat /\ Delta \in Nat
ASSUME BoundsAssumption ==
    /\ MaxCalls \in Nat /\ MaxPolls \in Nat /\ MaxForeignWrites \in Nat
    /\ ForeignDelete \in BOOLEAN

(* Finalizers: the CSI controller's (SDSLocalVolumeCSIFinalizer) and the   *)
(* node agent's, which it holds while an LV may exist on the node.         *)
SDSLocalVolumeCSIFinalizer == "csi"
AgentFinalizer == "agent"
Finalizers == {SDSLocalVolumeCSIFinalizer, AgentFinalizer}

(* status.phase; "None" stands for llv.Status == nil.                      *)
LLVStatusCreated == "Created"
LLVStatusFailed == "Failed"
LLVStatusPending == "Pending"
Phases == {"None", LLVStatusPending, LLVStatusCreated, LLVStatusFailed}

(* The sizes the agent may report for a requested size s: LVM rounds up to *)
(* whole extents, by up to Delta.                                          *)
ActualSizes(s) == s .. s + Delta

(* A record as the store keeps it.  exists = FALSE means the name is free; *)
(* the other fields then keep the last incarnation's values, and rv is the *)
(* store's revision counter, which every write advances.                   *)
LLV == [exists : BOOLEAN, uid : Nat, rv : Nat, fin : SUBSET Finalizers,
        deleting : BOOLEAN, phase : Phases, size : Nat, actual : Nat]

PCs == {"Idle", "Create", "Wait", "DelGet", "RmFin", "Delete",
        "ExpGet", "ExpUpdate"}

Results == {"none", "Ok", "Error", "NotFound", "AlreadyExists", "Canceled",
            "Deleting", "VolumeFailed", "Conflict", "ExhaustedNoCause"}

VARIABLES
    llv,            \* the LLV record in the store
    lvOnNode,       \* the agent has an LV for this name on the node
    csiReleased,    \* history: a CSI Update removed the CSI finalizer from
                    \*   the current incarnation
    foreignWrites,  \* writes by other controllers so far
    pc,             \* pc[c]: where handler c is
    reqSize,        \* reqSize[c]: the size handler c asks for
    local,          \* local[c]: handler c's fetched copy of the record
    attempt,        \* attempt[c]: loop counter of removeLLVFinalizerIfExist
    conflicts,      \* history: Conflicts met by c's current release loop
    attemptCounter, \* attemptCounter[c]: iterations of WaitForStatusUpdate
    ctxDone,        \* ctxDone[c]: the request's context is done
    result,         \* result[c]: what c's last call returned
    calls           \* CSI calls started so far

storeVars == <<llv, lvOnNode, csiReleased, foreignWrites>>
callerVars == <<pc, reqSize, local, attempt, conflicts, attemptCounter,
                ctxDone, result, calls>>
vars == <<storeVars, callerVars>>

NoLLV == [exists |-> FALSE, uid |-> 0, rv |-> 0, fin |-> {},
          deleting |-> FALSE, phase |-> "None", size |-> 0, actual |-> 0]

-----------------------------------------------------------------------------
(* Store semantics.                                                        *)

(* The store's result of a write to the current record that leaves it     *)
(* with finalizers fin, deletion mark del, status phase ph and actualSize  *)
(* act and spec.size sz: the revision advances, and a record marked for    *)
(* deletion whose last finalizer is gone is removed.                       *)
StoreWrite(fin, del, ph, sz, act) ==
    [exists |-> ~(del /\ fin = {}), uid |-> llv.uid, rv |-> llv.rv + 1,
     fin |-> fin, deleting |-> del, phase |-> ph, size |-> sz, actual |-> act]

(* A full-object Update with finalizers fin and spec.size sz from a copy:  *)
(* status (a subresource) and deletionTimestamp stay as they are.          *)
Put(fin, sz) == StoreWrite(fin, llv.deleting, llv.phase, sz, llv.actual)

(* The optimistic-concurrency precondition of Update.                      *)
Fresh(cp) == cp.rv = llv.rv

(* A store call of handler c can succeed only while its context is live;   *)
(* any call may fail with a transient error.                               *)
Live(c) == ~ctxDone[c]

Return(c, r) ==
    /\ pc' = [pc EXCEPT ![c] = "Idle"]
    /\ result' = [result EXCEPT ![c] = r]

AreSizesEqualWithinDelta(l, r, d) ==
    IF l >= r THEN l - r < d ELSE r - l < d

-----------------------------------------------------------------------------
Init ==
    /\ llv = NoLLV
    /\ lvOnNode = FALSE
    /\ csiReleased = FALSE
    /\ foreignWrites = 0
    /\ pc = [c \in Callers |-> "Idle"]
    /\ reqSize = [c \in Callers |-> 0]
    /\ local = [c \in Callers |-> NoLLV]
    /\ attempt = [c \in Callers |-> 0]
    /\ conflicts = [c \in Callers |-> 0]
    /\ attemptCounter = [c \in Callers |-> 0]
    /\ ctxDone = [c \in Callers |-> FALSE]
    /\ result = [c \in Callers |-> "none"]
    /\ calls = 0

-----------------------------------------------------------------------------
(* Controller entry points: a request arrives at an idle handler.          *)

StartCall(c, entry, s) ==
    /\ pc[c] = "Idle"
    /\ calls < MaxCalls
    /\ pc' = [pc EXCEPT ![c] = entry]
    /\ reqSize' = [reqSize EXCEPT ![c] = s]
    /\ ctxDone' = [ctxDone EXCEPT ![c] = FALSE]
    /\ result' = [result EXCEPT ![c] = "none"]
    /\ attemptCounter' = [attemptCounter EXCEPT ![c] = 0]
    /\ conflicts' = [conflicts EXCEPT ![c] = 0]
    /\ calls' = calls + 1
    /\ UNCHANGED <<storeVars, local, attempt>>

(* CreateVolume: create the record, then wait for it.                      *)
Provision(c) == \E s \in RequestSizes : StartCall(c, "Create", s)

(* DeleteVolume: DeleteLVMLogicalVolume.                                   *)
Deprovision(c) == StartCall(c, "DelGet", reqSize[c])

(* ControllerExpandVolume: fetch the record, then ExpandLVMLogicalVolume.  *)
Expand(c) == \E s \in RequestSizes : StartCall(c, "ExpGet", s)

-----------------------------------------------------------------------------
(* Mutant: the record is created without the CSI finalizer.              *)
NewLLVWithoutFinalizer(c) ==
    [exists |-> TRUE, uid |-> llv.uid + 1, rv |-> llv.rv + 1, fin |-> {},
     deleting |-> FALSE, phase |-> "None", size |-> reqSize[c], actual |-> 0]

(* The record CreateLVMLogicalVolume stores: a new incarnation of the name *)
(* carrying the CSI finalizer and the requested spec, without a status.    *)
NewLLV(c) ==
    [exists |-> TRUE, uid |-> llv.uid + 1, rv |-> llv.rv + 1,
     fin |-> {SDSLocalVolumeCSIFinalizer}, deleting |-> FALSE,
     phase |-> "None", size |-> reqSize[c], actual |-> 0]

(* CreateLVMLogicalVolume: a single Create of a record carrying the CSI    *)
(* finalizer.  AlreadyExists when the name is taken.                       *)
CreateLVMLogicalVolume(c) ==
    /\ pc[c] = "Create"
    /\ \/ /\ Live(c) /\ ~llv.exists
          /\ llv' = NewLLV(c)
          /\ csiReleased' = FALSE
          /\ pc' = [pc EXCEPT ![c] = "Wait"]
          /\ UNCHANGED result
       \/ /\ Live(c) /\ llv.exists
          /\ Return(c, "AlreadyExists")
          /\ UNCHANGED <<llv, csiReleased>>
       \/ /\ Return(c, "Error")
          /\ UNCHANGED <<llv, csiReleased>>
    /\ UNCHANGED <<lvOnNode, foreignWrites, reqSize, local, attempt,
                   conflicts, attemptCounter, ctxDone, calls>>

(* What one polling iteration makes of a fetched record r.                 *)
PollOutcome(r, size) ==
    IF r.phase = "None" THEN "Continue"
    ELSE IF r.deleting THEN "Deleting"
    ELSE IF r.phase = LLVStatusFailed THEN "VolumeFailed"
    ELSE IF r.phase = LLVStatusCreated
            /\ AreSizesEqualWithinDelta(size, r.actual, Delta) THEN "Ok"
    ELSE "Continue"

(* One iteration of the WaitForStatusUpdate loop: count the attempt, give  *)
(* up if the context is done, fetch the record, and decide.                *)
WaitForStatusUpdate(c) ==
    /\ pc[c] = "Wait"
    /\ attemptCounter' = [attemptCounter EXCEPT ![c] = @ + 1]
    /\ \/ /\ ctxDone[c]
          /\ Return(c, "Canceled")
       \/ /\ Live(c)
          /\ Return(c, "Error")
       \/ /\ Live(c) /\ ~llv.exists
          /\ Return(c, "NotFound")
       \/ /\ Live(c) /\ llv.exists
          /\ LET o == PollOutcome(llv, reqSize[c]) IN
               IF o = "Continue"
               THEN /\ attemptCounter[c] < MaxPolls
                    /\ UNCHANGED <<pc, result>>
               ELSE Return(c, o)
    /\ UNCHANGED <<storeVars, reqSize, local, attempt, conflicts, ctxDone,
                   calls>>

(* DeleteLVMLogicalVolume, first step: GetLVMLogicalVolume.                *)
DeleteLVMLogicalVolumeGet(c) ==
    /\ pc[c] = "DelGet"
    /\ \/ /\ Live(c) /\ llv.exists
          /\ local' = [local EXCEPT ![c] = llv]
          /\ attempt' = [attempt EXCEPT ![c] = 0]
          /\ pc' = [pc EXCEPT ![c] = "RmFin"]
          /\ UNCHANGED result
       \/ /\ Live(c) /\ ~llv.exists
          /\ Return(c, "NotFound")
          /\ UNCHANGED <<local, attempt>>
       \/ /\ Return(c, "Error")
          /\ UNCHANGED <<local, attempt>>
    /\ UNCHANGED <<storeVars, reqSize, conflicts, attemptCounter, ctxDone,
                   calls>>

(* Mutant: the loop runs one attempt past the budget.                    *)
ReleaseLoopOneOver(c) == attempt[c] <= KubernetesAPIRequestLimit

(* Mutant: the loop runs one attempt short of the budget.                 *)
ReleaseLoopOneShort(c) == attempt[c] < KubernetesAPIRequestLimit - 1

(* Mutant: the Update is sent without the resourceVersion precondition.    *)
FinalizerUpdateUnconditional(c) == Live(c) /\ llv.exists

(* The loop condition of removeLLVFinalizerIfExist.                        *)
ReleaseLoopContinues(c) == attempt[c] < KubernetesAPIRequestLimit

(* kc.Update of c's copy succeeds: the copy carries the resourceVersion it *)
(* was fetched with, and the store accepts it only if that is current.     *)
FinalizerUpdateApplies(c) == Live(c) /\ llv.exists /\ Fresh(local[c])

(* removeLLVFinalizerIfExist, one iteration of its loop.  The finalizer is *)
(* dropped from the local copy and the copy is written with Update; a      *)
(* Conflict refetches the record (unless this was the last attempt or the  *)
(* context is done) and tries again; any other error ends the call.        *)
RemoveLLVFinalizerIfExist(c) ==
    /\ pc[c] = "RmFin"
    /\ \/ /\ ~ReleaseLoopContinues(c)
          /\ Return(c, "ExhaustedNoCause")
          /\ UNCHANGED <<storeVars, local, attempt, conflicts>>
       \/ /\ ReleaseLoopContinues(c)
          /\ SDSLocalVolumeCSIFinalizer \notin local[c].fin
          /\ pc' = [pc EXCEPT ![c] = "Delete"]
          /\ UNCHANGED <<storeVars, local, attempt, conflicts, result>>
       \/ /\ ReleaseLoopContinues(c)
          /\ SDSLocalVolumeCSIFinalizer \in local[c].fin
          /\ \/ /\ FinalizerUpdateApplies(c)
                /\ llv' = Put(local[c].fin \ {SDSLocalVolumeCSIFinalizer},
                             local[c].size)
                /\ local' = [local EXCEPT ![c] = llv']
                /\ csiReleased' = TRUE
                /\ pc' = [pc EXCEPT ![c] = "Delete"]
                /\ UNCHANGED <<lvOnNode, foreignWrites, attempt, conflicts,
                               result>>
             \/ /\ Live(c) /\ llv.exists /\ ~Fresh(local[c])
                /\ conflicts' = [conflicts EXCEPT ![c] = @ + 1]
                /\ IF attempt[c] < KubernetesAPIRequestLimit - 1
                   THEN \/ /\ Return(c, "Canceled")
                           /\ UNCHANGED <<local, attempt>>
                        \/ /\ local' = [local EXCEPT ![c] = llv]
                           /\ attempt' = [attempt EXCEPT ![c] = @ + 1]
                           /\ UNCHANGED <<pc, result>>
                        \/ /\ Return(c, "Error")
                           /\ UNCHANGED <<local, attempt>>
                   ELSE /\ attempt' = [attempt EXCEPT ![c] = @ + 1]
                        /\ UNCHANGED <<pc, result, local>>
                /\ UNCHANGED storeVars
             \/ /\ Live(c) /\ ~llv.exists
                /\ Return(c, "NotFound")
                /\ UNCHANGED <<storeVars, local, attempt, conflicts>>
             \/ /\ Return(c, "Error")
                /\ UNCHANGED <<storeVars, local, attempt, conflicts>>
    /\ UNCHANGED <<reqSize, attemptCounter, ctxDone, calls>>

(* DeleteLVMLogicalVolume, last step: Delete by name.  The store marks the *)
(* record for deletion, and removes it if no finalizer is left.            *)
DeleteLVMLogicalVolumeDelete(c) ==
    /\ pc[c] = "Delete"
    /\ \/ /\ Live(c) /\ llv.exists
          /\ llv' = IF llv.deleting THEN llv
                    ELSE StoreWrite(llv.fin, TRUE, llv.phase, llv.size,
                                    llv.actual)
          /\ Return(c, "Ok")
       \/ /\ Live(c) /\ ~llv.exists
          /\ Return(c, "NotFound")
          /\ UNCHANGED llv
       \/ /\ Return(c, "Error")
          /\ UNCHANGED llv
    /\ UNCHANGED <<lvOnNode, csiReleased, foreignWrites, reqSize, local,
                   attempt, conflicts, attemptCounter, ctxDone, calls>>

(* ControllerExpandVolume's GetLVMLogicalVolume before the expansion.      *)
ExpandGet(c) ==
    /\ pc[c] = "ExpGet"
    /\ \/ /\ Live(c) /\ llv.exists
          /\ local' = [local EXCEPT ![c] = llv]
          /\ pc' = [pc EXCEPT ![c] = "ExpUpdate"]
          /\ UNCHANGED result
       \/ /\ Live(c) /\ ~llv.exists
          /\ Return(c, "NotFound")
          /\ UNCHANGED local
       \/ /\ Return(c, "Error")
          /\ UNCHANGED local
    /\ UNCHANGED <<storeVars, reqSize, attempt, conflicts, attemptCounter,
                   ctxDone, calls>>

(* Mutant: the expansion's Update is sent without the resourceVersion     *)
(* precondition.                                                           *)
ExpandUpdateUnconditional(c) == Live(c) /\ llv.exists

(* kc.Update of the expanded copy succeeds only if its resourceVersion is  *)
(* current.                                                                *)
ExpandUpdateApplies(c) == Live(c) /\ llv.exists /\ Fresh(local[c])

(* ExpandLVMLogicalVolume: set spec.size on the fetched copy and Update it *)
(* once; a Conflict is returned to the caller.                             *)
ExpandLVMLogicalVolume(c) ==
    /\ pc[c] = "ExpUpdate"
    /\ \/ /\ ExpandUpdateApplies(c)
          /\ llv' = Put(local[c].fin, reqSize[c])
          /\ Return(c, "Ok")
       \/ /\ Live(c) /\ llv.exists /\ ~Fresh(local[c])
          /\ Return(c, "Conflict")
          /\ UNCHANGED llv
       \/ /\ Live(c) /\ ~llv.exists
          /\ Return(c, "NotFound")
          /\ UNCHANGED llv
       \/ /\ Return(c, "Error")
          /\ UNCHANGED llv
    /\ UNCHANGED <<lvOnNode, csiReleased, foreignWrites, reqSize, local,
                   attempt, conflicts, attemptCounter, ctxDone, calls>>

-----------------------------------------------------------------------------
(* Environment.                                                            *)

(* The request's deadline passes or its client goes away.                  *)
Cancel(c) ==
    /\ pc[c] # "Idle"
    /\ ~ctxDone[c]
    /\ ctxDone' = [ctxDone EXCEPT ![c] = TRUE]
    /\ UNCHANGED <<storeVars, pc, reqSize, local, attempt, conflicts,
                   attemptCounter, result, calls>>

(* The node agent takes up a new record: it adds its finalizer and sets    *)
(* the phase to Pending.                                                   *)
AgentStart ==
    /\ llv.exists /\ ~llv.deleting /\ llv.phase = "None"
    /\ llv' = StoreWrite(llv.fin \cup {AgentFinalizer}, llv.deleting,
                         LLVStatusPending, llv.size, llv.actual)
    /\ UNCHANGED <<lvOnNode, csiReleased, foreignWrites, callerVars>>

(* The agent creates the LV and reports it with its rounded size.          *)
AgentCreate ==
    /\ llv.exists /\ ~llv.deleting /\ llv.phase = LLVStatusPending
    /\ \E a \in ActualSizes(llv.size) :
          llv' = StoreWrite(llv.fin, llv.deleting, LLVStatusCreated,
                            llv.size, a)
    /\ lvOnNode' = TRUE
    /\ UNCHANGED <<csiReleased, foreignWrites, callerVars>>

(* The agent fails to create the LV.                                       *)
AgentFail ==
    /\ llv.exists /\ ~llv.deleting /\ llv.phase = LLVStatusPending
    /\ llv' = StoreWrite(llv.fin, llv.deleting, LLVStatusFailed, llv.size,
                         llv.actual)
    /\ UNCHANGED <<lvOnNode, csiReleased, foreignWrites, callerVars>>

(* The agent extends the LV to a larger spec.size.                         *)
AgentResize ==
    /\ llv.exists /\ ~llv.deleting /\ llv.phase = LLVStatusCreated
    /\ llv.actual < llv.size
    /\ \E a \in ActualSizes(llv.size) :
          llv' = StoreWrite(llv.fin, llv.deleting, llv.phase, llv.size, a)
    /\ UNCHANGED <<lvOnNode, csiReleased, foreignWrites, callerVars>>

(* The agent removes the LV of a record marked for deletion, then its own  *)
(* finalizer.                                                              *)
AgentDelete ==
    /\ llv.exists /\ llv.deleting /\ AgentFinalizer \in llv.fin
    /\ llv' = StoreWrite(llv.fin \ {AgentFinalizer}, llv.deleting,
                         llv.phase, llv.size, llv.actual)
    /\ lvOnNode' = FALSE
    /\ UNCHANGED <<csiReleased, foreignWrites, callerVars>>

(* A user deletes the LLV object directly.                                 *)
UserDelete ==
    /\ ForeignDelete
    /\ llv.exists /\ ~llv.deleting
    /\ llv' = StoreWrite(llv.fin, TRUE, llv.phase, llv.size, llv.actual)
    /\ UNCHANGED <<lvOnNode, csiReleased, foreignWrites, callerVars>>

(* Another controller writes the record (labels, status conditions).       *)
ForeignUpdate ==
    /\ llv.exists /\ foreignWrites < MaxForeignWrites
    /\ llv' = StoreWrite(llv.fin, llv.deleting, llv.phase, llv.size,
                         llv.actual)
    /\ foreignWrites' = foreignWrites + 1
    /\ UNCHANGED <<lvOnNode, csiReleased, callerVars>>

Caller(c) ==
    \/ Provision(c) \/ Deprovision(c) \/ Expand(c)
    \/ CreateLVMLogicalVolume(c) \/ WaitForStatusUpdate(c)
    \/ DeleteLVMLogicalVolumeGet(c) \/ RemoveLLVFinalizerIfExist(c)
    \/ DeleteLVMLogicalVolumeDelete(c)
    \/ ExpandGet(c) \/ ExpandLVMLogicalVolume(c)
    \/ Cancel(c)

Environment ==
    \/ AgentStart \/ AgentCreate \/ AgentFail \/ AgentResize \/ AgentDelete
    \/ UserDelete \/ ForeignUpdate

Next == (\E c \in Callers : Caller(c)) \/ Environment

Spec == Init /\ [][Next]_vars

(* The node agent's reconciler processes every record marked for deletion *)
(* (it removes the LV, then its finalizer); nothing else is assumed fair:  *)
(* requests, writers and cancellations may stop at any time.               *)
AgentFairness == WF_vars(AgentDelete)

FairSpec == Spec /\ AgentFairness

-----------------------------------------------------------------------------
TypeOK ==
    /\ llv \in LLV
    /\ lvOnNode \in BOOLEAN
    /\ csiReleased \in BOOLEAN
    /\ foreignWrites \in 0 .. MaxForeignWrites
    /\ pc \in [Callers -> PCs]
    /\ reqSize \in [Callers -> Nat]
    /\ local \in [Callers -> LLV]
    /\ attempt \in [Callers -> 0 .. KubernetesAPIRequestLimit]
    /\ conflicts \in [Callers -> Nat]
    /\ attemptCounter \in [Callers -> Nat]
    /\ ctxDone \in [Callers -> BOOLEAN]
    /\ result \in [Callers -> Results]
    /\ calls \in 0 .. MaxCalls

(* An LV on the node always has its record, and the record still carries   *)
(* the agent's finalizer: no finalizer Update or expansion by the CSI      *)
(* controller (full-object writes of a fetched copy) ever drops the        *)
(* finalizer another controller added meanwhile, so the record cannot      *)
(* vanish while the agent still has an LV to remove.                       *)
LVNeverOrphaned ==
    lvOnNode => llv.exists /\ AgentFinalizer \in llv.fin

(* The CSI finalizer set by CreateLVMLogicalVolume keeps a record in the   *)
(* store, even against a direct user delete, until DeleteLVMLogicalVolume  *)
(* has removed it.                                                         *)
RecordKeptUntilReleased ==
    (llv.uid > 0 /\ ~llv.exists) => csiReleased

(* removeLLVFinalizerIfExist issues at most KubernetesAPIRequestLimit      *)
(* Updates, and gives up for the budget only after exactly that many       *)
(* Conflicts (N-1 Conflicts then success stays within budget N).           *)
ReleaseBudget ==
    \A c \in Callers :
        /\ conflicts[c] <= KubernetesAPIRequestLimit
        /\ result[c] = "ExhaustedNoCause"
              => conflicts[c] = KubernetesAPIRequestLimit

(* The spec: a release that exhausts its budget returns an error wrapping  *)
(* the last Conflict.  removeLLVFinalizerIfExist wraps nil instead.        *)
ExhaustedReportsConflict ==
    \A c \in Callers :
        (pc[c] = "Idle" /\ conflicts[c] = KubernetesAPIRequestLimit)
            => result[c] = "Conflict"

(* The spec: a poll that fetches a record being deleted ends the wait with *)
(* a conflicting-deletion error.  WaitForStatusUpdate looks at the         *)
(* deletion timestamp only once the record has a status.                   *)
DeletionEndsWait ==
    [][\A c \in Callers :
          ( /\ pc[c] = "Wait" /\ Live(c)
            /\ llv.exists /\ llv.deleting
            /\ attemptCounter'[c] = attemptCounter[c] + 1 )
          => pc'[c] # "Wait"]_vars

(* Once DeleteLVMLogicalVolume has released the CSI finalizer and the      *)
(* record is marked for deletion, the record eventually leaves the store,  *)
(* provided the agent keeps reconciling: no full-object Update of an older *)
(* copy (the expansion's, the release loop's) writes the released          *)
(* finalizer back and pins the record forever.                             *)
DeletionCompletes ==
    (llv.exists /\ llv.deleting /\ SDSLocalVolumeCSIFinalizer \notin llv.fin)
        ~> ~llv.exists

=============================================================================
