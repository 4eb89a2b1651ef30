---------------------------- MODULE LvmCsiClient ----------------------------
(***************************************************************************)
(* The store wrappers of the sds-lvm-csi driver (images/sds-lvm-csi/pkg/   *)
(* utils/func.go): CreateLVMLogicalVolume, DeleteLVMLogicalVolume,         *)
(* GetLVMLogicalVolume, UpdateLVMLogicalVolume and WaitForStatusUpdate.    *)
(* Each wrapper retries its store call up to KubernetesApiRequestLimit     *)
(* times.  Concurrent handlers call them on one LLV name, through a store  *)
(* whose calls can fail before they reach it (the request is lost) or      *)
(* after it applied them (the response is lost), while the agent writes    *)
(* the status.                                                             *)
(*                                                                         *)
(* One action is one store call of one wrapper, with what the wrapper does *)
(* with its result.  The records carry the fields the calls read: whether  *)
(* the name exists, the incarnation, the resourceVersion, spec.size and    *)
(* the status.  This driver puts no finalizer on the LLV, so a Delete the  *)
(* store accepts frees the name.                                           *)
(***************************************************************************)
EXTENDS Integers

CONSTANTS
    Callers,                    \* concurrent gRPC handlers
    KubernetesApiRequestLimit,  \* attempts of every wrapper
    Sizes,                      \* sizes a request asks for
    Delta,                      \* the size tolerance of the wait
    MaxCalls,                   \* bound: handler invocations in a run
    MaxPolls,                   \* bound: fetches of one wait
    MaxEnvWrites                \* bound: writes of the agent and others

ASSUME ClientAssumption ==
    /\ KubernetesApiRequestLimit \in Nat \ {0}
    /\ Sizes \subseteq Nat /\ Delta \in Nat
    /\ MaxCalls \in Nat /\ MaxPolls \in Nat /\ MaxEnvWrites \in Nat

(* LLVStatusCreated, LLVStatusFailed; "None" is a nil Status.              *)
LLVStatusCreated == "Created"
LLVStatusFailed == "Failed"
NoStatus == "None"

(* The error of a store call or a wrapper; "nil" is no error.  Transient   *)
(* is every error the store does not classify (timeouts, unavailability,   *)
(* a context that ended).                                                  *)
CallErrors == {"nil", "Transient", "AlreadyExists", "NotFound", "Conflict"}
Errors == CallErrors \cup {"Canceled", "VolumeFailed"}

(* How a call fares on its way: delivered, lost before the store applied   *)
(* it, or applied and its response lost.                                   *)
Transport == {"delivered", "requestLost", "responseLost"}

NoLLV == [exists |-> FALSE, uid |-> 0, rv |-> 0, size |-> 0,
          phase |-> NoStatus, actual |-> 0]

VARIABLES
    llv,        \* the store's record for the name
    pc,         \* where each handler is
    flow,       \* the handler's request: Provision, Deprovision, Expand
    attempt,    \* the attempt variable of the running wrapper's loop
    err,        \* the running wrapper's err variable
    lastErr,    \* the error of the handler's last store call
    local,      \* the handler's object: [rv, size] sent with an Update
    want,       \* llvSize of the wait, newSize of the expansion
    polls,      \* fetches of the running wait
    ret,        \* what each wrapper of the running request returned
    effects,    \* calls of the running wrapper the store applied
    calls,      \* handler invocations so far
    envWrites   \* writes of the agent and other controllers so far

storeVars == <<llv, envWrites>>
callerVars == <<pc, flow, attempt, err, lastErr, local, want, polls, ret,
                effects>>
vars == <<storeVars, callerVars, calls>>

-----------------------------------------------------------------------------
(* The store.                                                              *)

(* The store's answer to a call that reaches it, before transport.         *)
CreateResult == IF llv.exists THEN "AlreadyExists" ELSE "nil"
DeleteResult == IF llv.exists THEN "nil" ELSE "NotFound"
GetResult == IF llv.exists THEN "nil" ELSE "NotFound"
UpdateResult(copy) ==
    IF ~llv.exists THEN "NotFound"
    ELSE IF copy.rv # llv.rv THEN "Conflict"
    ELSE "nil"

(* Whether the call took effect, and what the caller sees.                 *)
Applied(t, res) == t # "requestLost" /\ res = "nil"
Seen(t, res) == IF t = "delivered" THEN res ELSE "Transient"

-----------------------------------------------------------------------------
(* The wrappers.                                                           *)

(* Mutant: the loop runs one attempt more.                                 *)
BudgetLeftOneOver(c) == attempt[c] + 1 <= KubernetesApiRequestLimit

(* attempt < KubernetesApiRequestLimit after attempt++.                    *)
BudgetLeft(c) == attempt[c] + 1 < KubernetesApiRequestLimit

(* AreSizesEqualWithinDelta, on integers.                                  *)
AreSizesEqualWithinDelta(left, right, allowedDelta) ==
    LET d == left - right IN IF d < 0 THEN -d < allowedDelta ELSE d < allowedDelta

(* The wrapper op returns e to the handler, which goes on at next.         *)
Return(c, op, e, next) ==
    /\ ret' = [ret EXCEPT ![c][op] = e]
    /\ pc' = [pc EXCEPT ![c] = next]

(* Another turn of the loop.                                               *)
Retry(c) ==
    /\ BudgetLeft(c)
    /\ attempt' = [attempt EXCEPT ![c] = @ + 1]
    /\ UNCHANGED <<pc, ret>>

(* The loop is over: attempt reached KubernetesApiRequestLimit.            *)
Exhausted(c) == ~BudgetLeft(c) /\ UNCHANGED attempt

(* The operations a handler's result is recorded for; "none": no return. *)
Ops == {"Create", "Delete", "Get", "Update", "Wait"}
NoRets == [op \in Ops |-> "none"]

(* A wrapper's loop starts.                                                *)
StartWrapper(c) ==
    /\ attempt' = [attempt EXCEPT ![c] = 0]
    /\ err' = [err EXCEPT ![c] = "nil"]
    /\ effects' = [effects EXCEPT ![c] = 0]
    /\ ret' = [ret EXCEPT ![c] = NoRets]

(* The request starts: CreateVolume creates and waits, DeleteVolume        *)
(* deletes, ControllerExpandVolume fetches and updates.                    *)
Start(c) ==
    /\ pc[c] = "idle" /\ calls < MaxCalls
    /\ calls' = calls + 1
    /\ \/ \E s \in Sizes : /\ flow' = [flow EXCEPT ![c] = "Provision"]
                           /\ want' = [want EXCEPT ![c] = s]
                           /\ pc' = [pc EXCEPT ![c] = "create"]
       \/ /\ flow' = [flow EXCEPT ![c] = "Deprovision"]
          /\ pc' = [pc EXCEPT ![c] = "delete"]
          /\ UNCHANGED want
       \/ \E s \in Sizes : /\ flow' = [flow EXCEPT ![c] = "Expand"]
                           /\ want' = [want EXCEPT ![c] = s]
                           /\ pc' = [pc EXCEPT ![c] = "get"]
    /\ StartWrapper(c)
    /\ lastErr' = [lastErr EXCEPT ![c] = "nil"]
    /\ UNCHANGED <<storeVars, local, polls>>

(* Mutant: err := shadows the function's err, as in DeleteLVMLogicalVolume.*)
CreateErrShadowed(c, e) == err[c]

(* err = kc.Create(ctx, llv): the function's err holds the call's error.   *)
CreateErrAfterCall(c, e) == e

(* The record a Create the store applies makes.                            *)
NewLLV(size) ==
    [exists |-> TRUE, uid |-> llv.uid + 1, rv |-> llv.rv + 1, size |-> size,
     phase |-> NoStatus, actual |-> 0]

(* One attempt of CreateLVMLogicalVolume: success returns and the wait     *)
(* begins; AlreadyExists returns at once; any other error is retried, and  *)
(* after the last attempt err is returned.                                 *)
CreateLVMLogicalVolume(c) ==
    /\ pc[c] = "create"
    /\ \E t \in Transport :
        LET res == CreateResult
            e == Seen(t, res)
            errVar == CreateErrAfterCall(c, e)
        IN  /\ llv' = IF Applied(t, res) THEN NewLLV(want[c]) ELSE llv
            /\ effects' = [effects EXCEPT ![c] =
                             @ + IF Applied(t, res) THEN 1 ELSE 0]
            /\ lastErr' = [lastErr EXCEPT ![c] = e]
            /\ err' = [err EXCEPT ![c] = errVar]
            /\ \/ /\ e = "nil"
                  /\ Return(c, "Create", "nil", "wait")
                  /\ polls' = [polls EXCEPT ![c] = 0]
                  /\ UNCHANGED attempt
               \/ /\ e = "AlreadyExists"
                  /\ Return(c, "Create", e, "idle")
                  /\ UNCHANGED <<attempt, polls>>
               \/ /\ e \notin {"nil", "AlreadyExists"}
                  /\ Retry(c)
                  /\ UNCHANGED polls
               \/ /\ e \notin {"nil", "AlreadyExists"}
                  /\ Exhausted(c)
                  /\ Return(c, "Create", errVar, "idle")
                  /\ UNCHANGED polls
    /\ UNCHANGED <<flow, local, want, calls, envWrites>>

(* err := kc.Delete(ctx, llv) declares a new err inside the loop, and the  *)
(* function's err keeps its zero value.                                    *)
DeleteErrAfterCall(c, e) == err[c]

(* The store's record once a Delete is applied: the name is free.          *)
Deleted == [exists |-> FALSE, uid |-> llv.uid, rv |-> llv.rv + 1, size |-> 0,
            phase |-> NoStatus, actual |-> 0]

(* One attempt of DeleteLVMLogicalVolume: success returns nil; any error   *)
(* is retried; after the last attempt the function's err is returned.     *)
DeleteLVMLogicalVolume(c) ==
    /\ pc[c] = "delete"
    /\ \E t \in Transport :
        LET res == DeleteResult
            e == Seen(t, res)
            errVar == DeleteErrAfterCall(c, e)
        IN  /\ llv' = IF Applied(t, res) THEN Deleted ELSE llv
            /\ effects' = [effects EXCEPT ![c] =
                             @ + IF Applied(t, res) THEN 1 ELSE 0]
            /\ lastErr' = [lastErr EXCEPT ![c] = e]
            /\ err' = [err EXCEPT ![c] = errVar]
            /\ \/ e = "nil" /\ Return(c, "Delete", "nil", "idle")
                  /\ UNCHANGED attempt
               \/ e # "nil" /\ Retry(c)
               \/ e # "nil" /\ Exhausted(c)
                  /\ Return(c, "Delete", errVar, "idle")
    /\ UNCHANGED <<flow, local, want, polls, calls, envWrites>>

(* One attempt of GetLVMLogicalVolume.  On success the handler goes on:    *)
(* the wait checks the fetched status (a Failed phase ends it with an      *)
(* error, a Created phase of the right size with success, anything else    *)
(* with another poll), and the expansion sets spec.size on the fetched     *)
(* object and updates it.  Errors are retried, and after the last attempt  *)
(* the error is returned, by the wait too.                                 *)
GetLVMLogicalVolume(c) ==
    /\ pc[c] = "get"
    /\ \E t \in Transport :
        LET e == Seen(t, GetResult)
            waitRet ==
                IF llv.phase = LLVStatusFailed THEN "VolumeFailed"
                ELSE IF llv.phase = LLVStatusCreated
                        /\ AreSizesEqualWithinDelta(want[c], llv.actual, Delta)
                     THEN "nil"
                     ELSE "none"
        IN  /\ lastErr' = [lastErr EXCEPT ![c] = e]
            /\ \/ /\ e = "nil" /\ flow[c] = "Provision"
                  /\ err' = [err EXCEPT ![c] = e]
                  /\ ret' = [ret EXCEPT ![c]["Get"] = "nil", ![c]["Wait"] = waitRet]
                  /\ pc' = [pc EXCEPT ![c] = IF waitRet = "none" THEN "wait"
                                                                ELSE "idle"]
                  /\ UNCHANGED <<attempt, effects, local>>
               \/ /\ e = "nil" /\ flow[c] = "Expand"
                  /\ local' = [local EXCEPT ![c] = [rv |-> llv.rv, size |-> want[c]]]
                  /\ pc' = [pc EXCEPT ![c] = "update"]
                  /\ StartWrapper(c)
               \/ /\ e # "nil" /\ Retry(c)
                  /\ err' = [err EXCEPT ![c] = e]
                  /\ UNCHANGED <<effects, local>>
               \/ /\ e # "nil" /\ Exhausted(c)
                  /\ err' = [err EXCEPT ![c] = e]
                  /\ ret' = [ret EXCEPT ![c]["Get"] = e,
                                        ![c]["Wait"] = IF flow[c] = "Provision"
                                                       THEN e ELSE "none"]
                  /\ pc' = [pc EXCEPT ![c] = "idle"]
                  /\ UNCHANGED <<effects, local>>
    /\ UNCHANGED <<storeVars, flow, want, polls, calls>>

(* One turn of WaitForStatusUpdate's loop: an ended context returns its    *)
(* error; otherwise, after the sleep, the record is fetched.               *)
WaitForStatusUpdate(c) ==
    /\ pc[c] = "wait"
    /\ \/ /\ Return(c, "Wait", "Canceled", "idle")
          /\ UNCHANGED <<attempt, err, effects, polls>>
       \/ /\ polls[c] < MaxPolls
          /\ polls' = [polls EXCEPT ![c] = @ + 1]
          /\ pc' = [pc EXCEPT ![c] = "get"]
          /\ StartWrapper(c)
    /\ UNCHANGED <<storeVars, flow, lastErr, local, want, calls>>

(* Mutant: the Update writes the whole object, status included, and      *)
(* resets it.                                                              *)
UpdatedResetsStatus(copy) ==
    [exists |-> TRUE, uid |-> llv.uid, rv |-> llv.rv + 1, size |-> copy.size,
     phase |-> NoStatus, actual |-> 0]

(* The record once an Update of copy is applied: spec.size is written,     *)
(* the status (a subresource) is kept.                                     *)
Updated(copy) ==
    [exists |-> TRUE, uid |-> llv.uid, rv |-> llv.rv + 1, size |-> copy.size,
     phase |-> llv.phase, actual |-> llv.actual]

(* One attempt of UpdateLVMLogicalVolume: the same object is sent again    *)
(* on every attempt; success returns nil, and after the last attempt the   *)
(* error is returned.                                                      *)
UpdateLVMLogicalVolume(c) ==
    /\ pc[c] = "update"
    /\ \E t \in Transport :
        LET res == UpdateResult(local[c])
            e == Seen(t, res)
        IN  /\ llv' = IF Applied(t, res) THEN Updated(local[c]) ELSE llv
            /\ effects' = [effects EXCEPT ![c] =
                             @ + IF Applied(t, res) THEN 1 ELSE 0]
            /\ lastErr' = [lastErr EXCEPT ![c] = e]
            /\ err' = [err EXCEPT ![c] = e]
            /\ \/ e = "nil" /\ Return(c, "Update", "nil", "idle")
                  /\ UNCHANGED attempt
               \/ e # "nil" /\ Retry(c)
               \/ e # "nil" /\ Exhausted(c) /\ Return(c, "Update", e, "idle")
    /\ UNCHANGED <<flow, local, want, polls, calls, envWrites>>

-----------------------------------------------------------------------------
(* The environment: the agent reports the LV (Created with its size, or    *)
(* Failed), and other controllers write the record.                        *)

EnvWrite(new) ==
    /\ llv.exists /\ envWrites < MaxEnvWrites
    /\ llv' = new
    /\ envWrites' = envWrites + 1
    /\ UNCHANGED <<callerVars, calls>>

AgentCreate ==
    \E a \in Sizes :
        EnvWrite([exists |-> TRUE, uid |-> llv.uid, rv |-> llv.rv + 1,
                  size |-> llv.size, phase |-> LLVStatusCreated, actual |-> a])

AgentFail ==
    /\ llv.phase = NoStatus
    /\ EnvWrite([exists |-> TRUE, uid |-> llv.uid, rv |-> llv.rv + 1,
                 size |-> llv.size, phase |-> LLVStatusFailed, actual |-> 0])

ForeignUpdate ==
    EnvWrite([exists |-> TRUE, uid |-> llv.uid, rv |-> llv.rv + 1,
              size |-> llv.size, phase |-> llv.phase, actual |-> llv.actual])

-----------------------------------------------------------------------------

Init ==
    /\ llv = NoLLV
    /\ pc = [c \in Callers |-> "idle"]
    /\ flow = [c \in Callers |-> "none"]
    /\ attempt = [c \in Callers |-> 0]
    /\ err = [c \in Callers |-> "nil"]
    /\ lastErr = [c \in Callers |-> "nil"]
    /\ local = [c \in Callers |-> [rv |-> 0, size |-> 0]]
    /\ want = [c \in Callers |-> 0]
    /\ polls = [c \in Callers |-> 0]
    /\ ret = [c \in Callers |-> NoRets]
    /\ effects = [c \in Callers |-> 0]
    /\ calls = 0
    /\ envWrites = 0

Next ==
    \/ \E c \in Callers :
          \/ Start(c)
          \/ CreateLVMLogicalVolume(c)
          \/ DeleteLVMLogicalVolume(c)
          \/ GetLVMLogicalVolume(c)
          \/ WaitForStatusUpdate(c)
          \/ UpdateLVMLogicalVolume(c)
    \/ AgentCreate \/ AgentFail \/ ForeignUpdate

Spec == Init /\ [][Next]_vars

-----------------------------------------------------------------------------
(* Properties.                                                             *)

Pcs == {"idle", "create", "delete", "get", "wait", "update"}

TypeOK ==
    /\ llv \in [exists : BOOLEAN, uid : Nat, rv : Nat, size : Sizes \cup {0},
                phase : {NoStatus, LLVStatusCreated, LLVStatusFailed},
                actual : Sizes \cup {0}]
    /\ pc \in [Callers -> Pcs]
    /\ flow \in [Callers -> {"none", "Provision", "Deprovision", "Expand"}]
    /\ attempt \in [Callers -> 0 .. KubernetesApiRequestLimit - 1]
    /\ err \in [Callers -> CallErrors]
    /\ lastErr \in [Callers -> CallErrors]
    /\ local \in [Callers -> [rv : Nat, size : Sizes \cup {0}]]
    /\ want \in [Callers -> Sizes \cup {0}]
    /\ polls \in [Callers -> 0 .. MaxPolls]
    /\ ret \in [Callers -> [Ops -> Errors \cup {"none"}]]
    /\ effects \in [Callers -> Nat]
    /\ calls \in 0 .. MaxCalls /\ envWrites \in 0 .. MaxEnvWrites

(* The retry policy of spec §4.4 for the wrappers ops: a wrapper returns   *)
(* the error of its last store call (nil exactly when that call            *)
(* succeeded), and Create never calls again after AlreadyExists.           *)
RetryPolicy(ops) ==
    \A c \in Callers :
        /\ \A op \in ops : ret[c][op] # "none" => ret[c][op] = lastErr[c]
        /\ "Create" \in ops /\ pc[c] = "create" => lastErr[c] # "AlreadyExists"

(* CreateLVMLogicalVolume, GetLVMLogicalVolume and UpdateLVMLogicalVolume  *)
(* follow the retry policy.                                                *)
CreateGetUpdateRetryPolicy == RetryPolicy({"Create", "Get", "Update"})

(* DeleteLVMLogicalVolume follows the retry policy: it reports a failed    *)
(* deletion, and a name that is not in the store (spec §8: NotFound).      *)
DeleteRetryPolicy == RetryPolicy({"Delete"})

(* A CreateLVMLogicalVolume that returns an error created no record        *)
(* (spec §7: no partial or ambiguous state is returned).                   *)
CreateErrorMeansNoEffect ==
    \A c \in Callers :
        ret[c]["Create"] \notin {"none", "nil"} => effects[c] = 0

(* UpdateLVMLogicalVolume does not retry a Conflict without a refetch      *)
(* (spec §7: Conflict is retried with a refresh, in FinalizerReleaser      *)
(* only).                                                                  *)
ConflictNotRetried ==
    \A c \in Callers : pc[c] = "update" => lastErr[c] # "Conflict"

====
