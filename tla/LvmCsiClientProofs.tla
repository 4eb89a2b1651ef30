------------------------- MODULE LvmCsiClientProofs -------------------------
(***************************************************************************)
(* Proofs about LvmCsiClient for every value of its constants: the type    *)
(* invariant, and that CreateLVMLogicalVolume, GetLVMLogicalVolume and     *)
(* UpdateLVMLogicalVolume follow the retry policy whatever the store loses.*)
(***************************************************************************)
EXTENDS LvmCsiClient, TLAPS

(* The wrappers whose policy is proved.                                    *)
CGU == {"Create", "Get", "Update"}

(* While a wrapper's loop runs, no wrapper of the request has returned     *)
(* yet: every loop starts with the returns cleared.                        *)
NoReturnInLoop ==
    \A c \in Callers :
        pc[c] \in {"create", "delete", "get", "update"} => ret[c] = NoRets

(* A wait is entered only after a store call that succeeded.               *)
WaitAfterSuccess ==
    \A c \in Callers : pc[c] = "wait" => lastErr[c] = "nil"

(* The inductive strengthening of CreateGetUpdateRetryPolicy.              *)
IInv ==
    /\ TypeOK
    /\ CreateGetUpdateRetryPolicy
    /\ NoReturnInLoop
    /\ WaitAfterSuccess

USE ClientAssumption

-----------------------------------------------------------------------------
(* The type invariant.                                                     *)

(* The records the store may hold.                                         *)
LLVs == [exists : BOOLEAN, uid : Nat, rv : Nat, size : Sizes \cup {0},
         phase : {NoStatus, LLVStatusCreated, LLVStatusFailed},
         actual : Sizes \cup {0}]

(* The initial state is well typed.                                       *)
LEMMA InitTypeOK == Init => TypeOK
BY DEF Init, TypeOK, NoLLV, NoRets, Pcs, CallErrors, Errors, Ops

(* The record a Create makes is a store record.                           *)
LEMMA NewLLVType ==
    ASSUME llv \in LLVs, NEW s \in Sizes \cup {0}
    PROVE  NewLLV(s) \in LLVs
BY DEF NewLLV, LLVs, NoStatus

(* So is the record a Delete leaves.                                      *)
LEMMA DeletedType == llv \in LLVs => Deleted \in LLVs
BY DEF Deleted, LLVs, NoStatus

(* So is the record an Update of a handler's copy writes.                 *)
LEMMA UpdatedType ==
    ASSUME llv \in LLVs, NEW copy \in [rv : Nat, size : Sizes \cup {0}]
    PROVE  Updated(copy) \in LLVs
BY DEF Updated, LLVs

(* What a handler sees of a call is a call error.                          *)
LEMMA SeenType ==
    ASSUME NEW t \in Transport, NEW res \in CallErrors
    PROVE  Seen(t, res) \in CallErrors
BY DEF Seen, CallErrors

(* The store answers every call with a call error.                        *)
LEMMA ResultTypes ==
    /\ CreateResult \in CallErrors /\ DeleteResult \in CallErrors
    /\ GetResult \in CallErrors
    /\ \A copy : UpdateResult(copy) \in CallErrors
BY DEF CreateResult, DeleteResult, GetResult, UpdateResult, CallErrors

(* A wrapper's loop starts with well-typed loop variables.                 *)
LEMMA StartWrapperType ==
    ASSUME TypeOK, NEW c \in Callers, StartWrapper(c)
    PROVE  /\ attempt' \in [Callers -> 0 .. KubernetesApiRequestLimit - 1]
           /\ err' \in [Callers -> CallErrors]
           /\ effects' \in [Callers -> Nat]
           /\ ret' \in [Callers -> [Ops -> Errors \cup {"none"}]]
<1>1. attempt' \in [Callers -> 0 .. KubernetesApiRequestLimit - 1]
    BY DEF StartWrapper, TypeOK
<1>2. err' \in [Callers -> CallErrors]
    BY DEF StartWrapper, TypeOK, CallErrors
<1>3. effects' \in [Callers -> Nat]
    BY DEF StartWrapper, TypeOK
<1>4. ret' \in [Callers -> [Ops -> Errors \cup {"none"}]]
    BY DEF StartWrapper, TypeOK, NoRets
<1> QED
    BY <1>1, <1>2, <1>3, <1>4

(* Another turn keeps attempt below KubernetesApiRequestLimit.             *)
LEMMA RetryType ==
    ASSUME TypeOK, NEW c \in Callers, Retry(c)
    PROVE  attempt' \in [Callers -> 0 .. KubernetesApiRequestLimit - 1]
BY DEF Retry, BudgetLeft, TypeOK

(* Counting an applied call keeps effects a natural number.                *)
LEMMA EffectsType ==
    ASSUME TypeOK, NEW c \in Callers, NEW b \in BOOLEAN,
           effects' = [effects EXCEPT ![c] = @ + IF b THEN 1 ELSE 0]
    PROVE  effects' \in [Callers -> Nat]
BY DEF TypeOK

(* Storing a call error in err keeps its type.                             *)
LEMMA ErrType ==
    ASSUME TypeOK, NEW c \in Callers, NEW e \in CallErrors,
           err' = [err EXCEPT ![c] = e]
    PROVE  err' \in [Callers -> CallErrors]
BY DEF TypeOK

(* Storing a call error in lastErr keeps its type.                         *)
LEMMA LastErrType ==
    ASSUME TypeOK, NEW c \in Callers, NEW e \in CallErrors,
           lastErr' = [lastErr EXCEPT ![c] = e]
    PROVE  lastErr' \in [Callers -> CallErrors]
BY DEF TypeOK

(* The conjuncts of TypeOK, one per variable.                              *)
TypeOKParts ==
    /\ llv \in LLVs
    /\ pc \in [Callers -> Pcs]
    /\ flow \in [Callers -> {"none", "Provision", "Deprovision", "Expand"}]
    /\ attempt \in [Callers -> 0 .. KubernetesApiRequestLimit - 1]
    /\ err \in [Callers -> CallErrors]
    /\ lastErr \in [Callers -> CallErrors]
    /\ local \in [Callers -> [rv : Nat, size : Sizes \cup {0}]]
    /\ want \in [Callers -> Sizes \cup {0}]
    /\ polls \in [Callers -> 0 .. MaxPolls]
    /\ ret \in [Callers -> [Ops -> Errors \cup {"none"}]]
    /\ effects \in [Callers -> Nat]
    /\ calls \in 0 .. MaxCalls /\ envWrites \in 0 .. MaxEnvWrites

(* TypeOK, conjunct by conjunct.                                           *)
LEMMA TypeOKPartsEq == TypeOK <=> TypeOKParts
BY DEF TypeOK, TypeOKParts, LLVs

(* Every step keeps the state well typed.                                  *)
LEMMA NextTypeOK == TypeOK /\ [Next]_vars => TypeOK'
<1> SUFFICES ASSUME TypeOK, [Next]_vars PROVE TypeOKParts'
    BY TypeOKPartsEq, PTL
<1>0. llv \in LLVs
    BY DEF TypeOK, LLVs
<1>1. ASSUME NEW c \in Callers, Start(c) PROVE TypeOKParts'
    <2>1. /\ attempt' \in [Callers -> 0 .. KubernetesApiRequestLimit - 1]
          /\ err' \in [Callers -> CallErrors]
          /\ effects' \in [Callers -> Nat]
          /\ ret' \in [Callers -> [Ops -> Errors \cup {"none"}]]
        BY <1>1, StartWrapperType DEF Start
    <2>2. /\ pc' \in [Callers -> Pcs]
          /\ flow' \in [Callers -> {"none", "Provision", "Deprovision", "Expand"}]
          /\ want' \in [Callers -> Sizes \cup {0}]
        <3>1. CASE \E s \in Sizes : /\ flow' = [flow EXCEPT ![c] = "Provision"]
                                   /\ want' = [want EXCEPT ![c] = s]
                                   /\ pc' = [pc EXCEPT ![c] = "create"]
            BY <3>1 DEF TypeOK, Pcs
        <3>2. CASE /\ flow' = [flow EXCEPT ![c] = "Deprovision"]
                   /\ pc' = [pc EXCEPT ![c] = "delete"]
                   /\ UNCHANGED want
            BY <3>2 DEF TypeOK, Pcs
        <3>3. CASE \E s \in Sizes : /\ flow' = [flow EXCEPT ![c] = "Expand"]
                                   /\ want' = [want EXCEPT ![c] = s]
                                   /\ pc' = [pc EXCEPT ![c] = "get"]
            BY <3>3 DEF TypeOK, Pcs
        <3> QED
            BY <1>1, <3>1, <3>2, <3>3 DEF Start
    <2>3. lastErr' \in [Callers -> CallErrors]
        BY <1>1 DEF Start, TypeOK, CallErrors
    <2>4. calls' \in 0 .. MaxCalls
        BY <1>1 DEF Start, TypeOK
    <2>5. UNCHANGED <<llv, envWrites, local, polls>>
        BY <1>1 DEF Start, storeVars
    <2> QED
        BY <1>0, <2>1, <2>2, <2>3, <2>4, <2>5 DEF TypeOKParts, TypeOK
<1>2. ASSUME NEW c \in Callers, CreateLVMLogicalVolume(c) PROVE TypeOKParts'
    <2>1. PICK t \in Transport :
            LET res == CreateResult
                e == Seen(t, res)
                errVar == CreateErrAfterCall(c, e)
            IN  /\ llv' = IF Applied(t, res) THEN NewLLV(want[c]) ELSE llv
                /\ effects' = [effects EXCEPT ![c] =
                                 @ + IF Applied(t, res) THEN 1 ELSE 0]
                /\ lastErr' = [lastErr EXCEPT ![c] = e]
                /\ err' = [err EXCEPT ![c] = errVar]
                /\ \/ /\ e = "nil"
                      /\ Return(c, "Create", "nil", "wait")
                      /\ polls' = [polls EXCEPT ![c] = 0]
                      /\ UNCHANGED attempt
                   \/ /\ e = "AlreadyExists"
                      /\ Return(c, "Create", e, "idle")
                      /\ UNCHANGED <<attempt, polls>>
                   \/ /\ e \notin {"nil", "AlreadyExists"}
                      /\ Retry(c)
                      /\ UNCHANGED polls
                   \/ /\ e \notin {"nil", "AlreadyExists"}
                      /\ Exhausted(c)
                      /\ Return(c, "Create", errVar, "idle")
                      /\ UNCHANGED polls
        BY <1>2 DEF CreateLVMLogicalVolume
    <2> DEFINE e == Seen(t, CreateResult)
    <2>2. e \in CallErrors
        BY SeenType, ResultTypes
    <2>3. llv' \in LLVs
        BY <2>1, <1>0, NewLLVType DEF TypeOK
    <2>4. effects' \in [Callers -> Nat]
        BY <2>1, EffectsType DEF Applied
    <2>5. /\ lastErr' \in [Callers -> CallErrors]
          /\ err' \in [Callers -> CallErrors]
        BY <2>1, <2>2, LastErrType, ErrType DEF CreateErrAfterCall
    <2>6. /\ pc' \in [Callers -> Pcs]
          /\ ret' \in [Callers -> [Ops -> Errors \cup {"none"}]]
          /\ attempt' \in [Callers -> 0 .. KubernetesApiRequestLimit - 1]
          /\ polls' \in [Callers -> 0 .. MaxPolls]
        <3>1. CASE e = "nil" /\ Return(c, "Create", "nil", "wait")
                   /\ polls' = [polls EXCEPT ![c] = 0] /\ UNCHANGED attempt
            BY <3>1 DEF Return, TypeOK, Ops, Errors, CallErrors, Pcs
        <3>2. CASE e = "AlreadyExists" /\ Return(c, "Create", e, "idle")
                   /\ UNCHANGED <<attempt, polls>>
            BY <3>2, <2>2 DEF Return, TypeOK, Ops, Errors, Pcs
        <3>3. CASE Retry(c) /\ UNCHANGED polls
            BY <3>3, RetryType DEF Retry, TypeOK
        <3>4. CASE Exhausted(c) /\ Return(c, "Create", e, "idle")
                   /\ UNCHANGED polls
            BY <3>4, <2>2 DEF Return, Exhausted, TypeOK, Ops, Errors, Pcs
        <3> QED
            BY <2>1, <3>1, <3>2, <3>3, <3>4 DEF CreateErrAfterCall
    <2>7. UNCHANGED <<flow, local, want, calls, envWrites>>
        BY <1>2 DEF CreateLVMLogicalVolume
    <2> QED
        BY <2>3, <2>4, <2>5, <2>6, <2>7 DEF TypeOKParts, TypeOK
<1>3. ASSUME NEW c \in Callers, DeleteLVMLogicalVolume(c) PROVE TypeOKParts'
    <2>1. PICK t \in Transport :
            LET res == DeleteResult
                e == Seen(t, res)
                errVar == DeleteErrAfterCall(c, e)
            IN  /\ llv' = IF Applied(t, res) THEN Deleted ELSE llv
                /\ effects' = [effects EXCEPT ![c] =
                                 @ + IF Applied(t, res) THEN 1 ELSE 0]
                /\ lastErr' = [lastErr EXCEPT ![c] = e]
                /\ err' = [err EXCEPT ![c] = errVar]
                /\ \/ e = "nil" /\ Return(c, "Delete", "nil", "idle")
                      /\ UNCHANGED attempt
                   \/ e # "nil" /\ Retry(c)
                   \/ e # "nil" /\ Exhausted(c)
                      /\ Return(c, "Delete", errVar, "idle")
        BY <1>3 DEF DeleteLVMLogicalVolume
    <2> DEFINE e == Seen(t, DeleteResult)
    <2>2. e \in CallErrors
        BY SeenType, ResultTypes
    <2>3. llv' \in LLVs
        BY <2>1, <1>0, DeletedType
    <2>4. effects' \in [Callers -> Nat]
        BY <2>1, EffectsType DEF Applied
    <2>5. /\ lastErr' \in [Callers -> CallErrors]
          /\ err' \in [Callers -> CallErrors]
        BY <2>1, <2>2, LastErrType, ErrType DEF DeleteErrAfterCall, TypeOK
    <2>6. /\ pc' \in [Callers -> Pcs]
          /\ ret' \in [Callers -> [Ops -> Errors \cup {"none"}]]
          /\ attempt' \in [Callers -> 0 .. KubernetesApiRequestLimit - 1]
        <3>1. CASE Return(c, "Delete", "nil", "idle") /\ UNCHANGED attempt
            BY <3>1 DEF Return, TypeOK, Ops, Errors, CallErrors, Pcs
        <3>2. CASE Retry(c)
            BY <3>2, RetryType DEF Retry, TypeOK
        <3>3. CASE Exhausted(c) /\ Return(c, "Delete", err[c], "idle")
            BY <3>3 DEF Return, Exhausted, TypeOK, Ops, Errors, Pcs
        <3> QED
            BY <2>1, <3>1, <3>2, <3>3 DEF DeleteErrAfterCall
    <2>7. UNCHANGED <<flow, local, want, polls, calls, envWrites>>
        BY <1>3 DEF DeleteLVMLogicalVolume
    <2> QED
        BY <2>3, <2>4, <2>5, <2>6, <2>7 DEF TypeOKParts, TypeOK
<1>4. ASSUME NEW c \in Callers, GetLVMLogicalVolume(c) PROVE TypeOKParts'
    <2> DEFINE waitRet ==
            IF llv.phase = LLVStatusFailed THEN "VolumeFailed"
            ELSE IF llv.phase = LLVStatusCreated
                    /\ AreSizesEqualWithinDelta(want[c], llv.actual, Delta)
                 THEN "nil"
                 ELSE "none"
    <2>1. PICK t \in Transport :
            /\ lastErr' = [lastErr EXCEPT ![c] = Seen(t, GetResult)]
            /\ \/ /\ Seen(t, GetResult) = "nil" /\ flow[c] = "Provision"
                  /\ err' = [err EXCEPT ![c] = Seen(t, GetResult)]
                  /\ ret' = [ret EXCEPT ![c]["Get"] = "nil",
                                        ![c]["Wait"] = waitRet]
                  /\ pc' = [pc EXCEPT ![c] = IF waitRet = "none" THEN "wait"
                                                                ELSE "idle"]
                  /\ UNCHANGED <<attempt, effects, local>>
               \/ /\ Seen(t, GetResult) = "nil" /\ flow[c] = "Expand"
                  /\ local' = [local EXCEPT ![c] = [rv |-> llv.rv,
                                                   size |-> want[c]]]
                  /\ pc' = [pc EXCEPT ![c] = "update"]
                  /\ StartWrapper(c)
               \/ /\ Seen(t, GetResult) # "nil" /\ Retry(c)
                  /\ err' = [err EXCEPT ![c] = Seen(t, GetResult)]
                  /\ UNCHANGED <<effects, local>>
               \/ /\ Seen(t, GetResult) # "nil" /\ Exhausted(c)
                  /\ err' = [err EXCEPT ![c] = Seen(t, GetResult)]
                  /\ ret' = [ret EXCEPT ![c]["Get"] = Seen(t, GetResult),
                                        ![c]["Wait"] = IF flow[c] = "Provision"
                                                       THEN Seen(t, GetResult)
                                                       ELSE "none"]
                  /\ pc' = [pc EXCEPT ![c] = "idle"]
                  /\ UNCHANGED <<effects, local>>
        BY <1>4 DEF GetLVMLogicalVolume
    <2> DEFINE e == Seen(t, GetResult)
    <2>2. e \in CallErrors
        BY SeenType, ResultTypes
    <2>3. lastErr' \in [Callers -> CallErrors]
        BY <2>1, <2>2, LastErrType
    <2>4. waitRet \in Errors \cup {"none"}
        BY DEF Errors, CallErrors
    <2>5. /\ pc' \in [Callers -> Pcs]
          /\ ret' \in [Callers -> [Ops -> Errors \cup {"none"}]]
          /\ attempt' \in [Callers -> 0 .. KubernetesApiRequestLimit - 1]
          /\ err' \in [Callers -> CallErrors]
          /\ effects' \in [Callers -> Nat]
          /\ local' \in [Callers -> [rv : Nat, size : Sizes \cup {0}]]
        <3>1. CASE /\ e = "nil"
                   /\ err' = [err EXCEPT ![c] = e]
                   /\ ret' = [ret EXCEPT ![c]["Get"] = "nil",
                                         ![c]["Wait"] = waitRet]
                   /\ pc' = [pc EXCEPT ![c] = IF waitRet = "none" THEN "wait"
                                                                 ELSE "idle"]
                   /\ UNCHANGED <<attempt, effects, local>>
            BY <3>1, <2>4 DEF TypeOK, Ops, Errors, CallErrors, Pcs
        <3>2. CASE /\ local' = [local EXCEPT ![c] = [rv |-> llv.rv,
                                                    size |-> want[c]]]
                   /\ pc' = [pc EXCEPT ![c] = "update"]
                   /\ StartWrapper(c)
            BY <3>2, <1>0, StartWrapperType DEF TypeOK, Pcs, LLVs
        <3>3. CASE /\ Retry(c)
                   /\ err' = [err EXCEPT ![c] = e]
                   /\ UNCHANGED <<effects, local>>
            BY <3>3, <2>2, RetryType DEF Retry, TypeOK
        <3>4. CASE /\ Exhausted(c)
                   /\ err' = [err EXCEPT ![c] = e]
                   /\ ret' = [ret EXCEPT ![c]["Get"] = e,
                                         ![c]["Wait"] = IF flow[c] = "Provision"
                                                        THEN e ELSE "none"]
                   /\ pc' = [pc EXCEPT ![c] = "idle"]
                   /\ UNCHANGED <<effects, local>>
            BY <3>4, <2>2 DEF Exhausted, TypeOK, Ops, Errors, Pcs
        <3> QED
            BY <2>1, <3>1, <3>2, <3>3, <3>4
    <2>6. UNCHANGED <<llv, envWrites, flow, want, polls, calls>>
        BY <1>4 DEF GetLVMLogicalVolume, storeVars
    <2> QED
        BY <1>0, <2>3, <2>5, <2>6 DEF TypeOKParts, TypeOK
<1>5. ASSUME NEW c \in Callers, WaitForStatusUpdate(c) PROVE TypeOKParts'
    <2>1. /\ pc' \in [Callers -> Pcs]
          /\ ret' \in [Callers -> [Ops -> Errors \cup {"none"}]]
          /\ attempt' \in [Callers -> 0 .. KubernetesApiRequestLimit - 1]
          /\ err' \in [Callers -> CallErrors]
          /\ effects' \in [Callers -> Nat]
          /\ polls' \in [Callers -> 0 .. MaxPolls]
        <3>1. CASE /\ Return(c, "Wait", "Canceled", "idle")
                   /\ UNCHANGED <<attempt, err, effects, polls>>
            BY <3>1 DEF Return, TypeOK, Ops, Errors, Pcs
        <3>2. CASE /\ polls[c] < MaxPolls
                   /\ polls' = [polls EXCEPT ![c] = @ + 1]
                   /\ pc' = [pc EXCEPT ![c] = "get"]
                   /\ StartWrapper(c)
            BY <3>2, StartWrapperType DEF TypeOK, Pcs
        <3> QED
            BY <1>5, <3>1, <3>2 DEF WaitForStatusUpdate
    <2>2. UNCHANGED <<llv, envWrites, flow, lastErr, local, want, calls>>
        BY <1>5 DEF WaitForStatusUpdate, storeVars
    <2> QED
        BY <1>0, <2>1, <2>2 DEF TypeOKParts, TypeOK
<1>6. ASSUME NEW c \in Callers, UpdateLVMLogicalVolume(c) PROVE TypeOKParts'
    <2>1. PICK t \in Transport :
            LET res == UpdateResult(local[c])
                e == Seen(t, res)
            IN  /\ llv' = IF Applied(t, res) THEN Updated(local[c]) ELSE llv
                /\ effects' = [effects EXCEPT ![c] =
                                 @ + IF Applied(t, res) THEN 1 ELSE 0]
                /\ lastErr' = [lastErr EXCEPT ![c] = e]
                /\ err' = [err EXCEPT ![c] = e]
                /\ \/ e = "nil" /\ Return(c, "Update", "nil", "idle")
                      /\ UNCHANGED attempt
                   \/ e # "nil" /\ Retry(c)
                   \/ e # "nil" /\ Exhausted(c) /\ Return(c, "Update", e, "idle")
        BY <1>6 DEF UpdateLVMLogicalVolume
    <2> DEFINE e == Seen(t, UpdateResult(local[c]))
    <2>2. e \in CallErrors
        BY SeenType, ResultTypes
    <2>3. llv' \in LLVs
        BY <2>1, <1>0, UpdatedType DEF TypeOK
    <2>4. effects' \in [Callers -> Nat]
        BY <2>1, EffectsType DEF Applied
    <2>5. /\ lastErr' \in [Callers -> CallErrors]
          /\ err' \in [Callers -> CallErrors]
        BY <2>1, <2>2, LastErrType, ErrType
    <2>6. /\ pc' \in [Callers -> Pcs]
          /\ ret' \in [Callers -> [Ops -> Errors \cup {"none"}]]
          /\ attempt' \in [Callers -> 0 .. KubernetesApiRequestLimit - 1]
        <3>1. CASE Return(c, "Update", "nil", "idle") /\ UNCHANGED attempt
            BY <3>1 DEF Return, TypeOK, Ops, Errors, CallErrors, Pcs
        <3>2. CASE Retry(c)
            BY <3>2, RetryType DEF Retry, TypeOK
        <3>3. CASE Exhausted(c) /\ Return(c, "Update", e, "idle")
            BY <3>3, <2>2 DEF Return, Exhausted, TypeOK, Ops, Errors, Pcs
        <3> QED
            BY <2>1, <3>1, <3>2, <3>3
    <2>7. UNCHANGED <<flow, local, want, polls, calls, envWrites>>
        BY <1>6 DEF UpdateLVMLogicalVolume
    <2> QED
        BY <2>3, <2>4, <2>5, <2>6, <2>7 DEF TypeOKParts, TypeOK
<1>7. ASSUME AgentCreate \/ AgentFail \/ ForeignUpdate PROVE TypeOKParts'
    <2>1. llv' \in LLVs
        <3>1. CASE AgentCreate
            <4>1. PICK a \in Sizes :
                    llv' = [exists |-> TRUE, uid |-> llv.uid, rv |-> llv.rv + 1,
                            size |-> llv.size, phase |-> LLVStatusCreated,
                            actual |-> a]
                BY <3>1 DEF AgentCreate, EnvWrite
            <4> QED
                BY <4>1, <1>0 DEF LLVs
        <3>2. CASE AgentFail
            BY <3>2, <1>0 DEF AgentFail, EnvWrite, LLVs
        <3>3. CASE ForeignUpdate
            BY <3>3, <1>0 DEF ForeignUpdate, EnvWrite, LLVs
        <3> QED
            BY <1>7, <3>1, <3>2, <3>3
    <2>2. envWrites' \in 0 .. MaxEnvWrites
        BY <1>7 DEF AgentCreate, AgentFail, ForeignUpdate, EnvWrite, TypeOK
    <2>3. UNCHANGED <<callerVars, calls>>
        BY <1>7 DEF AgentCreate, AgentFail, ForeignUpdate, EnvWrite
    <2> QED
        BY <2>1, <2>2, <2>3 DEF TypeOKParts, TypeOK, callerVars
<1>8. ASSUME UNCHANGED vars PROVE TypeOKParts'
    BY <1>8, <1>0 DEF vars, storeVars, callerVars, TypeOKParts, TypeOK
<1> QED
    BY <1>1, <1>2, <1>3, <1>4, <1>5, <1>6, <1>7, <1>8 DEF Next

(* Every reachable state is well typed.                                    *)
THEOREM TypeCorrect == Spec => []TypeOK
BY InitTypeOK, NextTypeOK, PTL DEF Spec

-----------------------------------------------------------------------------
(* The retry policy of Create, Get and Update.                             *)

(* IInv, for one caller.                                                   *)
RP(d) ==
    /\ \A op \in CGU : ret[d][op] # "none" => ret[d][op] = lastErr[d]
    /\ pc[d] = "create" => lastErr[d] # "AlreadyExists"
Loc(d) ==
    /\ RP(d)
    /\ pc[d] \in {"create", "delete", "get", "update"} => ret[d] = NoRets
    /\ pc[d] = "wait" => lastErr[d] = "nil"

(* IInv holds when it holds of every caller.                              *)
LEMMA IInvByCaller == IInv <=> TypeOK /\ \A d \in Callers : Loc(d)
BY DEF IInv, Loc, RP, CGU, CreateGetUpdateRetryPolicy, RetryPolicy,
       NoReturnInLoop, WaitAfterSuccess

(* A step of caller c leaves the others' handler state alone.              *)
Others(c) ==
    \A d \in Callers \ {c} :
        pc'[d] = pc[d] /\ ret'[d] = ret[d] /\ lastErr'[d] = lastErr[d]

(* A caller whose pc, ret and lastErr a step leaves alone keeps Loc.       *)
LEMMA Frame ==
    ASSUME NEW d, Loc(d), pc'[d] = pc[d], ret'[d] = ret[d],
           lastErr'[d] = lastErr[d]
    PROVE  Loc(d)'
BY DEF Loc, RP

(* The initial state satisfies IInv.                                      *)
LEMMA InitIInv == Init => IInv
BY InitTypeOK DEF Init, IInv, CreateGetUpdateRetryPolicy, RetryPolicy,
                  NoReturnInLoop, WaitAfterSuccess, NoRets, Ops, CGU

(* Every step keeps IInv.                                                  *)
LEMMA NextIInv == IInv /\ [Next]_vars => IInv'
<1> SUFFICES ASSUME IInv, [Next]_vars
             PROVE  TypeOK' /\ \A d \in Callers : Loc(d)'
    BY DEF IInv, Loc, RP, CGU, CreateGetUpdateRetryPolicy, RetryPolicy,
           NoReturnInLoop, WaitAfterSuccess
<1>0. TypeOK
    BY DEF IInv
<1>1. TypeOK'
    BY <1>0, NextTypeOK
<1>2. \A d \in Callers : Loc(d)
    BY IInvByCaller
<1> SUFFICES \A d \in Callers : Loc(d)'
    BY <1>1
<1>3. ASSUME NEW c \in Callers, Start(c) PROVE \A d \in Callers : Loc(d)'
    <2>1. Others(c)
        BY <1>3, <1>0 DEF Start, StartWrapper, TypeOK, Others
    <2>2. /\ pc'[c] \in {"create", "delete", "get"}
          /\ ret'[c] = NoRets /\ lastErr'[c] = "nil"
        BY <1>3, <1>0 DEF Start, StartWrapper, TypeOK
    <2>3. Loc(c)'
        BY <2>2 DEF Loc, RP, NoRets, CGU, Ops
    <2> QED
        BY <1>2, <2>1, <2>3, Frame DEF Others
<1>4. ASSUME NEW c \in Callers, CreateLVMLogicalVolume(c)
      PROVE  \A d \in Callers : Loc(d)'
    <2>1. PICK t \in Transport :
            LET res == CreateResult
                e == Seen(t, res)
                errVar == CreateErrAfterCall(c, e)
            IN  /\ lastErr' = [lastErr EXCEPT ![c] = e]
                /\ \/ /\ e = "nil"
                      /\ Return(c, "Create", "nil", "wait")
                   \/ /\ e = "AlreadyExists"
                      /\ Return(c, "Create", e, "idle")
                   \/ /\ e \notin {"nil", "AlreadyExists"}
                      /\ Retry(c)
                   \/ /\ e \notin {"nil", "AlreadyExists"}
                      /\ Return(c, "Create", errVar, "idle")
        BY <1>4 DEF CreateLVMLogicalVolume
    <2> DEFINE e == Seen(t, CreateResult)
    <2>2. ret[c] = NoRets
        BY <1>2, <1>4 DEF CreateLVMLogicalVolume, Loc
    <2>3. lastErr'[c] = e
        BY <2>1, <1>0 DEF TypeOK
    <2>4. Others(c)
        BY <2>1, <1>0 DEF Return, Retry, TypeOK, Others
    <2>5. Loc(c)'
        <3>1. CASE e = "nil" /\ Return(c, "Create", "nil", "wait")
            BY <3>1, <2>2, <2>3, <1>0 DEF Return, TypeOK, Loc, RP, NoRets, CGU, Ops
        <3>2. CASE e = "AlreadyExists" /\ Return(c, "Create", e, "idle")
            BY <3>2, <2>2, <2>3, <1>0 DEF Return, TypeOK, Loc, RP, NoRets, CGU, Ops
        <3>3. CASE e \notin {"nil", "AlreadyExists"} /\ Retry(c)
            BY <3>3, <2>2, <2>3, <1>4 DEF Retry, Loc, RP, NoRets, CGU, Ops,
                                          CreateLVMLogicalVolume
        <3>4. CASE Return(c, "Create", e, "idle")
            BY <3>4, <2>2, <2>3, <1>0 DEF Return, TypeOK, Loc, RP, NoRets, CGU, Ops
        <3> QED
            BY <2>1, <3>1, <3>2, <3>3, <3>4 DEF CreateErrAfterCall
    <2> QED
        BY <1>2, <2>4, <2>5, Frame DEF Others
<1>5. ASSUME NEW c \in Callers, DeleteLVMLogicalVolume(c)
      PROVE  \A d \in Callers : Loc(d)'
    <2>1. PICK t \in Transport :
            LET res == DeleteResult
                e == Seen(t, res)
                errVar == DeleteErrAfterCall(c, e)
            IN  /\ lastErr' = [lastErr EXCEPT ![c] = e]
                /\ \/ Return(c, "Delete", "nil", "idle")
                   \/ Retry(c)
                   \/ Return(c, "Delete", errVar, "idle")
        BY <1>5 DEF DeleteLVMLogicalVolume
    <2>2. ret[c] = NoRets
        BY <1>2, <1>5 DEF DeleteLVMLogicalVolume, Loc
    <2>3. Others(c)
        BY <2>1, <1>0 DEF Return, Retry, TypeOK, Others
    <2>4. Loc(c)'
        <3>1. CASE Return(c, "Delete", "nil", "idle")
            BY <3>1, <2>2, <1>0 DEF Return, TypeOK, Loc, RP, NoRets, CGU, Ops
        <3>2. CASE Retry(c)
            BY <3>2, <2>2, <1>5 DEF Retry, Loc, RP, NoRets, CGU, Ops,
                                    DeleteLVMLogicalVolume
        <3>3. CASE Return(c, "Delete", err[c], "idle")
            BY <3>3, <2>2, <1>0 DEF Return, TypeOK, Loc, RP, NoRets, CGU, Ops
        <3> QED
            BY <2>1, <3>1, <3>2, <3>3 DEF DeleteErrAfterCall
    <2> QED
        BY <1>2, <2>3, <2>4, Frame DEF Others
<1>6. ASSUME NEW c \in Callers, GetLVMLogicalVolume(c)
      PROVE  \A d \in Callers : Loc(d)'
    <2> DEFINE waitRet ==
            IF llv.phase = LLVStatusFailed THEN "VolumeFailed"
            ELSE IF llv.phase = LLVStatusCreated
                    /\ AreSizesEqualWithinDelta(want[c], llv.actual, Delta)
                 THEN "nil"
                 ELSE "none"
    <2>1. PICK t \in Transport :
            /\ lastErr' = [lastErr EXCEPT ![c] = Seen(t, GetResult)]
            /\ \/ /\ Seen(t, GetResult) = "nil"
                  /\ ret' = [ret EXCEPT ![c]["Get"] = "nil",
                                        ![c]["Wait"] = waitRet]
                  /\ pc' = [pc EXCEPT ![c] = IF waitRet = "none" THEN "wait"
                                                                ELSE "idle"]
               \/ /\ pc' = [pc EXCEPT ![c] = "update"]
                  /\ StartWrapper(c)
               \/ Retry(c)
               \/ /\ ret' = [ret EXCEPT ![c]["Get"] = Seen(t, GetResult),
                                        ![c]["Wait"] = IF flow[c] = "Provision"
                                                       THEN Seen(t, GetResult)
                                                       ELSE "none"]
                  /\ pc' = [pc EXCEPT ![c] = "idle"]
        BY <1>6 DEF GetLVMLogicalVolume
    <2> DEFINE e == Seen(t, GetResult)
    <2>2. ret[c] = NoRets
        BY <1>2, <1>6 DEF GetLVMLogicalVolume, Loc
    <2>3. lastErr'[c] = e
        BY <2>1, <1>0 DEF TypeOK
    <2>4. Others(c)
        BY <2>1, <1>0 DEF StartWrapper, Retry, TypeOK, Others
    <2>5. Loc(c)'
        <3>1. CASE /\ e = "nil"
                   /\ ret' = [ret EXCEPT ![c]["Get"] = "nil",
                                         ![c]["Wait"] = waitRet]
                   /\ pc' = [pc EXCEPT ![c] = IF waitRet = "none" THEN "wait"
                                                                 ELSE "idle"]
            BY <3>1, <2>2, <2>3, <1>0 DEF TypeOK, Loc, RP, NoRets, CGU, Ops
        <3>2. CASE pc' = [pc EXCEPT ![c] = "update"] /\ StartWrapper(c)
            BY <3>2, <1>0 DEF StartWrapper, TypeOK, Loc, RP, NoRets, CGU, Ops
        <3>3. CASE Retry(c)
            BY <3>3, <2>2, <1>6 DEF Retry, Loc, RP, NoRets, CGU, Ops,
                                    GetLVMLogicalVolume
        <3>4. CASE /\ ret' = [ret EXCEPT ![c]["Get"] = e,
                                         ![c]["Wait"] = IF flow[c] = "Provision"
                                                        THEN e ELSE "none"]
                   /\ pc' = [pc EXCEPT ![c] = "idle"]
            BY <3>4, <2>2, <2>3, <1>0 DEF TypeOK, Loc, RP, NoRets, CGU, Ops
        <3> QED
            BY <2>1, <3>1, <3>2, <3>3, <3>4
    <2> QED
        BY <1>2, <2>4, <2>5, Frame DEF Others
<1>7. ASSUME NEW c \in Callers, WaitForStatusUpdate(c)
      PROVE  \A d \in Callers : Loc(d)'
    <2>1. Others(c)
        BY <1>7, <1>0 DEF WaitForStatusUpdate, Return, StartWrapper, TypeOK,
                          Others
    <2>2. Loc(c)'
        <3>1. CASE Return(c, "Wait", "Canceled", "idle")
            <4>1. /\ \A op \in CGU : ret'[c][op] = ret[c][op]
                  /\ pc'[c] = "idle"
                BY <3>1, <1>0 DEF Return, TypeOK, CGU, Ops
            <4>2. lastErr'[c] = lastErr[c]
                BY <1>7 DEF WaitForStatusUpdate
            <4> QED
                BY <4>1, <4>2, <1>2 DEF Loc, RP
        <3>2. CASE pc' = [pc EXCEPT ![c] = "get"] /\ StartWrapper(c)
            BY <3>2, <1>0 DEF StartWrapper, TypeOK, Loc, RP, NoRets, CGU, Ops
        <3> QED
            BY <1>7, <3>1, <3>2 DEF WaitForStatusUpdate
    <2> QED
        BY <1>2, <2>1, <2>2, Frame DEF Others
<1>8. ASSUME NEW c \in Callers, UpdateLVMLogicalVolume(c)
      PROVE  \A d \in Callers : Loc(d)'
    <2>1. PICK t \in Transport :
            LET e == Seen(t, UpdateResult(local[c]))
            IN  /\ lastErr' = [lastErr EXCEPT ![c] = e]
                /\ \/ e = "nil" /\ Return(c, "Update", "nil", "idle")
                   \/ Retry(c)
                   \/ Return(c, "Update", e, "idle")
        BY <1>8 DEF UpdateLVMLogicalVolume
    <2> DEFINE e == Seen(t, UpdateResult(local[c]))
    <2>2. ret[c] = NoRets
        BY <1>2, <1>8 DEF UpdateLVMLogicalVolume, Loc
    <2>3. lastErr'[c] = e
        BY <2>1, <1>0 DEF TypeOK
    <2>4. Others(c)
        BY <2>1, <1>0 DEF Return, Retry, TypeOK, Others
    <2>5. Loc(c)'
        <3>1. CASE e = "nil" /\ Return(c, "Update", "nil", "idle")
            BY <3>1, <2>2, <2>3, <1>0 DEF Return, TypeOK, Loc, RP, NoRets, CGU, Ops
        <3>2. CASE Retry(c)
            BY <3>2, <2>2, <1>8 DEF Retry, Loc, RP, NoRets, CGU, Ops,
                                    UpdateLVMLogicalVolume
        <3>3. CASE Return(c, "Update", e, "idle")
            BY <3>3, <2>2, <2>3, <1>0 DEF Return, TypeOK, Loc, RP, NoRets, CGU, Ops
        <3> QED
            BY <2>1, <3>1, <3>2, <3>3
    <2> QED
        BY <1>2, <2>4, <2>5, Frame DEF Others
<1>9. ASSUME AgentCreate \/ AgentFail \/ ForeignUpdate
      PROVE  \A d \in Callers : Loc(d)'
    <2>1. UNCHANGED <<pc, ret, lastErr>>
        BY <1>9 DEF AgentCreate, AgentFail, ForeignUpdate, EnvWrite, callerVars
    <2> QED
        BY <1>2, <2>1, Frame
<1>10. ASSUME UNCHANGED vars PROVE \A d \in Callers : Loc(d)'
    <2>1. UNCHANGED <<pc, ret, lastErr>>
        BY <1>10 DEF vars, callerVars
    <2> QED
        BY <1>2, <2>1, Frame
<1> QED
    BY <1>3, <1>4, <1>5, <1>6, <1>7, <1>8, <1>9, <1>10 DEF Next

(* CreateLVMLogicalVolume, GetLVMLogicalVolume and UpdateLVMLogicalVolume  *)
(* return the error of their last store call, and Create never retries    *)
(* after AlreadyExists, whatever the store loses and however the callers  *)
(* interleave: for every bound, limit and number of callers.              *)
THEOREM RetryPolicyHolds == Spec => []CreateGetUpdateRetryPolicy
<1>1. IInv => CreateGetUpdateRetryPolicy
    BY DEF IInv
<1> QED
    BY InitIInv, NextIInv, <1>1, PTL DEF Spec

====
