------------------------ MODULE LvmCsiRefinementProofs ------------------------
(***************************************************************************)
(* Proof that LvmCsiClient implements LvmCsiRecord under the mapping of    *)
(* LvmCsiRefinement, for every value of the constants.  Each step of the   *)
(* handlers, the transport and the agent is a step of the abstract record *)
(* or leaves its view alone.  The sizes need an invariant: the record, a   *)
(* running Create and a running Update carry only sizes a request asked   *)
(* for, because CreateVolume and ControllerExpandVolume start with one and *)
(* the expansion's Update sends the object the Get fetched with it.       *)
(***************************************************************************)
EXTENDS LvmCsiRefinement, LvmCsiClientProofs

(* The sizes a handler carries are requested ones: the wanted size of a    *)
(* provisioning or an expansion, and the size its Update sends.            *)
SizesRequested(c) ==
    /\ flow[c] \in {"Provision", "Expand"} => want[c] \in Sizes
    /\ pc[c] = "create" => flow[c] = "Provision"
    /\ pc[c] = "update" => local[c].size \in Sizes

(* The inductive invariant of the refinement: the record held under the   *)
(* name has a requested size, and so has every handler.                   *)
SizeInv ==
    /\ TypeOK
    /\ llv.exists => llv.size \in Sizes
    /\ \A c \in Callers : SizesRequested(c)

USE ClientAssumption

(* A handler whose flow, wanted size, pc and copy a step leaves alone      *)
(* keeps its sizes requested.                                              *)
LEMMA SizesFrame ==
    ASSUME NEW d, SizesRequested(d), flow'[d] = flow[d], want'[d] = want[d],
           pc'[d] = pc[d], local'[d] = local[d]
    PROVE  SizesRequested(d)'
BY DEF SizesRequested

(* A step of handler c leaves the others' sizes alone.                     *)
SizesOthers(c) ==
    \A d \in Callers \ {c} :
        /\ flow'[d] = flow[d] /\ want'[d] = want[d]
        /\ pc'[d] = pc[d] /\ local'[d] = local[d]

(* Initially no record and no handler carries a size.                      *)
LEMMA InitSizeInv == Init => SizeInv
BY InitTypeOK DEF Init, SizeInv, SizesRequested, NoLLV

(* Every step keeps the sizes requested.                                   *)
LEMMA NextSizeInv == SizeInv /\ [Next]_vars => SizeInv'
<1> SUFFICES ASSUME SizeInv, [Next]_vars
             PROVE  /\ llv'.exists => llv'.size \in Sizes
                    /\ \A d \in Callers : SizesRequested(d)'
    BY NextTypeOK DEF SizeInv
<1>0. TypeOK
    BY DEF SizeInv
<1>1. \A d \in Callers : SizesRequested(d)
    BY DEF SizeInv
<1>2. llv.exists => llv.size \in Sizes
    BY DEF SizeInv
<1>3. ASSUME NEW c \in Callers, Start(c)
      PROVE  /\ llv'.exists => llv'.size \in Sizes
             /\ \A d \in Callers : SizesRequested(d)'
    <2>1. SizesOthers(c)
        BY <1>3, <1>0 DEF Start, TypeOK, SizesOthers
    <2>2. SizesRequested(c)'
        BY <1>3, <1>0 DEF Start, TypeOK, SizesRequested
    <2>3. llv' = llv
        BY <1>3 DEF Start, storeVars
    <2> QED
        BY <1>1, <1>2, <2>1, <2>2, <2>3, SizesFrame DEF SizesOthers
<1>4. ASSUME NEW c \in Callers, CreateLVMLogicalVolume(c)
      PROVE  /\ llv'.exists => llv'.size \in Sizes
             /\ \A d \in Callers : SizesRequested(d)'
    <2>1. want[c] \in Sizes
        BY <1>1, <1>4 DEF CreateLVMLogicalVolume, SizesRequested
    <2>2. llv' = NewLLV(want[c]) \/ llv' = llv
        BY <1>4 DEF CreateLVMLogicalVolume
    <2>3. llv'.exists => llv'.size \in Sizes
        BY <2>1, <2>2, <1>2 DEF NewLLV
    <2>4. pc'[c] \in {"wait", "idle", "create"}
        BY <1>4, <1>0 DEF CreateLVMLogicalVolume, Return, Retry, TypeOK
    <2>5. SizesRequested(c)'
        BY <1>4, <1>1, <2>4 DEF CreateLVMLogicalVolume, SizesRequested
    <2>6. SizesOthers(c)
        BY <1>4, <1>0 DEF CreateLVMLogicalVolume, Return, Retry, TypeOK,
                          SizesOthers
    <2> QED
        BY <1>1, <2>3, <2>5, <2>6, SizesFrame DEF SizesOthers
<1>5. ASSUME NEW c \in Callers, DeleteLVMLogicalVolume(c)
      PROVE  /\ llv'.exists => llv'.size \in Sizes
             /\ \A d \in Callers : SizesRequested(d)'
    <2>1. llv' = Deleted \/ llv' = llv
        BY <1>5 DEF DeleteLVMLogicalVolume
    <2>2. llv'.exists => llv'.size \in Sizes
        BY <2>1, <1>2 DEF Deleted
    <2>3. pc'[c] \in {"idle", "delete"}
        BY <1>5, <1>0 DEF DeleteLVMLogicalVolume, Return, Retry, TypeOK
    <2>4. SizesRequested(c)'
        BY <1>5, <1>1, <2>3 DEF DeleteLVMLogicalVolume, SizesRequested
    <2>5. SizesOthers(c)
        BY <1>5, <1>0 DEF DeleteLVMLogicalVolume, Return, Retry, TypeOK,
                          SizesOthers
    <2> QED
        BY <1>1, <2>2, <2>4, <2>5, SizesFrame DEF SizesOthers
<1>6. ASSUME NEW c \in Callers, GetLVMLogicalVolume(c)
      PROVE  /\ llv'.exists => llv'.size \in Sizes
             /\ \A d \in Callers : SizesRequested(d)'
    <2>1. llv' = llv
        BY <1>6 DEF GetLVMLogicalVolume, storeVars
    <2>2. SizesOthers(c)
        BY <1>6, <1>0 DEF GetLVMLogicalVolume, StartWrapper, Retry, TypeOK,
                          SizesOthers
    <2>3. flow'[c] = flow[c] /\ want'[c] = want[c]
        BY <1>6 DEF GetLVMLogicalVolume
    <2>4. \/ pc'[c] \in {"wait", "idle", "get"} /\ local'[c] = local[c]
          \/ /\ flow[c] = "Expand" /\ pc'[c] = "update"
             /\ local'[c] = [rv |-> llv.rv, size |-> want[c]]
        BY <1>6, <1>0 DEF GetLVMLogicalVolume, Retry, TypeOK
    <2>5. SizesRequested(c)'
        BY <1>1, <1>6, <2>3, <2>4 DEF GetLVMLogicalVolume, SizesRequested
    <2> QED
        BY <1>1, <1>2, <2>1, <2>2, <2>5, SizesFrame DEF SizesOthers
<1>7. ASSUME NEW c \in Callers, WaitForStatusUpdate(c)
      PROVE  /\ llv'.exists => llv'.size \in Sizes
             /\ \A d \in Callers : SizesRequested(d)'
    <2>1. llv' = llv
        BY <1>7 DEF WaitForStatusUpdate, storeVars
    <2>2. SizesOthers(c)
        BY <1>7, <1>0 DEF WaitForStatusUpdate, Return, StartWrapper, TypeOK,
                          SizesOthers
    <2>3. pc'[c] \in {"idle", "get"}
        BY <1>7, <1>0 DEF WaitForStatusUpdate, Return, TypeOK
    <2>4. SizesRequested(c)'
        BY <1>1, <1>7, <2>3 DEF WaitForStatusUpdate, SizesRequested
    <2> QED
        BY <1>1, <1>2, <2>1, <2>2, <2>4, SizesFrame DEF SizesOthers
<1>8. ASSUME NEW c \in Callers, UpdateLVMLogicalVolume(c)
      PROVE  /\ llv'.exists => llv'.size \in Sizes
             /\ \A d \in Callers : SizesRequested(d)'
    <2>1. local[c].size \in Sizes
        BY <1>1, <1>8 DEF UpdateLVMLogicalVolume, SizesRequested
    <2>2. llv' = Updated(local[c]) \/ llv' = llv
        BY <1>8 DEF UpdateLVMLogicalVolume
    <2>3. llv'.exists => llv'.size \in Sizes
        BY <2>1, <2>2, <1>2 DEF Updated
    <2>4. pc'[c] \in {"idle", "update"}
        BY <1>8, <1>0 DEF UpdateLVMLogicalVolume, Return, Retry, TypeOK
    <2>5. SizesRequested(c)'
        BY <1>8, <1>1, <2>4 DEF UpdateLVMLogicalVolume, SizesRequested
    <2>6. SizesOthers(c)
        BY <1>8, <1>0 DEF UpdateLVMLogicalVolume, Return, Retry, TypeOK,
                          SizesOthers
    <2> QED
        BY <1>1, <2>3, <2>5, <2>6, SizesFrame DEF SizesOthers
<1>9. ASSUME AgentCreate \/ AgentFail \/ ForeignUpdate
      PROVE  /\ llv'.exists => llv'.size \in Sizes
             /\ \A d \in Callers : SizesRequested(d)'
    <2>1. llv.exists /\ llv'.size = llv.size
        BY <1>9 DEF AgentCreate, AgentFail, ForeignUpdate, EnvWrite
    <2>2. UNCHANGED <<flow, want, pc, local>>
        BY <1>9 DEF AgentCreate, AgentFail, ForeignUpdate, EnvWrite, callerVars
    <2> QED
        BY <1>1, <1>2, <2>1, <2>2, SizesFrame
<1>10. ASSUME UNCHANGED vars
       PROVE  /\ llv'.exists => llv'.size \in Sizes
              /\ \A d \in Callers : SizesRequested(d)'
    <2>1. UNCHANGED <<llv, flow, want, pc, local>>
        BY <1>10 DEF vars, storeVars, callerVars
    <2> QED
        BY <1>1, <1>2, <2>1, SizesFrame
<1> QED
    BY <1>3, <1>4, <1>5, <1>6, <1>7, <1>8, <1>9, <1>10 DEF Next

-----------------------------------------------------------------------------
(* The refinement.                                                         *)

(* A step that leaves the record alone is a stutter of the abstract one.   *)
LEMMA RecordUnchanged ==
    ASSUME llv' = llv PROVE [Record!Next]_Record!rvars
BY DEF Record!rvars

(* An applied Create of the wanted size takes the free name.               *)
LEMMA CreateIsCreate ==
    ASSUME TypeOK, ~llv.exists, NEW s \in Sizes, llv' = NewLLV(s)
    PROVE  Record!Create
BY DEF Record!Create, NewLLV, NoStatus, TypeOK

(* An applied Delete frees the name.                                       *)
LEMMA DeleteIsDelete ==
    ASSUME llv.exists, llv' = Deleted PROVE Record!Delete
BY DEF Record!Delete, Deleted, NoStatus

(* An applied Update of a copy with a requested size is a Resize.          *)
LEMMA UpdateIsResize ==
    ASSUME llv.exists, NEW copy, copy.size \in Sizes, llv' = Updated(copy)
    PROVE  Record!Resize
BY DEF Record!Resize, Updated

(* Every step of LvmCsiClient is a step of LvmCsiRecord or a stutter.      *)
LEMMA StepRefines == SizeInv /\ [Next]_vars => [Record!Next]_Record!rvars
<1> SUFFICES ASSUME SizeInv, [Next]_vars PROVE [Record!Next]_Record!rvars
    OBVIOUS
<1>0. TypeOK
    BY DEF SizeInv
<1>1. \A d \in Callers : SizesRequested(d)
    BY DEF SizeInv
<1>2. ASSUME NEW c \in Callers,
             Start(c) \/ GetLVMLogicalVolume(c) \/ WaitForStatusUpdate(c)
      PROVE  [Record!Next]_Record!rvars
    <2>1. llv' = llv
        BY <1>2 DEF Start, GetLVMLogicalVolume, WaitForStatusUpdate, storeVars
    <2> QED
        BY <2>1, RecordUnchanged
<1>3. ASSUME NEW c \in Callers, CreateLVMLogicalVolume(c)
      PROVE  [Record!Next]_Record!rvars
    <2>1. PICK t \in Transport :
              llv' = IF Applied(t, CreateResult) THEN NewLLV(want[c]) ELSE llv
        BY <1>3 DEF CreateLVMLogicalVolume
    <2>2. CASE Applied(t, CreateResult)
        <3>1. ~llv.exists
            BY <2>2 DEF Applied, CreateResult
        <3>2. want[c] \in Sizes
            BY <1>1, <1>3 DEF CreateLVMLogicalVolume, SizesRequested
        <3>3. Record!Create
            BY <2>1, <2>2, <3>1, <3>2, <1>0, CreateIsCreate
        <3> QED
            BY <3>3 DEF Record!Next
    <2>3. CASE ~Applied(t, CreateResult)
        BY <2>1, <2>3, RecordUnchanged
    <2> QED
        BY <2>2, <2>3
<1>4. ASSUME NEW c \in Callers, DeleteLVMLogicalVolume(c)
      PROVE  [Record!Next]_Record!rvars
    <2>1. PICK t \in Transport :
              llv' = IF Applied(t, DeleteResult) THEN Deleted ELSE llv
        BY <1>4 DEF DeleteLVMLogicalVolume
    <2>2. CASE Applied(t, DeleteResult)
        <3>1. llv.exists
            BY <2>2 DEF Applied, DeleteResult
        <3>2. Record!Delete
            BY <2>1, <2>2, <3>1, DeleteIsDelete
        <3> QED
            BY <3>2 DEF Record!Next
    <2>3. CASE ~Applied(t, DeleteResult)
        BY <2>1, <2>3, RecordUnchanged
    <2> QED
        BY <2>2, <2>3
<1>5. ASSUME NEW c \in Callers, UpdateLVMLogicalVolume(c)
      PROVE  [Record!Next]_Record!rvars
    <2>1. PICK t \in Transport :
              llv' = IF Applied(t, UpdateResult(local[c]))
                     THEN Updated(local[c]) ELSE llv
        BY <1>5 DEF UpdateLVMLogicalVolume
    <2>2. CASE Applied(t, UpdateResult(local[c]))
        <3>1. llv.exists
            BY <2>2 DEF Applied, UpdateResult
        <3>2. local[c].size \in Sizes
            BY <1>1, <1>5 DEF UpdateLVMLogicalVolume, SizesRequested
        <3>3. Record!Resize
            BY <2>1, <2>2, <3>1, <3>2, UpdateIsResize
        <3> QED
            BY <3>3 DEF Record!Next
    <2>3. CASE ~Applied(t, UpdateResult(local[c]))
        BY <2>1, <2>3, RecordUnchanged
    <2> QED
        BY <2>2, <2>3
<1>6. CASE AgentCreate
    <2>1. Record!Report
        BY <1>6 DEF AgentCreate, EnvWrite, Record!Report, LLVStatusCreated
    <2> QED
        BY <2>1 DEF Record!Next
<1>7. CASE AgentFail
    <2>1. Record!Report
        BY <1>7 DEF AgentFail, EnvWrite, Record!Report, LLVStatusFailed,
                    NoStatus
    <2> QED
        BY <2>1 DEF Record!Next
<1>8. CASE ForeignUpdate
    BY <1>8 DEF ForeignUpdate, EnvWrite, Record!rvars
<1>9. CASE UNCHANGED vars
    BY <1>9, RecordUnchanged DEF vars, storeVars
<1> QED
    BY <1>2, <1>3, <1>4, <1>5, <1>6, <1>7, <1>8, <1>9 DEF Next

(* LvmCsiClient implements LvmCsiRecord, for every number of handlers,     *)
(* budget and bound: whatever the store loses and however the handlers,    *)
(* their retries and the agent interleave, a Create takes only a free name *)
(* as a new incarnation, an Update writes only a requested size and keeps  *)
(* the status, and the agent's reports keep the size.                      *)
THEOREM Refinement == Spec => RecordSpec
<1>1. Init => Record!Init
    BY DEF Init, NoLLV, Record!Init, NoStatus
<1>2. SizeInv /\ [Next]_vars => [Record!Next]_Record!rvars
    BY StepRefines
<1> QED
    BY <1>1, <1>2, InitSizeInv, NextSizeInv, PTL
       DEF Spec, RecordSpec, Record!Spec
=============================================================================
