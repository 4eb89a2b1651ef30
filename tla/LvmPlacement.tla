---------------------------- MODULE LvmPlacement ----------------------------
(***************************************************************************)
(* The placement helpers of the sds-lvm-csi utils                          *)
(* (images/sds-lvm-csi/pkg/utils/func.go), and the copies of two of them   *)
(* left in the sds-local-volume-csi utils:                                 *)
(*                                                                         *)
(*   GetNodeMaxFreeVGSize        list every group (retried), the node of   *)
(*                               the one with the most VG free space;      *)
(*   GetLVMVolumeGroupFreeSpace  parse VGSize and AllocatedSize, subtract; *)
(*   GetLVMVolumeGroupParams     list every group (retried in sds-lvm-csi, *)
(*                               once in sds-local-volume-csi), the first  *)
(*                               storage-class group on the node;          *)
(*   GetLVMVolumeGroup           Get one group by name (retried in         *)
(*                               sds-lvm-csi, once in sds-local-volume-csi).*)
(*                                                                         *)
(* The inputs (the store's list of groups, the storage class's group/pool  *)
(* map, the volume type) are chosen by Init; one step calls one helper     *)
(* with transient store failures and a node or name chosen by \E, and      *)
(* records what it returned.  A group's name is its position in the list.  *)
(* Next to the helpers are the spec's definitions (§4.1-4.2) and plain     *)
(* reference definitions they are checked against.                        *)
(***************************************************************************)
EXTENDS Integers, Sequences, SequencesExt

CONSTANTS
    Nodes,                      \* node names
    MaxLVGs,                    \* bound: groups in the store
    MaxSpace,                   \* bound: sizes and pool space
    LVMTypes,                   \* the storage class types tried
    KubernetesApiRequestLimit   \* attempts of a retried store call

(* The Go zero string, as a node name.                                     *)
NoNode == ""

LVMTypeThick == "Thick"
LLVTypeThin == "Thin"

(* The thin pool the storage class names for its groups.                   *)
ThinPoolName == "pool"

(* Quantity strings: the text of a size v, and one resource.ParseQuantity  *)
(* rejects.                                                                *)
QuantityText(v) == <<"quantity", v>>
BadQuantity == <<"garbage", 0>>

ASSUME LvmPlacementAssumption ==
    /\ MaxLVGs \in Nat /\ MaxSpace \in Nat
    /\ KubernetesApiRequestLimit \in Nat \ {0}
    /\ NoNode \notin Nodes
    /\ LVMTypes \subseteq {LVMTypeThick, LLVTypeThin}

(* Status.VGSize and Status.AllocatedSize are quantity strings; one may be *)
(* unparsable.  For thin groups the VG sizes are kept valid and the pool   *)
(* varies, to keep the inputs few.                                         *)
SizeTexts == {QuantityText(v) : v \in 0 .. MaxSpace} \cup {BadQuantity}

LVGData(lvmType) ==
    IF lvmType = LVMTypeThick
    THEN [nodes : {<<>>} \cup {<<n>> : n \in Nodes},
          vgSize : SizeTexts, allocated : SizeTexts, thinPools : {<<>>}]
    ELSE [nodes : {<<>>} \cup {<<n>> : n \in Nodes},
          vgSize : {QuantityText(v) : v \in 0 .. MaxSpace},
          allocated : {QuantityText(0)},
          thinPools : {<<>>} \cup
                      {<<[name |-> ThinPoolName, availableSpace |-> a]>> :
                         a \in 0 .. MaxSpace}]

(* The store's list of groups, each named by its position.                 *)
LVGLists(lvmType) ==
    UNION {{[i \in 1 .. k |-> [name |-> i, nodes |-> d[i].nodes,
                               vgSize |-> d[i].vgSize,
                               allocated |-> d[i].allocated,
                               thinPools |-> d[i].thinPools]] :
              d \in [1 .. k -> LVGData(lvmType)]} : k \in 0 .. MaxLVGs}

(* The storage class's map from the group names it lists to the thin pool *)
(* each names ("" for thick).                                              *)
StorageClassMaps(lvmType) ==
    UNION {[names -> {IF lvmType = LLVTypeThin THEN ThinPoolName ELSE NoNode}] :
             names \in SUBSET (1 .. MaxLVGs)}

Calls == {"none", "GetNodeMaxFreeVGSize", "GetLVMVolumeGroupParams",
          "LocalGetLVMVolumeGroupParams", "GetLVMVolumeGroup",
          "LocalGetLVMVolumeGroup", "CreateVolume"}

(* Errors; "Panic" is the index out of range of lvg.Status.Nodes[0] on a   *)
(* group whose status lists no node yet.                                   *)
Errors == {"none", "ListFailed", "GetFailed", "ParseFailed", "Panic",
           "NoMatches"}

(* What a call returned: the node, the free space, the group (0: none).    *)
Pending == [call |-> "none", err |-> "none", node |-> NoNode, free |-> 0,
            lvg |-> 0, request |-> NoNode]

VARIABLES
    lvgs,       \* the store's list of groups
    lvmVG,      \* the storage class's group/pool map
    lvmType,    \* the storage class's type
    out         \* the call made and what it returned; Pending before

vars == <<lvgs, lvmVG, lvmType, out>>

-----------------------------------------------------------------------------
(* The code.                                                               *)

(* resource.ParseQuantity of a status string.                              *)
ParseQuantity(text) ==
    [ok |-> text[1] = "quantity", value |-> text[2]]

(* GetLVMVolumeGroupFreeSpace (sds-lvm-csi): VGSize minus AllocatedSize,   *)
(* each parsed first; a parse error returns the zero quantity.             *)
GetLVMVolumeGroupFreeSpace(lvg) ==
    LET vgSize == ParseQuantity(lvg.vgSize)
        allocatedSize == ParseQuantity(lvg.allocated)
    IN  IF ~vgSize.ok \/ ~allocatedSize.ok THEN [err |-> "ParseFailed", free |-> 0]
        ELSE [err |-> "none", free |-> vgSize.value - allocatedSize.value]

(* The retried List or Get of sds-lvm-csi: the first failures attempts    *)
(* fail with a transient error; the loop stops at the first success or     *)
(* after KubernetesApiRequestLimit attempts.                               *)
RetriedCallSucceeds(failures) == failures < KubernetesApiRequestLimit

(* Mutant: a tie moves the choice to the later group.                      *)
VGFreeExceedsOrTies(free, maxFreeSpace) == free >= maxFreeSpace

(* freeSpace.Value() > maxFreeSpace                                        *)
VGFreeExceeds(free, maxFreeSpace) == free > maxFreeSpace

(* One iteration of GetNodeMaxFreeVGSize's loop over every listed group:   *)
(* a parse error returns at once; a group with more free space than the    *)
(* running maximum becomes the choice, and reading its node panics if its  *)
(* status lists none.                                                      *)
MaxVGStep(st, lvg) ==
    LET fs == GetLVMVolumeGroupFreeSpace(lvg) IN
    IF st.err # "none" THEN st
    ELSE IF fs.err # "none" THEN [node |-> NoNode, free |-> 0, err |-> fs.err]
    ELSE IF ~VGFreeExceeds(fs.free, st.free) THEN st
    ELSE IF lvg.nodes = <<>> THEN [st EXCEPT !.err = "Panic"]
    ELSE [node |-> lvg.nodes[1], free |-> fs.free, err |-> "none"]

(* GetNodeMaxFreeVGSize: no storage class, no volume type; the running     *)
(* maximum starts at 0.                                                    *)
GetNodeMaxFreeVGSize(failures) ==
    IF ~RetriedCallSucceeds(failures)
    THEN [node |-> NoNode, free |-> 0, err |-> "ListFailed"]
    ELSE FoldLeft(MaxVGStep, [node |-> NoNode, free |-> 0, err |-> "none"], lvgs)

(* Mutant: the storage class filter is dropped.                            *)
ParamsStepUnfiltered(st, lvg, map, nodeName) ==
    IF st.done THEN st
    ELSE IF lvg.nodes = <<>> THEN [lvg |-> 0, err |-> "Panic", done |-> TRUE]
    ELSE IF lvg.nodes[1] = nodeName
         THEN [lvg |-> lvg.name, err |-> "none", done |-> TRUE]
    ELSE st

(* One iteration of GetLVMVolumeGroupParams' loop: a group the storage     *)
(* class names has its Nodes[0] logged (a panic if there is none) and is   *)
(* returned if that node is nodeName.  For thin, the scan of the group's   *)
(* pools against the map's pools returns the same group as falling         *)
(* through does, so it is not modelled apart.                              *)
ParamsStep(st, lvg, map, nodeName) ==
    IF st.done THEN st
    ELSE IF lvg.name \notin DOMAIN map THEN st
    ELSE IF lvg.nodes = <<>> THEN [lvg |-> 0, err |-> "Panic", done |-> TRUE]
    ELSE IF lvg.nodes[1] = nodeName
         THEN [lvg |-> lvg.name, err |-> "none", done |-> TRUE]
    ELSE st

(* Mutant: the end of the loop returns no error.                           *)
ParamsResultNoError(st) ==
    IF st.done THEN st ELSE [lvg |-> 0, err |-> "none", done |-> TRUE]

(* After the loop: "there are no matches".                                 *)
ParamsResult(st) ==
    IF st.done THEN st ELSE [lvg |-> 0, err |-> "NoMatches", done |-> TRUE]

(* The loop of GetLVMVolumeGroupParams over the listed groups.             *)
ScanForParams(map, nodeName) ==
    ParamsResult(FoldLeft(LAMBDA st, lvg : ParamsStep(st, lvg, map, nodeName),
                          [lvg |-> 0, err |-> "none", done |-> FALSE], lvgs))

(* GetLVMVolumeGroupParams (sds-lvm-csi): a retried List, then the scan.   *)
GetLVMVolumeGroupParams(failures, map, nodeName) ==
    IF ~RetriedCallSucceeds(failures) THEN [lvg |-> 0, err |-> "ListFailed"]
    ELSE ScanForParams(map, nodeName)

(* GetLVMVolumeGroupParams (sds-local-volume-csi): a single List.          *)
LocalGetLVMVolumeGroupParams(listErr, map, nodeName) ==
    IF listErr THEN [lvg |-> 0, err |-> "ListFailed"]
    ELSE ScanForParams(map, nodeName)

(* The store's answer to a Get of a group by name.                         *)
Stored(name) == \E i \in DOMAIN lvgs : lvgs[i].name = name

(* GetLVMVolumeGroup (sds-lvm-csi): every error, NotFound included, is    *)
(* retried; nil and the last error after KubernetesApiRequestLimit.       *)
GetLVMVolumeGroup(failures, name) ==
    IF RetriedCallSucceeds(failures) /\ Stored(name)
    THEN [lvg |-> name, err |-> "none"]
    ELSE [lvg |-> 0, err |-> "GetFailed"]

(* GetLVMVolumeGroup (sds-local-volume-csi): a single Get; with an error   *)
(* it returns a pointer to the zero group, here name 0.                    *)
LocalGetLVMVolumeGroup(getErr, name) ==
    IF ~getErr /\ Stored(name) THEN [lvg |-> name, err |-> "none"]
    ELSE [lvg |-> 0, err |-> "GetFailed"]

(* The record of a call's result: the node it returned or was asked for, *)
(* the free space, the group (0: none).                                    *)
Outcome(call, err, node, free, lvg, request) ==
    [call |-> call, err |-> err, node |-> node, free |-> free, lvg |-> lvg,
     request |-> request]

(* The CreateVolume of the sds-lvm-csi controller, which is not among     *)
(* these sources, as spec §2 describes its placement: the preferred node   *)
(* if the request names one, else GetNodeMaxFreeVGSize's; then the group   *)
(* GetLVMVolumeGroupParams finds for it.                                   *)
CreateVolumePlacement(maxFailures, paramFailures, preferred) ==
    LET mf == IF preferred # NoNode
              THEN [node |-> preferred, free |-> 0, err |-> "none"]
              ELSE GetNodeMaxFreeVGSize(maxFailures)
        p == GetLVMVolumeGroupParams(paramFailures, lvmVG, mf.node)
    IN  IF mf.err # "none"
        THEN Outcome("CreateVolume", mf.err, NoNode, 0, 0, preferred)
        ELSE Outcome("CreateVolume", p.err, mf.node, mf.free, p.lvg, preferred)

-----------------------------------------------------------------------------

Init ==
    /\ lvmType \in LVMTypes
    /\ lvgs \in LVGLists(lvmType)
    /\ lvmVG \in StorageClassMaps(lvmType)
    /\ out = Pending

Attempts == 0 .. KubernetesApiRequestLimit

NodeRequests == Nodes \cup {NoNode}

(* A group name to Get: a listed one or one past the list.                 *)
Names == 1 .. MaxLVGs + 1

CallGetNodeMaxFreeVGSize ==
    /\ out = Pending
    /\ \E f \in Attempts :
          LET r == GetNodeMaxFreeVGSize(f) IN
          out' = Outcome("GetNodeMaxFreeVGSize", r.err, r.node, r.free, 0, NoNode)
    /\ UNCHANGED <<lvgs, lvmVG, lvmType>>

CallGetLVMVolumeGroupParams ==
    /\ out = Pending
    /\ \E f \in Attempts, n \in NodeRequests :
          LET r == GetLVMVolumeGroupParams(f, lvmVG, n) IN
          out' = Outcome("GetLVMVolumeGroupParams", r.err, n, 0, r.lvg, n)
    /\ UNCHANGED <<lvgs, lvmVG, lvmType>>

CallLocalGetLVMVolumeGroupParams ==
    /\ out = Pending
    /\ \E listErr \in BOOLEAN, n \in NodeRequests :
          LET r == LocalGetLVMVolumeGroupParams(listErr, lvmVG, n) IN
          out' = Outcome("LocalGetLVMVolumeGroupParams", r.err, n, 0, r.lvg, n)
    /\ UNCHANGED <<lvgs, lvmVG, lvmType>>

CallGetLVMVolumeGroup ==
    /\ out = Pending
    /\ \E f \in Attempts, name \in Names :
          LET r == GetLVMVolumeGroup(f, name) IN
          out' = Outcome("GetLVMVolumeGroup", r.err, NoNode, 0, r.lvg, NoNode)
    /\ UNCHANGED <<lvgs, lvmVG, lvmType>>

CallLocalGetLVMVolumeGroup ==
    /\ out = Pending
    /\ \E getErr \in BOOLEAN, name \in Names :
          LET r == LocalGetLVMVolumeGroup(getErr, name) IN
          out' = Outcome("LocalGetLVMVolumeGroup", r.err, NoNode, 0, r.lvg, NoNode)
    /\ UNCHANGED <<lvgs, lvmVG, lvmType>>

CreateVolume ==
    /\ out = Pending
    /\ \E f1, f2 \in Attempts, preferred \in NodeRequests :
          out' = CreateVolumePlacement(f1, f2, preferred)
    /\ UNCHANGED <<lvgs, lvmVG, lvmType>>

Next ==
    \/ CallGetNodeMaxFreeVGSize
    \/ CallGetLVMVolumeGroupParams \/ CallLocalGetLVMVolumeGroupParams
    \/ CallGetLVMVolumeGroup \/ CallLocalGetLVMVolumeGroup
    \/ CreateVolume

Spec == Init /\ [][Next]_vars

-----------------------------------------------------------------------------
(* The spec's definitions (§4.1-4.2) and plain reference definitions.      *)

(* ListEligibleGroups: the listed groups the selector names, in order.     *)
Eligible == SelectSeq(lvgs, LAMBDA g : g.name \in DOMAIN lvmVG)

(* FreeSpace: totalSize - allocatedSize for thick, the named pool's        *)
(* availableSpace for thin, PoolNotFound if no pool has that name.         *)
SpecFreeSpace(g, type, poolName) ==
    IF type = LVMTypeThick
    THEN [err |-> "none", free |-> ParseQuantity(g.vgSize).value
                                   - ParseQuantity(g.allocated).value]
    ELSE IF \E j \in DOMAIN g.thinPools : g.thinPools[j].name = poolName
         THEN [err |-> "none",
               free |-> (CHOOSE tp \in Range(g.thinPools) :
                           tp.name = poolName).availableSpace]
         ELSE [err |-> "PoolNotFound", free |-> 0]

(* NodeWithMaxFreeSpace over the eligible groups: the node of the first    *)
(* group whose free space is the largest.                                  *)
SpecNodeWithMaxFreeSpace(groups, selector, type) ==
    LET fs == [i \in DOMAIN groups |->
                 SpecFreeSpace(groups[i], type, selector[groups[i].name])]
        best == CHOOSE i \in DOMAIN groups :
                  /\ \A j \in DOMAIN groups : fs[j].free <= fs[i].free
                  /\ \A j \in 1 .. i - 1 : fs[j].free < fs[i].free
    IN  IF \E i \in DOMAIN groups : fs[i].err # "none"
        THEN [err |-> "PoolNotFound", node |-> NoNode, free |-> 0]
        ELSE IF groups = <<>> \/ groups[best].nodes = <<>>
             THEN [err |-> "none", node |-> NoNode, free |-> 0]
        ELSE [err |-> "none", node |-> groups[best].nodes[1],
              free |-> fs[best].free]

(* SelectGroupForNode: the first group whose host node is node.            *)
SelectGroupForNode(groups, node) ==
    LET on == {i \in DOMAIN groups : groups[i].nodes = <<node>>} IN
    IF on = {} THEN [err |-> "NoEligibleTarget", lvg |-> 0]
    ELSE [err |-> "none", lvg |-> groups[Min(on)].name]

(* The VG free space of a listed group whose sizes parse.                  *)
VGFree(g) == GetLVMVolumeGroupFreeSpace(g).free

Parsable(g) == ParseQuantity(g.vgSize).ok /\ ParseQuantity(g.allocated).ok

(* The largest VG free space of a listed group, 0 if none is positive, and *)
(* the first group that has it.                                            *)
MaxVGFree == Max({0} \cup {VGFree(lvgs[i]) : i \in DOMAIN lvgs})

FirstRoomiest == Min({i \in DOMAIN lvgs : VGFree(lvgs[i]) = MaxVGFree})

-----------------------------------------------------------------------------
(* Properties.                                                             *)

(* The groups the store may list.                                          *)
LVGRecords ==
    [name : 1 .. MaxLVGs, nodes : {<<>>} \cup {<<n>> : n \in Nodes},
     vgSize : SizeTexts, allocated : SizeTexts,
     thinPools : {<<>>} \cup {<<[name |-> ThinPoolName, availableSpace |-> a]>> :
                                a \in 0 .. MaxSpace}]

(* Type invariant; a call that found a group without error names a listed *)
(* group.                                                                  *)
TypeOK ==
    /\ lvmType \in LVMTypes
    /\ lvgs \in Seq(LVGRecords) /\ Len(lvgs) <= MaxLVGs
    /\ DOMAIN lvmVG \subseteq 1 .. MaxLVGs
    /\ out.call \in Calls /\ out.err \in Errors
    /\ out.node \in NodeRequests /\ out.request \in NodeRequests
    /\ out.free \in -MaxSpace .. MaxSpace
    /\ out.lvg \in 0 .. MaxLVGs + 1
    /\ out.err = "none" /\ out.call \notin {"none", "GetNodeMaxFreeVGSize"}
          => out.lvg \in 1 .. Len(lvgs)

(* GetNodeMaxFreeVGSize, when it lists the groups and does not panic,      *)
(* fails exactly when some group's sizes do not parse, and otherwise       *)
(* returns the largest VG free space of any listed group (0 if none is     *)
(* positive) and the node of the first group that has it (none for 0);     *)
(* it panics only on a group with positive free space and no node.         *)
MaxFreeVGFollowsReference ==
    out.call = "GetNodeMaxFreeVGSize" =>
        /\ out.err = "Panic" =>
              \E i \in DOMAIN lvgs : lvgs[i].nodes = <<>> /\ VGFree(lvgs[i]) > 0
        /\ out.err \notin {"Panic", "ListFailed"} =>
              /\ out.err = "ParseFailed" <=> \E i \in DOMAIN lvgs : ~Parsable(lvgs[i])
              /\ out.err = "none" =>
                    /\ out.free = MaxVGFree
                    /\ out.node = IF MaxVGFree = 0 THEN NoNode
                                  ELSE lvgs[FirstRoomiest].nodes[1]

(* Both copies of GetLVMVolumeGroupParams, when they list the groups and   *)
(* do not panic, are the spec's SelectGroupForNode on the storage class's  *)
(* groups: the first one on the node, "no matches" when there is none.     *)
(* They panic only on a storage-class group whose status lists no node.    *)
ParamsFollowSelect ==
    out.call \in {"GetLVMVolumeGroupParams", "LocalGetLVMVolumeGroupParams"} =>
        LET sel == SelectGroupForNode(Eligible, out.request) IN
        /\ out.err = "Panic" =>
              \E i \in DOMAIN Eligible : Eligible[i].nodes = <<>>
        /\ out.err \notin {"Panic", "ListFailed"} =>
              /\ out.err = "none" <=> sel.err = "none"
              /\ out.err = "none" => out.lvg = sel.lvg

(* The spec (§2, §4.1): without a preferred node, CreateVolume places the  *)
(* volume on the node NodeWithMaxFreeSpace picks from the storage class's  *)
(* groups, measured by the pool for thin, whenever some group has room.    *)
(* GetNodeMaxFreeVGSize measures every listed group by its VG free space.  *)
ChainFollowsSpec ==
    out.call = "CreateVolume" /\ out.request = NoNode
    /\ out.err \in {"none", "NoMatches"} =>
        LET ref == SpecNodeWithMaxFreeSpace(Eligible, lvmVG, lvmType) IN
        ref.err = "none" /\ ref.free > 0 /\ ref.node # NoNode =>
            out.err = "none" /\ out.node = ref.node
====
