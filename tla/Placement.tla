------------------------------ MODULE Placement ------------------------------
(***************************************************************************)
(* Where CreateVolume puts a new volume.  The placement helpers of the     *)
(* local-volume CSI utils, in the order the controller calls them:         *)
(*                                                                         *)
(*   GetStorageClassLVGsAndParameters  list the groups, keep those the     *)
(*                                     storage class names;                *)
(*   GetNodeWithMaxFreeSpace           the node of the roomiest group      *)
(*                                     (skipped when the request names a   *)
(*                                     preferred node);                    *)
(*   SelectLVG                         the group to use on that node;      *)
(*   IsContiguous, GetLLVSpec          the spec of the new LLV.            *)
(*                                                                         *)
(* Next to them are the spec's definitions of the same steps (§4.1-4.3),   *)
(* against which runs compare them over every small list of groups.        *)
(*                                                                         *)
(* The inputs (the store's list of groups, the storage class's group/pool  *)
(* map, the request) are chosen by Init; one step runs the helpers and     *)
(* records their outcome.  A group's name is its position in the list: the *)
(* store lists groups by name, and names are unique.                       *)
(***************************************************************************)
EXTENDS Integers, Sequences, SequencesExt

CONSTANTS
    Nodes,             \* node names
    MaxLVGs,           \* bound: groups in the store
    MaxSpace,          \* bound: free space of a group or a thin pool
    LVMTypes,          \* the volume types requested
    PreferredNodes,    \* the preferred nodes requested (NoNode: none)
    ContiguousParams   \* the request's contiguous parameter ("absent": none)

(* The Go zero string, as a node name and as a thin pool name.             *)
NoNode == ""

(* internal.LVMTypeThick, internal.LVMTypeThin.                            *)
LVMTypeThick == "Thick"
LVMTypeThin == "Thin"

(* The thin pool the storage class names for its groups.                   *)
ThinPoolName == "pool"

ASSUME PlacementAssumption ==
    /\ MaxLVGs \in Nat /\ MaxSpace \in Nat
    /\ NoNode \notin Nodes
    /\ LVMTypes \subseteq {LVMTypeThick, LVMTypeThin}
    /\ PreferredNodes \subseteq Nodes \cup {NoNode}
    /\ ContiguousParams \subseteq {"absent", "true", "false"}

(* The fields of an LVMVolumeGroup's status that placement reads: Nodes    *)
(* (empty until the agent has reported the node), VGFree, ThinPools.  The  *)
(* fields a type does not read are fixed, to keep the inputs few.          *)
LVGData(lvmType) ==
    IF lvmType = LVMTypeThick
    THEN [nodes : {<<>>} \cup {<<n>> : n \in Nodes},
          vgFree : 0 .. MaxSpace, thinPools : {<<>>}]
    ELSE [nodes : {<<>>} \cup {<<n>> : n \in Nodes}, vgFree : {0},
          thinPools : {<<>>} \cup
                      {<<[name |-> ThinPoolName, availableSpace |-> a]>> :
                         a \in 0 .. MaxSpace}]

(* The store's list of groups, each named by its position.                 *)
LVGLists(lvmType) ==
    UNION {{[i \in 1 .. k |-> [name |-> i, nodes |-> d[i].nodes,
                               vgFree |-> d[i].vgFree,
                               thinPools |-> d[i].thinPools]] :
              d \in [1 .. k -> LVGData(lvmType)]} : k \in 0 .. MaxLVGs}

(* snc.LVMVolumeGroup{}: the zero group SelectLVG returns with its error.  *)
ZeroLVG == [name |-> 0, nodes |-> <<>>, vgFree |-> 0, thinPools |-> <<>>]

(* The storage class's lvmVolumeGroups parameter, parsed into a map from   *)
(* the group names it lists to the thin pool each names ("" for thick).    *)
StorageClassMaps(lvmType) ==
    UNION {[names -> {IF lvmType = LVMTypeThin THEN ThinPoolName ELSE NoNode}] :
             names \in SUBSET (1 .. MaxLVGs)}

(* Errors of the chain; "Panic" is the index out of range of               *)
(* lvg.Status.Nodes[0] on a group whose status lists no node.              *)
Errors == {"none", "ListFailed", "Panic", "ThinPoolNameNotFound",
           "ThinPoolNotFound", "NoLVGOnNode"}

(* GetLLVSpec's result: Thin is nil for thick (pool NoPool); the pointer   *)
(* Thick.Contiguous is a set of at most one Boolean, {} for nil.           *)
NoPool == "nil"
NoSpec == [lvmVolumeGroupName |-> 0, type |-> NoPool, thinPoolName |-> NoPool,
           contiguous |-> {}]

(* The outcome before the chain has run.                                   *)
Pending == [err |-> "pending", node |-> NoNode, free |-> 0, lvg |-> ZeroLVG,
            spec |-> NoSpec]

VARIABLES
    lvgs,         \* the store's list of groups
    scMap,        \* storageClassLVGParametersMap
    lvmType,      \* the storage class's type
    preferred,    \* the request's preferred node
    contiguous,   \* the request's contiguous parameter
    outcome       \* what the chain returned; Pending before it ran

vars == <<lvgs, scMap, lvmType, preferred, contiguous, outcome>>

-----------------------------------------------------------------------------
(* The code.                                                               *)

(* lvg.Status.Nodes[0].Name, which panics when Nodes is empty.             *)
HasNode(lvg) == lvg.nodes # <<>>
NodeName(lvg) == lvg.nodes[1]

(* GetLVMThinPoolFreeSpace: the first pool with the name, else an error.   *)
GetLVMThinPoolFreeSpace(lvg, thinPoolName) ==
    LET i == SelectInSeq(lvg.thinPools, LAMBDA tp : tp.name = thinPoolName)
    IN  IF i = 0 THEN [err |-> "ThinPoolNotFound", free |-> 0]
        ELSE [err |-> "none", free |-> lvg.thinPools[i].availableSpace]

(* The switch on lvmType in GetNodeWithMaxFreeSpace's loop.                *)
FreeSpaceOf(lvg, map, type) ==
    IF type = LVMTypeThick THEN [err |-> "none", free |-> lvg.vgFree]
    ELSE IF lvg.name \notin DOMAIN map
         THEN [err |-> "ThinPoolNameNotFound", free |-> 0]
         ELSE GetLVMThinPoolFreeSpace(lvg, map[lvg.name])

(* Mutant: a tie moves the choice to the later group.                      *)
ExceedsOrTies(free, maxFreeSpace) == free >= maxFreeSpace

(* freeSpace.Value() > maxFreeSpace                                        *)
Exceeds(free, maxFreeSpace) == free > maxFreeSpace

(* One iteration of GetNodeWithMaxFreeSpace's loop: an error returns at    *)
(* once; a group with more free space than the running maximum becomes the *)
(* choice, and reading its node panics if its status lists none.           *)
MaxFreeStep(st, lvg, map, type) ==
    LET f == FreeSpaceOf(lvg, map, type) IN
    IF st.err # "none" THEN st
    ELSE IF f.err # "none" THEN [node |-> NoNode, free |-> 0, err |-> f.err]
    ELSE IF ~Exceeds(f.free, st.free) THEN st
    ELSE IF ~HasNode(lvg) THEN [st EXCEPT !.err = "Panic"]
    ELSE [node |-> NodeName(lvg), free |-> f.free, err |-> "none"]

(* GetNodeWithMaxFreeSpace: the running maximum starts at 0.               *)
GetNodeWithMaxFreeSpace(groups, map, type) ==
    FoldLeft(LAMBDA st, lvg : MaxFreeStep(st, lvg, map, type),
             [node |-> NoNode, free |-> 0, err |-> "none"], groups)

(* GetStorageClassLVGsAndParameters once the parameter is parsed: a list   *)
(* error returns; the groups the map names are kept in list order, and the *)
(* log line that reads each kept group's Nodes[0] panics on one with none. *)
GetStorageClassLVGsAndParameters(all, map, listErr) ==
    LET kept == SelectSeq(all, LAMBDA lvg : lvg.name \in DOMAIN map) IN
    IF listErr THEN [err |-> "ListFailed", lvgs |-> <<>>]
    ELSE IF \E i \in DOMAIN kept : ~HasNode(kept[i])
         THEN [err |-> "Panic", lvgs |-> <<>>]
         ELSE [err |-> "none", lvgs |-> kept]

(* Mutant: the last group on the node instead of the first.               *)
SelectLVGLast(groups, nodeName) ==
    LET i == SelectLastInSeq(groups, LAMBDA lvg : NodeName(lvg) = nodeName)
    IN  IF i = 0 THEN [err |-> "NoLVGOnNode", lvg |-> ZeroLVG]
        ELSE [err |-> "none", lvg |-> groups[i]]

(* Mutant: the zero group is returned without the error.                   *)
SelectLVGNoError(groups, nodeName) ==
    LET i == SelectInSeq(groups, LAMBDA lvg : NodeName(lvg) = nodeName)
    IN  IF i = 0 THEN [err |-> "none", lvg |-> ZeroLVG]
        ELSE [err |-> "none", lvg |-> groups[i]]

(* SelectLVG: the first group whose node is nodeName.  Every group passed  *)
(* in has a node (GetStorageClassLVGsAndParameters read them all).         *)
SelectLVG(groups, nodeName) ==
    LET i == SelectInSeq(groups, LAMBDA lvg : NodeName(lvg) = nodeName)
    IN  IF i = 0 THEN [err |-> "NoLVGOnNode", lvg |-> ZeroLVG]
        ELSE [err |-> "none", lvg |-> groups[i]]

(* IsContiguous: never for thin; else the parameter is given and "true".   *)
IsContiguous(param, type) == type # LVMTypeThin /\ param = "true"

(* storageClassLVGParametersMap[name]: "" for a name the map lacks.        *)
PoolOf(map, name) == IF name \in DOMAIN map THEN map[name] ELSE NoNode

(* Mutant: Thick.Contiguous is set whatever its value.                     *)
GetLLVSpecExplicitFalse(selectedLVG, map, type, isContiguous) ==
    [lvmVolumeGroupName |-> selectedLVG.name, type |-> type,
     thinPoolName |-> IF type = LVMTypeThin THEN PoolOf(map, selectedLVG.name)
                      ELSE NoPool,
     contiguous |-> IF type = LVMTypeThick THEN {isContiguous} ELSE {}]

(* GetLLVSpec: the pool the map names for the group for thin; for thick,   *)
(* Thick.Contiguous is set only when the volume is to be contiguous.       *)
GetLLVSpec(selectedLVG, map, type, isContiguous) ==
    [lvmVolumeGroupName |-> selectedLVG.name, type |-> type,
     thinPoolName |-> IF type = LVMTypeThin THEN PoolOf(map, selectedLVG.name)
                      ELSE NoPool,
     contiguous |-> IF type = LVMTypeThick /\ isContiguous THEN {TRUE} ELSE {}]

(* What CreateVolume decides before it creates the LLV.  The chain is the  *)
(* controller's, which is not among these sources: the preferred node if   *)
(* the request names one, else GetNodeWithMaxFreeSpace's node.             *)
ProvisionPlacement(listErr) ==
    LET sc == GetStorageClassLVGsAndParameters(lvgs, scMap, listErr)
        mf == IF preferred # NoNode
              THEN [node |-> preferred, free |-> 0, err |-> "none"]
              ELSE GetNodeWithMaxFreeSpace(sc.lvgs, scMap, lvmType)
        sel == SelectLVG(sc.lvgs, mf.node)
        none == [Pending EXCEPT !.node = NoNode]
    IN  IF sc.err # "none" THEN [none EXCEPT !.err = sc.err]
        ELSE IF mf.err # "none" THEN [none EXCEPT !.err = mf.err]
        ELSE [err |-> sel.err, node |-> mf.node, free |-> mf.free,
              lvg |-> sel.lvg,
              spec |-> IF sel.err # "none" THEN NoSpec
                       ELSE GetLLVSpec(sel.lvg, scMap, lvmType,
                                       IsContiguous(contiguous, lvmType))]

-----------------------------------------------------------------------------

Init ==
    /\ lvmType \in LVMTypes
    /\ lvgs \in LVGLists(lvmType)
    /\ scMap \in StorageClassMaps(lvmType)
    /\ preferred \in PreferredNodes
    /\ contiguous \in ContiguousParams
    /\ outcome = Pending

(* The helpers run; listing the groups may fail (GetLVGList's error).      *)
Provision ==
    /\ outcome = Pending
    /\ \E listErr \in BOOLEAN : outcome' = ProvisionPlacement(listErr)
    /\ UNCHANGED <<lvgs, scMap, lvmType, preferred, contiguous>>

Next == Provision

Spec == Init /\ [][Next]_vars

-----------------------------------------------------------------------------
(* The spec's definitions (§4.1-4.3), the references the code is checked   *)
(* against.                                                                *)

(* ListEligibleGroups: the listed groups the selector names, in order.     *)
ListEligibleGroups(all, selector) ==
    SelectSeq(all, LAMBDA g : g.name \in DOMAIN selector)

(* FreeSpace: the group's free space for thick, the named pool's available *)
(* space for thin, PoolNotFound if no pool has that name.                  *)
FreeSpace(g, type, poolName) ==
    IF type = LVMTypeThick THEN [err |-> "none", free |-> g.vgFree]
    ELSE IF \E j \in DOMAIN g.thinPools : g.thinPools[j].name = poolName
         THEN [err |-> "none",
               free |-> (CHOOSE tp \in Range(g.thinPools) :
                           tp.name = poolName).availableSpace]
         ELSE [err |-> "PoolNotFound", free |-> 0]

(* NodeWithMaxFreeSpace: the node of the first group whose free space is   *)
(* the largest; PoolNotFound if a group's pool is missing.                 *)
NodeWithMaxFreeSpace(groups, selector, type) ==
    LET fs == [i \in DOMAIN groups |->
                 FreeSpace(groups[i], type, PoolOf(selector, groups[i].name))]
        best == CHOOSE i \in DOMAIN groups :
                  /\ \A j \in DOMAIN groups : fs[j].free <= fs[i].free
                  /\ \A j \in 1 .. i - 1 : fs[j].free < fs[i].free
    IN  IF \E i \in DOMAIN groups : fs[i].err # "none"
        THEN [err |-> "PoolNotFound", node |-> NoNode, free |-> 0]
        ELSE IF groups = <<>> THEN [err |-> "none", node |-> NoNode, free |-> 0]
        ELSE [err |-> "none", node |-> NodeName(groups[best]),
              free |-> fs[best].free]

(* BuildSpec: groupName, the selector's pool for thin, and contiguous only *)
(* when true for thick.                                                    *)
BuildSpec(group, selector, type, contiguousParam) ==
    [lvmVolumeGroupName |-> group.name, type |-> type,
     thinPoolName |-> IF type = LVMTypeThin THEN selector[group.name]
                      ELSE NoPool,
     contiguous |-> IF type = LVMTypeThick /\ contiguousParam = "true"
                    THEN {TRUE} ELSE {}]

-----------------------------------------------------------------------------
(* Properties.  "Eligible" is the list the chain works on.                 *)

Eligible == ListEligibleGroups(lvgs, scMap)

(* The groups the store may list.                                          *)
LVGRecords ==
    [name : 1 .. MaxLVGs, nodes : {<<>>} \cup {<<n>> : n \in Nodes},
     vgFree : 0 .. MaxSpace,
     thinPools : {<<>>} \cup {<<[name |-> ThinPoolName, availableSpace |-> a]>> :
                                a \in 0 .. MaxSpace}]

(* Type invariant; a chain that succeeded names a listed group on a node.  *)
TypeOK ==
    /\ lvmType \in LVMTypes
    /\ lvgs \in Seq(LVGRecords) /\ Len(lvgs) <= MaxLVGs
    /\ scMap \in [DOMAIN scMap -> {ThinPoolName, NoNode}]
    /\ DOMAIN scMap \subseteq 1 .. MaxLVGs
    /\ preferred \in PreferredNodes /\ contiguous \in ContiguousParams
    /\ outcome.err \in Errors \cup {"pending"}
    /\ outcome.free \in 0 .. MaxSpace
    /\ outcome.err = "none" =>
          /\ outcome.node \in Nodes
          /\ outcome.lvg.name \in 1 .. Len(lvgs)

(* GetNodeWithMaxFreeSpace computes the spec's NodeWithMaxFreeSpace on the *)
(* eligible groups, with its tie-break (the first of the roomiest groups   *)
(* wins): same node and free space, PoolNotFound exactly when the code     *)
(* fails on a missing thin pool; when every group is full the code picks   *)
(* no node and SelectLVG then fails.                                       *)
MaxFreeFollowsSpec ==
    outcome.err \notin {"pending", "ListFailed", "Panic"} /\ preferred = NoNode =>
        LET ref == NodeWithMaxFreeSpace(Eligible, scMap, lvmType) IN
        /\ ref.err = "PoolNotFound" <=> outcome.err = "ThinPoolNotFound"
        /\ ref.err = "none" /\ ref.free > 0 =>
              outcome.node = ref.node /\ outcome.free = ref.free
        /\ ref.err = "none" /\ ref.free = 0 => outcome.err = "NoLVGOnNode"

(* SelectLVG is the spec's SelectGroupForNode: the first eligible group on *)
(* the chosen node (preferred or roomiest), NoEligibleTarget if none.      *)
SelectionFollowsSpec ==
    /\ outcome.err = "none" =>
          \E i \in DOMAIN Eligible :
             /\ Eligible[i] = outcome.lvg
             /\ NodeName(Eligible[i]) = outcome.node
             /\ \A j \in 1 .. i - 1 : NodeName(Eligible[j]) # outcome.node
    /\ outcome.err = "NoLVGOnNode" =>
          \A i \in DOMAIN Eligible : NodeName(Eligible[i]) # outcome.node

(* The LLV spec GetLLVSpec builds is the spec's BuildSpec for the group    *)
(* selected: its pool for thin, Contiguous only when true for thick.       *)
LLVSpecFollowsBuilder ==
    outcome.err = "none" =>
        outcome.spec = BuildSpec(outcome.lvg, scMap, lvmType, contiguous)

(* Without a preferred node, the group the volume goes to has the free     *)
(* space GetNodeWithMaxFreeSpace measured (spec §4.1-4.2 chain).           *)
SelectedGroupIsRoomiest ==
    outcome.err = "none" /\ preferred = NoNode =>
        FreeSpace(outcome.lvg, lvmType, PoolOf(scMap, outcome.lvg.name)).free
            = outcome.free

(* Placement fails only with the errors of spec §7, never a panic: here    *)
(* the Nodes[0] read in GetStorageClassLVGsAndParameters' log line.        *)
ProvisionNeverPanics == outcome.err # "Panic"

====
