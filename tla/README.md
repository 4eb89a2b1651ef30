# Verification of the LVM volume provisioning coordinator

TLA+ models of the CSI controller helpers of this repository. They are
model-checked with TLC and proved with TLAPS. The code is Go, under

- `src/images/sds-local-volume-csi/src/pkg/utils/func.go` (the *local-volume
  utils*): LLV creation, convergence polling, deletion with finalizer release,
  expansion, placement helpers;
- `src/images/sds-lvm-csi/pkg/utils/func.go` (the *lvm-csi utils*): an older
  driver's retrying store wrappers and placement helpers;
- `src/images/sds-lvm-csi/driver/node.go` (the *lvm-csi node service*) and
  `src/unnamed/part_001` (the older *local-lvm-csi node service*): the node
  plugin's publish and unpublish calls that kubelet makes;
- `src/unnamed/part_000`: the werf image build.

## 1. The system

An LVMLogicalVolume (LLV) is a Kubernetes record that asks the external agent
(sds-node-configurator) to create an LV on a node. The CSI controller, whose
gRPC handlers are not under `src/`, drives it through the utils:

- **Provision**: CreateVolume picks a node and group
  (`GetStorageClassLVGsAndParameters`, `GetNodeWithMaxFreeSpace`, `SelectLVG`).
  It then builds a spec (`GetLLVSpec`, `IsContiguous`), calls
  `CreateLVMLogicalVolume`, and blocks in `WaitForStatusUpdate` until the agent
  reports `Created` with the right size, reports `Failed`, or the record is
  being deleted.
- **Deprovision**: DeleteVolume runs `DeleteLVMLogicalVolume`, which is Get,
  then `removeLLVFinalizerIfExist`, then Delete. The release is an
  optimistic-concurrency loop: a full-object Update carrying the fetched
  resourceVersion, and on Conflict a refetch and retry, up to
  `KubernetesAPIRequestLimit` = 3 attempts.
- **Expand**: ControllerExpandVolume runs Get and then
  `ExpandLVMLogicalVolume`, a single Update of the fetched copy with a new
  `spec.size`.

### Shared state and actors

| State | Written by |
|---|---|
| the LLV record: finalizers, deletion mark, spec.size, status phase and actualSize, resourceVersion | CSI handlers (Create, Update, Delete), the agent (finalizer, status), other controllers, users |
| the LV on the node | the agent |
| a handler's fetched copy of the record | that handler (Get, refetch) |

Handlers run concurrently: gRPC serves every request on its own goroutine, and
several CO sidecars retry. Nothing in the controller serialises calls for one
volume name. The only concurrency control is the store's resourceVersion check
on Update (spec §5).

### The hard behaviours

- **Finalizer release racing other writers.** The agent adds its finalizer and
  writes status, other controllers touch the record, and users delete it
  directly. A full-object Update from a stale copy would drop the agent's
  finalizer. The store would then remove the record while the LV still exists
  on the node.
- **Retry budget and conflicts.** The loop's bounds are
  `attempt < KubernetesAPIRequestLimit` and
  `attempt < KubernetesAPIRequestLimit-1`.
- **Two-step deletion.** Release and Delete are two calls; a cancel or an error
  between them leaves a record with no CSI finalizer and no deletion mark.
- **Polling.** The poll has no attempt bound and checks the deletion mark only
  once the record has a status.
- **Stale-copy Expand**, and name reuse across incarnations (Delete by name).
- **Placement without reservation** (an accepted race, spec §5); a zero
  maximum; `Nodes[0]` on a group whose status lists no node.
- **lvm-csi wrappers.** Create is retried after a response that was lost
  although the store accepted it. In Delete, `err :=` shadows the outer error.
  Update is retried without a refetch.
- **lvm-csi placement.** `GetNodeMaxFreeVGSize` measures every listed group,
  and `GetLVMVolumeGroupParams` then looks for a storage class group on the
  node it chose.
- **Node service.** kubelet treats the answer of NodePublishVolume and
  NodeUnpublishVolume as the truth about the mount: an error makes it retry,
  success makes it start the pod or detach the volume. A swallowed mounter
  error, or a mount option lost on the way, breaks that agreement.

## 2. Modules

| Module | Models | Status |
|---|---|---|
| `LLVLifecycle` | local-volume utils: `CreateLVMLogicalVolume`, `WaitForStatusUpdate`, `GetLVMLogicalVolume`, `DeleteLVMLogicalVolume`, `removeLLVFinalizerIfExist`, `ExpandLVMLogicalVolume`, `AreSizesEqualWithinDelta`, with the store, the agent and other writers as environment | done |
| `MC_LLVLifecycle` | model values for the handlers, symmetry | done |
| `LLVLifecycleProofs` | TLAPS: type correctness and `LVNeverOrphaned` | done |
| `LLVReleaseProofs` | TLAPS: `RecordKeptUntilReleased` and `ReleaseBudget` | done |
| `Placement` | local-volume utils: `GetStorageClassLVGsAndParameters`, `GetLVGList`, `GetNodeWithMaxFreeSpace`, `GetLVMThinPoolFreeSpace`, `SelectLVG`, `IsContiguous`, `GetLLVSpec`, chained as CreateVolume chains them, next to the spec's definitions of §4.1-4.3 | done |
| `MC_Placement` | two nodes as model values, symmetry | done |
| `PlacementProofs` | TLAPS: `SelectLVG` and `GetLLVSpec` against the spec, for every input | done |
| `LvmCsiClient` | lvm-csi utils: `CreateLVMLogicalVolume`, `DeleteLVMLogicalVolume`, `GetLVMLogicalVolume`, `UpdateLVMLogicalVolume`, `WaitForStatusUpdate`, `AreSizesEqualWithinDelta`, against a store whose calls may lose the request or the response | done |
| `MC_LvmCsiClient` | model values for the handlers, symmetry | done |
| `LvmCsiClientProofs` | TLAPS: type correctness and `CreateGetUpdateRetryPolicy` | done |
| `LvmCsiRecord` | abstract specification of the lvm-csi record: the name is taken only when free, as a new incarnation with no status; only the CSI side changes `spec.size`, to a requested size, and never the status; only the agent changes the status, never the size; Failed only before any other report | done |
| `LvmCsiRefinement` | `LvmCsiClient` with `Record == INSTANCE LvmCsiRecord WITH ...` mapping the store record's existence, uid, `spec.size` and phase; `RecordSpec` | done |
| `LvmCsiRefinementProofs` | TLAPS: `Spec => RecordSpec` for `LvmCsiClient` | done |
| `LLVRecord` | abstract specification of one record (spec §3, §4.6): the name is taken only when free, the phase moves None → Pending → Created/Failed, each finalizer is removed only by its owner, and the record goes only when marked and without finalizers | done |
| `LLVRefinement` | `LLVLifecycle` with `Record == INSTANCE LLVRecord WITH ...` mapping the store record's existence, deletion mark, finalizers and phase; `RecordSpec` | done |
| `LLVRefinementProofs` | TLAPS: `Spec => RecordSpec` | done |
| `LvmPlacement` | lvm-csi utils: `GetNodeMaxFreeVGSize`, `GetLVMVolumeGroupParams`, `GetLVMVolumeGroup`, `GetLVMVolumeGroupFreeSpace`, and the local-volume `GetLVMVolumeGroupParams` and `GetLVMVolumeGroup`, each with its retried List or Get; CreateVolume's chain of the first two (spec-modelled) | done |
| `MC_LvmPlacement` | two nodes as model values, symmetry | done |
| `NodeService` | `NodePublishVolume` and `NodeUnpublishVolume` of both node services, chosen by `NodeDriver`, driven by kubelet, with a mounter that may fail | done |
| `MC_NodeService` | two targets as model values, symmetry | done |
| `NodeServiceProofs` | TLAPS: `PublishedMeansMounted` for both drivers; `UnpublishedMeansUnmounted` and `ReadonlyHonoured` for the older one | done |

Still to come: a composed provisioning module (placement, then create and
wait, for two concurrent provisions) that would check the capacity race of
spec §5 as a documented consequence.

### How LvmPlacement corresponds to the code

The state is the store's group list `lvgs` (up to `MaxLVGs` groups, each with
a node list of length 0 or 1, a type, and quantity texts that may not parse),
the storage class map `lvmVG`, the volume type, and `out`, the result of one
helper call. Each helper is an action taking the number of failed store calls
(`failures`) as input: `RetriedCallSucceeds` is the code's loop of
`KubernetesApiRequestLimit` attempts. The loops over the list are `FoldLeft`s
of one step operator each (`MaxVGStep`, `ParamsStep`), keeping the early
returns (parse error, `Nodes[0]` panic, first match). `CreateVolume` chains
`GetNodeMaxFreeVGSize` and `GetLVMVolumeGroupParams` as the spec's CreateVolume
does; its handler is not under `src/`. Next to them are reference definitions
of what the helpers should compute (`FirstRoomiest`, `SelectGroupForNode`) and
of the spec's `NodeWithMaxFreeSpace` over the eligible groups.

### How NodeService corresponds to the code

`mounts[t]` is what the kernel has at target `t` (a count of stacked mounts
and whether the top one is read-only); `published[t]` is kubelet's view;
`request[t]` the readonly flag and capability of the last publish; `result[t]`
the last answer; `lvs` the targets whose LV the older driver created. kubelet's
`NodePublishVolume(t)` and `NodeUnpublishVolume(t)` call the handler of the
configured driver with every readonly flag, capability, volume-context parse
and mounter outcome, and update `published` from the answer, as kubelet's
operation executor does (one operation per volume at a time, retried on
error). `LvmMountOptions` is node.go 44-59: "ro", then replaced by "bind" for
block; `LegacyNodePublishVolume` keeps part_001's three exits (Internal on a
bad context, the nil dereference on block, CreateLV then Mount). The mounter
is not among the sources and is the environment.

### How LLVLifecycle corresponds to the code

- `llv` is the store's record for one volume name. `exists = FALSE` means the
  name is free. `uid` counts incarnations and `rv` is the resourceVersion;
  `fin`, `deleting`, `phase` ("None" is `Status == nil`), `size` and `actual`
  are the fields some guard reads.
- `StoreWrite`/`Put` is the store's effect of a write. The revision advances,
  a record marked for deletion whose last finalizer has gone is removed, and
  a full-object Update writes finalizers and spec but not status (a
  subresource). `Fresh` is the resourceVersion precondition.
- Each handler `c` has a program counter `pc[c]`, one value per store call of
  the code. Each action is one store call together with the decision the
  code takes on its result. All error paths and early returns are
  disjuncts: transient error, NotFound, AlreadyExists, Conflict, context done.
- `RemoveLLVFinalizerIfExist` is one iteration of the loop at lines 336-375:
  the absent-finalizer early return, the Update, the non-Conflict error
  return, the last-attempt Conflict that falls through, and the
  refetch/cancel/refetch-error paths. `attempt` is the loop variable, and
  `conflicts` is a history variable counting Conflicts.
- The agent (`AgentStart`, `AgentCreate`, `AgentFail`, `AgentResize`,
  `AgentDelete`) is the environment, from sds-node-configurator's documented
  behaviour: it adds its finalizer before it creates an LV, and removes the LV
  and then its finalizer once the record is marked for deletion.
  `UserDelete`, `ForeignUpdate` and `Cancel` are the other actors.

### How Placement corresponds to the code

- `Init` chooses the inputs:
  - the store's list of groups (`lvgs`), each group named by its position;
  - the storage class's parsed `lvmVolumeGroups` map (`scMap`: group name →
    thin pool name, "" for thick);
  - the type, the request's preferred node and its contiguous parameter.
- Of a group's status, only the fields placement reads are kept: `Nodes`
  (empty until the agent reports the node), `VGFree`, and `ThinPools` (one
  pool or none). Fields the type does not read are fixed.
- `Provision` runs the chain once and records its outcome, or GetLVGList's
  error. The outcome is the error, the node and free space chosen, the
  group, and the LLV spec.
- Each helper is one operator:
  - the loop of `GetNodeWithMaxFreeSpace` is `FoldLeft` of `MaxFreeStep`,
    one iteration per group;
  - "first match" loops are `SelectInSeq`;
  - a Go map lookup of a missing key is "" (`PoolOf`);
  - the pointer `Thick.Contiguous` is a set of at most one Boolean;
  - "Panic" is the index out of range of `Status.Nodes[0]`.
- The chain itself (preferred node, else the roomiest node, then
  `SelectLVG`, then `GetLLVSpec`) is the controller's. Its source is not
  under `src/`, so it is taken from the spec (§4.2).
- `ListEligibleGroups`, `FreeSpace`, `NodeWithMaxFreeSpace` and `BuildSpec`
  are the spec's definitions, written with quantifiers and CHOOSE rather than
  loops. They are the references the properties compare with.

### How LvmCsiClient corresponds to the code

- `llv` is the store's record: name taken, incarnation, resourceVersion,
  spec.size and status. This driver adds no finalizer, so a Delete the store
  applies frees the name.
- Each handler runs one request of the controller: Provision is Create then
  Wait; Deprovision is Delete; Expand is Get then Update. `pc` says which
  wrapper it is in.
- `attempt` and `err` are the loop variable and the function's `err`.
  `lastErr` is the error of the last store call.
- One action is one store call plus the wrapper's decision on it:
  - **Transport.** `\E t \in Transport` says whether the call was
    delivered, lost before the store applied it, or applied with its
    response lost. The last two are seen as a transient error.
  - **Delete's shadow.** `DeleteErrAfterCall` returns the function's `err`
    unchanged: line 89 declares a new `err` inside the loop.
    `CreateErrAfterCall` returns the call's error, as line 58 assigns it.
- `ret` records what each wrapper of the running request returned. `effects`
  counts the calls of the running wrapper that the store applied. Both are
  history variables for the properties.
- `AgentCreate`, `AgentFail` and `ForeignUpdate` are the environment, bounded
  by `MaxEnvWrites`.

## 3. Runs

| Run | cfg | Checks | Result |
|---|---|---|---|
| `lifecycle_safety` | `LLVSafety.cfg` | `TypeOK`, `LVNeverOrphaned`, `RecordKeptUntilReleased`, `ReleaseBudget`, `RecordSpec` (refinement) | pass, 5,485,584 distinct states, about 50 s |
| `lifecycle_liveness` | `LLVLiveness.cfg` | `DeletionCompletes` under `FairSpec` | pass, 869,924 distinct states, about 20 s |
| `deletion_during_wait` | `LLVDeletionWait.cfg` | `DeletionEndsWait` (action property) | violation (finding) |
| `placement_safety` | `Placement.cfg` | `TypeOK`, `MaxFreeFollowsSpec`, `SelectionFollowsSpec`, `LLVSpecFollowsBuilder` | pass, 296,640 distinct states, about 3 s |
| `lvmcsi_safety` | `LvmCsiSafety.cfg` | `TypeOK`, `CreateGetUpdateRetryPolicy`, `RecordSpec` (refinement to `LvmCsiRecord`) | pass, 743,640 distinct states, about 10 s |
| `lvmcsi_delete_policy` | `LvmCsiDelete.cfg` | `DeleteRetryPolicy` | violation (finding) |
| `lvmcsi_conflict_retry` | `LvmCsiConflict.cfg` | `ConflictNotRetried` | violation (finding) |
| `lvm_placement` | `LvmPlacement.cfg` | `TypeOK`, `MaxFreeVGFollowsReference`, `ParamsFollowSelect` | pass, 3,167,416 distinct states, about 35 s |
| `lvm_placement_chain` | `LvmPlacementChain.cfg` | `ChainFollowsSpec` | violation (finding) |
| `node_legacy` | `NodeService.cfg` | `PublishedMeansMounted`, `UnpublishedMeansUnmounted`, `ReadonlyHonoured` | pass, 1,419 distinct states, about 1 s |
| `node_lvm_unpublish` | `NodeLvmUnpublish.cfg` | `UnpublishedMeansUnmounted` | violation (finding) |
| `node_lvm_readonly` | `NodeLvmReadonly.cfg` | `ReadonlyHonoured` | violation (finding) |

**Bounds.**
- Two handlers, enough for every pairwise race between handlers. The agent,
  a user and a foreign writer add three more actors.
- Budget 3, the code's constant.
- Three calls in all: a create, an expansion and a delete can overlap, or two
  deletes can overlap one create.
- Sizes {1, 2} with Delta 1, so a Created status can hold the wrong size.
- One poll continuation per wait, and one foreign write.
- With these bounds three Conflicts happen inside a single release (agent
  start, agent create, user delete), so the exhaustion branch is reached.

The runs end when the call budget is spent, so deadlock is not checked.
Symmetry over the handlers is sound: no definition names a handler.

**Liveness and fairness.** `DeletionCompletes` says that a record marked for
deletion whose CSI finalizer is released eventually leaves the store. The
only fairness is `WF_vars(AgentDelete)`: the agent's reconciler keeps
processing records marked for deletion (removes the LV, then its finalizer),
which is its whole job; no handler, writer or user is assumed to make
progress. The property fails if a handler's stale Update can put the CSI
finalizer back (the mutant `ExpandUpdateUnconditional`). The liveness run uses
one size, no foreign writes and no symmetry, which TLC cannot use with
liveness.

**Refinement.** `RecordSpec` is `LLVRecord`'s specification under the
mapping of `LLVRefinement`, checked as a property in `lifecycle_safety`:
handler creates map to `Create`, the CSI release to `Release`, deletes to
`MarkDeleted`, the agent's steps to `TakeUp`, `Settle` and `AgentRelease`,
and expansions, resizes and foreign writes to stutters.
In `lvmcsi_safety`, `RecordSpec` is `LvmCsiRecord`'s specification under
the mapping of `LvmCsiRefinement`: an applied Create maps to `Create`, an
applied Delete to `Delete`, an applied Update to `Resize`, the agent's
writes to `Report`, and everything else (lost requests, fetches, waits,
foreign writes) to stutters.

**LvmPlacement bounds.** Up to three groups on two nodes, sizes 0..1 or
unparsable, both types, every storage class map, and transient store failures
with an attempt budget of 2 (the code has 3): one failure then success, and
exhaustion. Three groups hold a class group behind a non-class group at least as roomy,
a tie and a group without a node. Each behaviour is one helper call, so
deadlock is not checked; nodes are symmetric.

**NodeService bounds.** Two targets and six kubelet calls: enough for publish,
a failed unpublish, its retry and a republish on one target while the other
interleaves. Behaviours end when the calls are spent, so deadlock is not
checked; targets are symmetric.

**Placement bounds.**
- Up to three groups on two nodes, free space 0..2, every storage class map
  over the three names, both types, every preferred node and every
  contiguous parameter: 194,760 inputs.
- Three groups are enough to hold a tie after a smaller group, two groups on
  one node, and a group with no node among eligible ones.
- Deadlock is not checked: the chain runs once.
- Symmetry over the nodes is sound: the preferred nodes include both.

**LvmCsiClient bounds.**
- Two handlers and three requests, so a Create, an Expand and a Delete can
  overlap.
- The code's budget of three attempts.
- Sizes {1, 2} with Delta 1, so the agent can report a size that is off.
- One poll per wait, and two writes of the agent or other controllers.

**Findings.** Each violation run shows one:
1. `WaitForStatusUpdate` (local-volume utils, line 115) looks at the deletion
   mark only inside `if llv.Status != nil`. A record deleted before the agent
   wrote a status is polled on, where the spec (§4.5) says the wait must end
   with ConflictingDeletion (`deletion_during_wait`).
2. The lvm-csi `DeleteLVMLogicalVolume` (line 89) shadows `err`. Three failed
   Deletes return nil, so an absent name is reported deleted. The spec (§8)
   says NotFound (`lvmcsi_delete_policy`). Code bug.
3. The lvm-csi `UpdateLVMLogicalVolume` (line 286) retries a Conflict with
   the same object. After a lost response it conflicts with its own applied
   write and reports Conflict (`lvmcsi_conflict_retry`).
4. The lvm-csi `GetNodeMaxFreeVGSize` (line 185) takes the roomiest of all
   listed groups, not of the storage class's, and by VG free space even for
   thin. `GetLVMVolumeGroupParams` then finds no class group on that node,
   and CreateVolume fails with "there are no matches" although a class group
   has room; the spec (§4.1) ranges over the eligible groups
   (`lvm_placement_chain`).
5. The lvm-csi `NodeUnpublishVolume` (node.go line 77) logs an Unmount error
   and returns success, so kubelet detaches a volume that is still mounted.
   The older driver returns the error (part_001 line 108)
   (`node_lvm_unpublish`). Code bug.
6. The lvm-csi `NodePublishVolume` (node.go line 52) replaces the options by
   `bind` for a block volume, dropping the `ro` of a read-only request: a
   read-only block volume is mounted read-write (`node_lvm_readonly`). Code
   bug.

**Further expectations stated in the modules, not among the runs.** Each is
a property that TLC violates under the bounds of its module's passing cfg;
they are listed with the hazards they belong to:
- `ExhaustedReportsConflict` (`LLVLifecycle`): after
  `KubernetesAPIRequestLimit` Conflicts `removeLLVFinalizerIfExist` (line 377)
  wraps `nil`, not the last Conflict the spec (§4.6, §8) asks for.
- `SelectedGroupIsRoomiest` (`Placement`): `SelectLVG` (line 328) takes the
  first eligible group of the chosen node, not the one whose space chose it;
  the spec composes the steps the same way.
- `ProvisionNeverPanics` (`Placement`): `GetStorageClassLVGsAndParameters`
  (line 284) indexes `Status.Nodes[0]` of a group the agent has not reported.
- `CreateErrorMeansNoEffect` (`LvmCsiClient`): the lvm-csi Create retried
  after a lost response returns AlreadyExists for its own record.

Each property of the passing run has a mutant in PROJECT.json: a plausible
bug in a mapped definition that TLC then catches. The mutants of
`LLVLifecycle` are a dropped resourceVersion check, a record created without
the finalizer, and the loop bound off by one in either direction. The mutants
of `Placement` are a tie going to the later group, `SelectLVG` taking the
last match or dropping its error, and an explicit `Contiguous: false`. The
mutants of `LvmCsiClient` are a loop running one attempt more, and Create
with Delete's shadowed `err`; the lvm-csi `RecordSpec` is broken by an
Update that writes the status back as empty (`UpdatedResetsStatus`). The
local-volume `RecordSpec` is broken by an Update without the
version check, `DeletionCompletes` by an Expand Update without it. The
`LvmPlacement` mutants are a tie going to the later group, the class filter
dropped, and the "no matches" error dropped; the `NodeService` mutants are
an unpublish or a publish that swallows the mounter's error and read-only
dropped from the legacy mount options.

## 4. Proofs

`LLVLifecycleProofs` proves, for all values of the constants that satisfy
`LimitAssumption`, `SizesAssumption` and `BoundsAssumption`:

- `TypeCorrect`: `Spec => []TypeOK`. The invariant is split into the
  Boolean-valued variables (for Zenon) and the others (for SMT). There is
  one step per action.
- `NeverOrphaned`: `Spec => []LVNeverOrphaned`. `LVNeverOrphaned` alone is
  not inductive. It needs these strengthenings:
  - `CopiesCoherent`: a handler's copy is never newer than the store, and a
    copy with the store's resourceVersion has the store's finalizers. So an
    Update that passes the version check writes back exactly the finalizers
    the store had, less the CSI one.
  - `AgentHoldsFinalizer`: a live record with a status carries the agent's
    finalizer, so the Update keeps it.

  The inductive invariant `IInv` is `TypeOK` and these three. TLC checked it
  over the whole `lifecycle_safety` state space before it was proved. The
  lemma `WriteKeepsIInv` isolates the argument for a single store write. Each
  action then only shows that its write keeps the agent's finalizer where the
  lemma requires it.

`LvmCsiClientProofs` proves, from `ClientAssumption` (the limit is a
positive natural, the sizes and bounds are naturals):

- `TypeCorrect`: `Spec => []TypeOK`. This includes that `attempt` never
  reaches `KubernetesApiRequestLimit`, because `Retry` is guarded by
  `BudgetLeft`. `TypeOK` is split into one conjunct per variable
  (`TypeOKParts`). Each action then proves its conjuncts in steps, with one
  case per disjunct of the wrapper.
- `RetryPolicyHolds`: `Spec => []CreateGetUpdateRetryPolicy`, for any number
  of concurrent callers and any behaviour of the transport. The policy alone
  is not inductive. A Retry or an Exhausted step relies on the earlier
  returns of the running loop being empty, and a canceled wait relies on the
  Create before it having succeeded. `IInv` therefore adds:
  - `NoReturnInLoop`: a handler inside a wrapper loop has no return
    recorded.
  - `WaitAfterSuccess`: a handler in the wait has `lastErr = nil`.

  `IInv` is stated per caller (`Loc`). The lemma `Frame` shows that a step of
  one caller keeps `Loc` of every other caller. Each action then only proves
  `Loc` of its own caller. TLC checked `IInv` on `lvmcsi_safety` before the
  proof.

`LLVRefinementProofs` proves `Refinement`: `Spec => RecordSpec`, from the
same assumptions. Two invariants carry it:

- `IInv` of `NeverOrphaned`, through `CopiesCoherent`: an Update that passes
  the version check writes a copy with the store's finalizers, less the CSI
  one for a release, so every write is a `Release` or keeps the mapped view;
- `StoreConsistent`: the store never holds a record marked for deletion with
  no finalizer (every store write removes such a record), so `exists'` is
  `Kept(deleting', fin')` as `LLVRecord` requires.

The step lemma has one case per handler action and one per environment
action, each naming the abstract step it maps to (`CallerRefines`,
`EnvironmentRefines`); `InitRecord` maps the initial state.

`LvmCsiRefinementProofs` extends `LvmCsiRefinement` and
`LvmCsiClientProofs` and proves `Refinement`: `Spec => RecordSpec` for the
lvm-csi client, from `ClientAssumption`. The abstract `Create` and `Resize`
take a size from `Sizes`, which the store record does not show by itself.
The inductive invariant `SizeInv` is `TypeOK`, a record in the store has a
requested size, and per handler `SizesRequested`:
- a provisioning or an expansion wants a requested size;
- a running Create belongs to a provisioning;
- a running Update sends a requested size, the one the expansion's Get put
  into its copy.

`SizesFrame` shows that a step of one handler keeps the others' sizes.
`StepRefines` has one case per action: an applied Create finds the name free
(its store result was nil), and an applied Delete or Update finds it taken.
`CreateIsCreate`, `DeleteIsDelete` and `UpdateIsResize` name the abstract
step each write is. TLC checked `SizeInv` over the whole `lvmcsi_safety`
state space before the proof.

`LLVReleaseProofs` extends `LLVLifecycleProofs` and proves, from the same
assumptions:

- `KeptUntilReleased`: `Spec => []RecordKeptUntilReleased`. The inductive
  invariant is `KeptInv`, which is `IInv` together with `CSIHeld`. `CSIHeld`
  says that while `csiReleased` is false, the current incarnation is in the
  store and carries the CSI finalizer. `IInv` is needed for its
  `CopiesCoherent` conjunct. Without it, a full-object Update (the agent's
  status write, an expand) could write back a stale copy whose finalizers
  lack the CSI one. The lemma `HeldWrite` covers a single store write.
- `BudgetKept`: `Spec => []ReleaseBudget`. The inductive invariant
  `BudgetInv` is `TypeOK` and, per handler, `BudgetOK(c)`:
  - a delete starts with no Conflicts;
  - inside the release loop the Conflict count equals `attempt`;
  - a running call has no result yet;
  - exhaustion is reported only at the limit.

  `Frame` shows that a step of one handler leaves the loop state (`Own`) of
  every other handler alone. `OwnStep` proves `BudgetOK` for the handler
  that moves. TLC checked both `KeptInv` and `BudgetInv` over the whole
  `lifecycle_safety` state space before the proofs.

`NodeServiceProofs` proves, from `NodeServiceAssumption`, for every set of
targets and every call bound:

- `PublishedMounted`: `Spec => []PublishedMeansMounted`, for both drivers.
  The inductive invariant `MountedInv` adds `TypeOK`, so that mount counts
  are naturals. Each kubelet call has a step lemma: `PublishStep` and
  `UnpublishStep` say what the call does to its target and that it leaves
  the others alone. These rest on `MountEffect` and `UnmountEffect` for the
  mounter.
- `LegacyUnpublishedUnmounted` and `LegacyReadonlyHonoured`: under the
  hypothesis `NodeDriver = "local-lvm-csi"`, `Spec => []UnpublishedMeansUnmounted`
  and `Spec => []ReadonlyHonoured`. Both follow from the lemma
  `LegacyInvariant`, whose inductive invariant `LegacyInv` states
  `MountsMatchPublished` for every target: exactly one mount when published,
  none otherwise, and a published mount's read-only flag is the request's.
  The hypothesis on the driver is needed: with `sds-lvm-csi` both
  properties fail (runs `node_lvm_unpublish` and `node_lvm_readonly`). TLC
  checked `MountedInv` under both drivers, and `LegacyInv` under the older
  one, before the proofs.

`PlacementProofs` proves two facts about the placement helpers of
`Placement` for every input, with no assumption:

- `SelectLVGFirst`: for every list of groups and every node, `SelectLVG`
  answers either NoLVGOnNode, when no group of the list is on the node, or
  the first group on the node. This is the spec's `SelectGroupForNode`.
  The lemma `MinLeast` establishes that `Min` of a nonempty set of naturals
  is its least element. It rests on `WFMin` and `NatLessThanWellFounded`
  from the library.
- `LLVSpecMatchesBuilder`: for a group the storage class names,
  `GetLLVSpec` fed by `IsContiguous` equals the spec's `BuildSpec`.

Together these give the `SelectLVG` and `GetLLVSpec` halves of
`SelectionFollowsSpec` and `LLVSpecFollowsBuilder`. The other half of each
property is that the chain hands these helpers the spec's eligible list and
the roomiest node. That half rests on `SelectSeq` and `FoldLeft`, which are
recursive over the list, so it stays with TLC.

The following stay with TLC, because TLAPS cannot prove them:

- **Liveness**, and anything stated with ENABLED (`DeletionCompletes`,
  `DeletionEndsWait`).
- **What recursive definitions compute for every input.** Such a proof needs
  induction over the data, through a theorem that takes an operator as a
  parameter, and the installed provers cannot instantiate one. This covers
  every property of `Placement` and `LvmPlacement`:
  - `MaxFreeFollowsSpec`, `MaxFreeVGFollowsReference`, `ParamsFollowSelect`
    and `ChainFollowsSpec`, which compare a `FoldLeft` loop with its
    reference;
  - `SelectionFollowsSpec` and `LLVSpecFollowsBuilder` as wholes, which need
    the `SelectSeq` list;
  - the two modules' `TypeOK`, whose bounds on the outcome come out of the
    fold.
- **Every module that reaches a RECURSIVE operator.**

## 5. Not modelled

- **The build file** (`part_000`): no run-time behaviour.
- **The mounter.** Its implementation is not under `src/`; `NodeService`
  lets each Mount and Unmount succeed or fail. NodeStage, NodeUnstage,
  NodeGetVolumeStats, NodeExpandVolume, NodeGetCapabilities and NodeGetInfo
  return constants and change nothing.
- **The controller's gRPC handlers.** They are not under `src/`, so their
  call sequences are taken from the spec (`Provision`, `Deprovision` and
  `Expand` are spec-modelled).
- **Float rounding in `AreSizesEqualWithinDelta`.** The model compares exact
  integers. The conversion to float64 is exact below 2^53 bytes (8 PiB),
  far above any LV size, so this is not a hazard of the code.
- **Placement data.** The thick free space is the agent's `VGFree`; the
  spec's `totalSize − allocatedSize` is taken to be the same number. The
  YAML parsing of the storage class parameter is left out: the map is chosen
  directly, and names are unique.
- **Time.** The lvm-csi wrappers sleep 1 ns between attempts (an untyped
  `KubernetesApiRequestTimeout` of 1). The attempts are modelled, but not
  their spacing.
- **Liveness of the poll.** Its termination depends on the caller's
  deadline, a timer the model has no notion of; only the agent's deletion is
  assumed fair (`DeletionCompletes`).
