----------------------------- MODULE NodeService -----------------------------
(***************************************************************************)
(* The CSI node service as kubelet drives it: NodePublishVolume mounts a   *)
(* volume's LV at a target path, NodeUnpublishVolume unmounts it.  Two     *)
(* versions are in the sources, chosen by the constant NodeDriver:         *)
(*                                                                         *)
(*   "sds-lvm-csi"    images/sds-lvm-csi/driver/node.go: mount or block    *)
(*                    (bind) capability, read-only option;                 *)
(*   "local-lvm-csi"  the older driver's node service                      *)
(*                    (src/unnamed/part_001): parses the volume context,   *)
(*                    creates the LV on the node, then mounts.             *)
(*                                                                         *)
(* kubelet publishes a target that it holds unpublished and unpublishes a  *)
(* published one, one call at a time per target (its operation executor   *)
(* runs one operation per volume); a call whose answer is an error leaves  *)
(* kubelet's view as it was, so it retries later.  The mounter is not      *)
(* among the sources: each Mount and Unmount may fail (device busy, not    *)
(* found), and a Mount on a target already mounted stacks another mount.   *)
(* The other node calls (stage, stats, expand, capabilities, info) return  *)
(* fixed answers and change nothing.                                       *)
(***************************************************************************)
EXTENDS Naturals

CONSTANTS
    Targets,        \* target paths, one per published volume
    NodeDriver,     \* which node service runs
    MaxCalls        \* bound: kubelet calls in one behaviour

ASSUME NodeServiceAssumption ==
    /\ NodeDriver \in {"sds-lvm-csi", "local-lvm-csi"}
    /\ MaxCalls \in Nat

(* A volume capability: exactly one of block and mount.                    *)
Capabilities == {"block", "mount"}

(* What the kernel has mounted at a target: how many mounts are stacked,   *)
(* and whether the top one is read-only.                                   *)
NoMount == [count |-> 0, ro |-> FALSE]

Results == {"none", "Ok", "Error", "Internal", "Panic"}

VARIABLES
    mounts,         \* mounts[t]: the mounts at target t
    lvs,            \* targets whose LV NodePublishVolume created
    published,      \* published[t]: kubelet holds t published
    request,        \* request[t]: the readonly flag and capability of the
                    \*   last publish of t
    result,         \* result[t]: the answer to the last call for t
    calls           \* kubelet calls so far

vars == <<mounts, lvs, published, request, result, calls>>

Init ==
    /\ mounts = [t \in Targets |-> NoMount]
    /\ lvs = {}
    /\ published = [t \in Targets |-> FALSE]
    /\ request = [t \in Targets |-> [ro |-> FALSE, cap |-> "mount"]]
    /\ result = [t \in Targets |-> "none"]
    /\ calls = 0

-----------------------------------------------------------------------------
(* The mounter.                                                            *)

(* mounter.Mount with options opts: another mount at t, read-only if opts *)
(* holds "ro"; or an error, leaving t as it was.                           *)
Mount(t, opts, ok) ==
    IF ok THEN mounts' = [mounts EXCEPT ![t] = [count |-> @.count + 1,
                                               ro |-> "ro" \in opts]]
    ELSE UNCHANGED mounts

(* mounter.Unmount: the top mount goes, or an error.                       *)
Unmount(t, ok) ==
    IF ok /\ mounts[t].count > 0
    THEN mounts' = [mounts EXCEPT ![t].count = @ - 1]
    ELSE UNCHANGED mounts

Answer(t, r) == result' = [result EXCEPT ![t] = r]

(* Mutant: a Mount error is logged and success returned.                  *)
PublishAnswerSwallowed(ok) == "Ok"

(* The answer to NodePublishVolume, the same in both drivers: the Mount    *)
(* error, if any.                                                          *)
PublishAnswer(ok) == IF ok THEN "Ok" ELSE "Error"

-----------------------------------------------------------------------------
(* sds-lvm-csi (driver/node.go).                                           *)

(* The mount options of NodePublishVolume: "ro" for a read-only request;   *)
(* a block capability replaces the options by "bind".  The mount flags of  *)
(* a mount capability are appended (none here).                            *)
LvmMountOptions(ro, cap) ==
    IF cap = "block" THEN {"bind"} ELSE IF ro THEN {"ro"} ELSE {}

(* NodePublishVolume: mount the LV at the target and return the error.     *)
LvmNodePublishVolume(t, ro, cap, ok) ==
    /\ Mount(t, LvmMountOptions(ro, cap), ok)
    /\ Answer(t, PublishAnswer(ok))
    /\ UNCHANGED lvs

(* NodeUnpublishVolume: unmount the target; an Unmount error is logged and *)
(* success is returned.                                                    *)
LvmNodeUnpublishVolume(t, ok) ==
    /\ Unmount(t, ok)
    /\ Answer(t, "Ok")
    /\ UNCHANGED lvs

-----------------------------------------------------------------------------
(* local-lvm-csi (src/unnamed/part_001).                                   *)

(* Mutant: an Unmount error is logged and success returned.                *)
LegacyUnmountAnswerSwallowed(ok) == "Ok"

(* Mutant: the readonly flag is not turned into a mount option.           *)
LegacyMountOptionsNoRO(ro) == {}

(* The mount options of NodePublishVolume: "ro" for a read-only request.   *)
LegacyMountOptions(ro) == IF ro THEN {"ro"} ELSE {}

(* The answer to NodeUnpublishVolume: the Unmount error, if any.           *)
LegacyUnmountAnswer(ok) == IF ok THEN "Ok" ELSE "Error"

(* NodePublishVolume: a volume context that does not unmarshal is an      *)
(* Internal error; VolumeCapability.GetMount().FsType dereferences nil for *)
(* a block capability; CreateLV runs and its error is only logged; then    *)
(* the mount, read-only if requested.                                      *)
LegacyNodePublishVolume(t, ro, cap, ok, contextOk) ==
    \/ /\ ~contextOk
       /\ Answer(t, "Internal")
       /\ UNCHANGED <<mounts, lvs>>
    \/ /\ contextOk /\ cap = "block"
       /\ Answer(t, "Panic")
       /\ UNCHANGED <<mounts, lvs>>
    \/ /\ contextOk /\ cap = "mount"
       /\ lvs' = lvs \cup {t}
       /\ Mount(t, LegacyMountOptions(ro), ok)
       /\ Answer(t, PublishAnswer(ok))

(* NodeUnpublishVolume: unmount the target and return its error.           *)
LegacyNodeUnpublishVolume(t, ok) ==
    /\ Unmount(t, ok)
    /\ Answer(t, LegacyUnmountAnswer(ok))
    /\ UNCHANGED lvs

-----------------------------------------------------------------------------
(* kubelet.                                                                *)

(* kubelet publishes an unpublished target with a readonly flag and a      *)
(* capability; the target counts as published once the call succeeds.     *)
NodePublishVolume(t) ==
    /\ ~published[t] /\ calls < MaxCalls
    /\ \E ro \in BOOLEAN, cap \in Capabilities, ok \in BOOLEAN,
          contextOk \in BOOLEAN :
          /\ IF NodeDriver = "sds-lvm-csi"
             THEN LvmNodePublishVolume(t, ro, cap, ok)
             ELSE LegacyNodePublishVolume(t, ro, cap, ok, contextOk)
          /\ request' = [request EXCEPT ![t] = [ro |-> ro, cap |-> cap]]
    /\ published' = [published EXCEPT ![t] = result'[t] = "Ok"]
    /\ calls' = calls + 1

(* kubelet unpublishes a published target; it counts as unpublished once   *)
(* the call succeeds.                                                      *)
NodeUnpublishVolume(t) ==
    /\ published[t] /\ calls < MaxCalls
    /\ \E ok \in BOOLEAN :
          IF NodeDriver = "sds-lvm-csi"
          THEN LvmNodeUnpublishVolume(t, ok)
          ELSE LegacyNodeUnpublishVolume(t, ok)
    /\ published' = [published EXCEPT ![t] = result'[t] # "Ok"]
    /\ calls' = calls + 1
    /\ UNCHANGED request

Next == \E t \in Targets : NodePublishVolume(t) \/ NodeUnpublishVolume(t)

Spec == Init /\ [][Next]_vars

-----------------------------------------------------------------------------
(* A target kubelet holds published has the volume mounted: a pod kubelet *)
(* starts on it sees the volume, not the empty directory underneath.       *)
(* NodePublishVolume must not answer success for a failed mount, and a     *)
(* failed NodeUnpublishVolume must not leave kubelet holding the target    *)
(* published with the mount gone.                                          *)
PublishedMeansMounted ==
    \A t \in Targets : published[t] => mounts[t].count > 0

(* A target kubelet holds unpublished has nothing mounted: a successful    *)
(* NodeUnpublishVolume has unmounted it, so kubelet may detach and delete  *)
(* the volume.  Publishing again after an unpublish must not stack mounts. *)
UnpublishedMeansUnmounted ==
    \A t \in Targets : ~published[t] => mounts[t].count = 0

(* A target published read-only is mounted read-only, block or mount: the *)
(* readonly flag NodePublishVolume turns into the "ro" option reaches the  *)
(* mount.                                                                  *)
ReadonlyHonoured ==
    \A t \in Targets :
        published[t] /\ request[t].ro => mounts[t].ro
=============================================================================
