------------------------- MODULE NodeServiceProofs -------------------------
(***************************************************************************)
(* Proofs about the node service of NodeService, for every set of targets  *)
(* and every call bound: a target kubelet holds published is mounted, with *)
(* either driver; and with the older driver a target it holds unpublished  *)
(* is unmounted and a read-only publish is mounted read-only.              *)
(***************************************************************************)
EXTENDS NodeService, TLAPS

(* The mounts at a target.                                                 *)
MountState == [count : Nat, ro : BOOLEAN]

(* The type of each variable.                                              *)
TypeOK ==
    /\ mounts \in [Targets -> MountState]
    /\ lvs \subseteq Targets
    /\ published \in [Targets -> BOOLEAN]
    /\ request \in [Targets -> [ro : BOOLEAN, cap : Capabilities]]
    /\ result \in [Targets -> Results]
    /\ calls \in Nat

(* The strengthening of PublishedMeansMounted: the mount counts are        *)
(* numbers, so that an Unmount of a published target is seen to leave it   *)
(* unpublished or still mounted.                                           *)
MountedInv == TypeOK /\ PublishedMeansMounted

(* With the older driver, kubelet's view and the mounter agree exactly:    *)
(* one mount at a target it holds published, with the readonly flag of     *)
(* the publish that made it, and none at any other target.                 *)
MountsMatchPublished(t) ==
    /\ mounts[t].count = IF published[t] THEN 1 ELSE 0
    /\ published[t] => mounts[t].ro = request[t].ro

LegacyInv == TypeOK /\ \A t \in Targets : MountsMatchPublished(t)

USE NodeServiceAssumption

-----------------------------------------------------------------------------
(* The mounter.                                                            *)

(* mounter.Mount changes the mounts at its target only: one more, with    *)
(* the "ro" option deciding the read-only flag, or none on an error.       *)
LEMMA MountEffect ==
    ASSUME TypeOK, NEW t \in Targets, NEW opts, NEW ok \in BOOLEAN,
           Mount(t, opts, ok)
    PROVE  /\ mounts' \in [Targets -> MountState]
           /\ mounts'[t] = IF ok THEN [count |-> mounts[t].count + 1,
                                       ro |-> "ro" \in opts]
                                 ELSE mounts[t]
           /\ \A u \in Targets \ {t} : mounts'[u] = mounts[u]
<1>1. CASE ok
  <2>1. mounts' = [mounts EXCEPT ![t] = [count |-> mounts[t].count + 1,
                                         ro |-> "ro" \in opts]]
    BY <1>1 DEF Mount
  <2>2. mounts[t].count + 1 \in Nat
    BY DEF TypeOK, MountState
  <2>. QED  BY <1>1, <2>1, <2>2 DEF TypeOK, MountState
<1>2. CASE ~ok
  <2>1. mounts' = mounts
    BY <1>2 DEF Mount
  <2>. QED  BY <1>2, <2>1 DEF TypeOK
<1>. QED  BY <1>1, <1>2

(* mounter.Unmount changes the mounts at its target only: one fewer if it *)
(* succeeds on a mounted target, else none.                                *)
LEMMA UnmountEffect ==
    ASSUME TypeOK, NEW t \in Targets, NEW ok \in BOOLEAN, Unmount(t, ok)
    PROVE  /\ mounts' \in [Targets -> MountState]
           /\ mounts'[t].count = IF ok /\ mounts[t].count > 0
                                 THEN mounts[t].count - 1
                                 ELSE mounts[t].count
           /\ mounts'[t].ro = mounts[t].ro
           /\ \A u \in Targets \ {t} : mounts'[u] = mounts[u]
<1>1. CASE ok /\ mounts[t].count > 0
  <2>1. mounts' = [mounts EXCEPT ![t] = [mounts[t] EXCEPT !["count"] =
                                             mounts[t].count - 1]]
    BY <1>1 DEF Unmount
  <2>2. mounts[t] \in MountState /\ mounts[t].count - 1 \in Nat
    BY <1>1 DEF TypeOK, MountState
  <2>3. LET r == [mounts[t] EXCEPT !["count"] = mounts[t].count - 1]
        IN  r.count = mounts[t].count - 1 /\ r.ro = mounts[t].ro
            /\ r \in MountState
    BY <2>2 DEF MountState
  <2>. QED  BY <1>1, <2>1, <2>3 DEF TypeOK
<1>2. CASE ~(ok /\ mounts[t].count > 0)
  <2>1. mounts' = mounts
    BY <1>2 DEF Unmount
  <2>. QED  BY <1>2, <2>1 DEF TypeOK
<1>. QED  BY <1>1, <1>2


-----------------------------------------------------------------------------
(* The two kubelet calls.                                                  *)

(* What NodePublishVolume does, with either driver: it only touches its   *)
(* target; kubelet holds the target published afterwards exactly when a   *)
(* mount was added, otherwise the mounts are as they were; and with the    *)
(* older driver the new mount is read-only exactly when the request is.   *)
LEMMA PublishStep ==
    ASSUME TypeOK, NEW t \in Targets, NodePublishVolume(t)
    PROVE  /\ TypeOK'
           /\ ~published[t]
           /\ \A u \in Targets \ {t} : /\ mounts'[u] = mounts[u]
                                       /\ published'[u] = published[u]
                                       /\ request'[u] = request[u]
           /\ published'[t] => mounts'[t].count = mounts[t].count + 1
           /\ ~published'[t] => mounts'[t] = mounts[t]
           /\ NodeDriver = "local-lvm-csi" /\ published'[t]
                 => mounts'[t].ro = request'[t].ro
<1>1. /\ ~published[t]
      /\ published' = [published EXCEPT ![t] = result'[t] = "Ok"]
      /\ calls' = calls + 1
  BY DEF NodePublishVolume
<1>2. PICK ro \in BOOLEAN, cap \in Capabilities, ok \in BOOLEAN,
           contextOk \in BOOLEAN :
         /\ IF NodeDriver = "sds-lvm-csi"
            THEN LvmNodePublishVolume(t, ro, cap, ok)
            ELSE LegacyNodePublishVolume(t, ro, cap, ok, contextOk)
         /\ request' = [request EXCEPT ![t] = [ro |-> ro, cap |-> cap]]
  BY DEF NodePublishVolume
<1>3. /\ request' \in [Targets -> [ro : BOOLEAN, cap : Capabilities]]
      /\ request'[t].ro = ro
      /\ \A u \in Targets \ {t} : request'[u] = request[u]
  BY <1>2 DEF TypeOK
(* Each branch of the handler: the answer, the LVs, and the mount.        *)
<1>4. PICK r \in Results :
         /\ result' = [result EXCEPT ![t] = r]
         /\ lvs' \subseteq Targets
         /\ r = "Ok" => /\ mounts' \in [Targets -> MountState]
                        /\ mounts'[t].count = mounts[t].count + 1
                        /\ \A u \in Targets \ {t} : mounts'[u] = mounts[u]
                        /\ NodeDriver = "local-lvm-csi" => mounts'[t].ro = ro
         /\ r # "Ok" => mounts' = mounts
  <2>1. CASE NodeDriver = "sds-lvm-csi"
    <3>1. /\ Mount(t, LvmMountOptions(ro, cap), ok)
          /\ result' = [result EXCEPT ![t] = PublishAnswer(ok)]
          /\ lvs' = lvs
      BY <1>2, <2>1 DEF LvmNodePublishVolume, Answer
    <3>3. ASSUME ok
          PROVE  /\ mounts' \in [Targets -> MountState]
                 /\ mounts'[t].count = mounts[t].count + 1
                 /\ \A u \in Targets \ {t} : mounts'[u] = mounts[u]
      <4>1. /\ mounts' \in [Targets -> MountState]
            /\ mounts'[t] = [count |-> mounts[t].count + 1,
                             ro |-> "ro" \in LvmMountOptions(ro, cap)]
            /\ \A u \in Targets \ {t} : mounts'[u] = mounts[u]
        BY <3>1, <3>3, MountEffect
      <4>. QED  BY <4>1
    <3>4. ~ok => mounts' = mounts
      BY <3>1 DEF Mount
    <3>5. PublishAnswer(ok) \in Results /\ (PublishAnswer(ok) = "Ok") = ok
      BY DEF PublishAnswer, Results
    <3>. QED  BY <2>1, <3>1, <3>3, <3>4, <3>5 DEF TypeOK
  <2>2. CASE NodeDriver = "local-lvm-csi"
    <3>1. LegacyNodePublishVolume(t, ro, cap, ok, contextOk)
      BY <1>2, <2>2
    <3>2. CASE ~contextOk \/ cap = "block"
      <4>1. /\ result' = [result EXCEPT ![t] = IF ~contextOk THEN "Internal"
                                                              ELSE "Panic"]
            /\ mounts' = mounts /\ lvs' = lvs
        BY <3>1, <3>2 DEF LegacyNodePublishVolume, Answer
      <4>2. (IF ~contextOk THEN "Internal" ELSE "Panic") \in Results
        BY DEF Results
      <4>. QED  BY <4>1, <4>2 DEF TypeOK
    <3>3. CASE contextOk /\ cap = "mount"
      <4>1. /\ lvs' = lvs \cup {t}
            /\ Mount(t, LegacyMountOptions(ro), ok)
            /\ result' = [result EXCEPT ![t] = PublishAnswer(ok)]
        BY <3>1, <3>3 DEF LegacyNodePublishVolume, Answer
      <4>3. ASSUME ok
            PROVE  /\ mounts' \in [Targets -> MountState]
                   /\ mounts'[t].count = mounts[t].count + 1
                   /\ mounts'[t].ro = ("ro" \in LegacyMountOptions(ro))
                   /\ \A u \in Targets \ {t} : mounts'[u] = mounts[u]
        <5>1. /\ mounts' \in [Targets -> MountState]
              /\ mounts'[t] = [count |-> mounts[t].count + 1,
                               ro |-> "ro" \in LegacyMountOptions(ro)]
              /\ \A u \in Targets \ {t} : mounts'[u] = mounts[u]
          BY <4>1, <4>3, MountEffect
        <5>. QED  BY <5>1
      <4>4. ("ro" \in LegacyMountOptions(ro)) = ro
        BY DEF LegacyMountOptions
      <4>5. ~ok => mounts' = mounts
        BY <4>1 DEF Mount
      <4>6. PublishAnswer(ok) \in Results /\ (PublishAnswer(ok) = "Ok") = ok
        BY DEF PublishAnswer, Results
      <4>. QED  BY <4>1, <4>3, <4>4, <4>5, <4>6 DEF TypeOK
    <3>. QED  BY <3>2, <3>3 DEF Capabilities
  <2>. QED  BY <2>1, <2>2
<1>5. /\ published'[t] = (r = "Ok")
      /\ \A u \in Targets \ {t} : published'[u] = published[u]
  BY <1>1, <1>4 DEF TypeOK
<1>6. TypeOK'
  BY <1>1, <1>3, <1>4 DEF TypeOK
<1>7. CASE r = "Ok"
  <2>1. published'[t]
    BY <1>5, <1>7, Zenon
  <2>. QED  BY <1>1, <1>3, <1>4, <1>5, <1>6, <1>7, <2>1
<1>8. CASE r # "Ok"
  BY <1>1, <1>3, <1>4, <1>5, <1>6, <1>8
<1>. QED  BY <1>7, <1>8


(* What NodeUnpublishVolume does, with either driver: it only touches the *)
(* mounts of its target; kubelet still holds the target published          *)
(* afterwards only if the mounts are as they were; and with the older      *)
(* driver a target it stops holding lost its top mount, if it had one.     *)
LEMMA UnpublishStep ==
    ASSUME TypeOK, NEW t \in Targets, NodeUnpublishVolume(t)
    PROVE  /\ TypeOK'
           /\ published[t]
           /\ request' = request
           /\ \A u \in Targets \ {t} : /\ mounts'[u] = mounts[u]
                                       /\ published'[u] = published[u]
           /\ published'[t] => mounts'[t] = mounts[t]
           /\ NodeDriver = "local-lvm-csi" /\ ~published'[t]
                 => mounts'[t].count = IF mounts[t].count > 0
                                       THEN mounts[t].count - 1
                                       ELSE mounts[t].count
<1>1. /\ published[t]
      /\ published' = [published EXCEPT ![t] = result'[t] # "Ok"]
      /\ calls' = calls + 1
      /\ request' = request
  BY DEF NodeUnpublishVolume
<1>2. PICK ok \in BOOLEAN :
         IF NodeDriver = "sds-lvm-csi"
         THEN LvmNodeUnpublishVolume(t, ok)
         ELSE LegacyNodeUnpublishVolume(t, ok)
  BY DEF NodeUnpublishVolume
(* The answer of each driver, and what kubelet makes of it.                *)
<1>3. PICK r \in Results :
         /\ Unmount(t, ok) /\ lvs' = lvs
         /\ result' = [result EXCEPT ![t] = r]
         /\ r = "Ok" => NodeDriver = "sds-lvm-csi" \/ ok
         /\ r # "Ok" => ~ok
  <2>1. CASE NodeDriver = "sds-lvm-csi"
    BY <1>2, <2>1 DEF LvmNodeUnpublishVolume, Answer, Results
  <2>2. CASE NodeDriver # "sds-lvm-csi"
    <3>1. /\ Unmount(t, ok) /\ lvs' = lvs
          /\ result' = [result EXCEPT ![t] = LegacyUnmountAnswer(ok)]
      BY <1>2, <2>2 DEF LegacyNodeUnpublishVolume, Answer
    <3>2. /\ LegacyUnmountAnswer(ok) \in Results
          /\ (LegacyUnmountAnswer(ok) = "Ok") = ok
      BY DEF LegacyUnmountAnswer, Results
    <3>. QED  BY <3>1, <3>2
  <2>. QED  BY <2>1, <2>2
<1>4. /\ mounts' \in [Targets -> MountState]
      /\ mounts'[t].count = IF ok /\ mounts[t].count > 0
                            THEN mounts[t].count - 1
                            ELSE mounts[t].count
      /\ \A u \in Targets \ {t} : mounts'[u] = mounts[u]
  BY <1>3, UnmountEffect
<1>5. /\ published'[t] = (r # "Ok")
      /\ \A u \in Targets \ {t} : published'[u] = published[u]
  BY <1>1, <1>3 DEF TypeOK
<1>6. TypeOK'
  <2>1. result' \in [Targets -> Results]
    BY <1>3 DEF TypeOK
  <2>2. published' \in [Targets -> BOOLEAN] /\ calls' \in Nat
    BY <1>1 DEF TypeOK
  <2>3. lvs' \subseteq Targets /\ request' = request
    BY <1>1, <1>3 DEF TypeOK
  <2>. QED  BY <1>4, <2>1, <2>2, <2>3 DEF TypeOK
<1>7. published'[t] => mounts'[t] = mounts[t]
  <2>1. ASSUME published'[t] PROVE ~ok
    BY <1>3, <1>5, <2>1
  <2>2. ASSUME ~ok PROVE mounts' = mounts
    BY <1>3, <2>2 DEF Unmount
  <2>. QED  BY <2>1, <2>2
<1>8. NodeDriver = "local-lvm-csi" /\ ~published'[t] => ok
  BY <1>3, <1>5, NodeServiceAssumption
<1>. QED  BY <1>1, <1>4, <1>5, <1>6, <1>7, <1>8


-----------------------------------------------------------------------------
(* Invariance.                                                             *)

(* Initially nothing is published or mounted.                              *)
LEMMA InitTypeOK == Init => TypeOK
BY DEF Init, TypeOK, NoMount, MountState, Results, Capabilities

(* Every step keeps the types.                                             *)
LEMMA NextTypeOK == TypeOK /\ [Next]_vars => TypeOK'
<1> SUFFICES ASSUME TypeOK, [Next]_vars PROVE TypeOK'
  OBVIOUS
<1>1. ASSUME NEW t \in Targets, NodePublishVolume(t) PROVE TypeOK'
  BY <1>1, PublishStep
<1>2. ASSUME NEW t \in Targets, NodeUnpublishVolume(t) PROVE TypeOK'
  BY <1>2, UnpublishStep
<1>3. CASE UNCHANGED vars
  BY <1>3 DEF TypeOK, vars
<1>. QED  BY <1>1, <1>2, <1>3 DEF Next

(* With either driver, a target kubelet holds published has the volume     *)
(* mounted: NodePublishVolume answers success only for a mount it made,   *)
(* and NodeUnpublishVolume leaves the target published only when it left *)
(* the mount in place.                                                     *)
THEOREM PublishedMounted == Spec => []PublishedMeansMounted
<1>1. Init => MountedInv
  BY InitTypeOK DEF Init, MountedInv, PublishedMeansMounted
<1>2. MountedInv /\ [Next]_vars => MountedInv'
  <2> SUFFICES ASSUME MountedInv, [Next]_vars PROVE MountedInv'
    OBVIOUS
  <2>0. TypeOK'
    BY NextTypeOK DEF MountedInv
  <2>1. ASSUME NEW t \in Targets, NodePublishVolume(t)
        PROVE  PublishedMeansMounted'
    <3>1. SUFFICES ASSUME NEW u \in Targets, published'[u]
                   PROVE  mounts'[u].count > 0
      BY DEF PublishedMeansMounted
    <3>2. CASE u = t
      BY <2>1, <3>1, <3>2, PublishStep DEF MountedInv, TypeOK, MountState
    <3>3. CASE u # t
      BY <2>1, <3>1, <3>3, PublishStep
         DEF MountedInv, PublishedMeansMounted
    <3>. QED  BY <3>2, <3>3
  <2>2. ASSUME NEW t \in Targets, NodeUnpublishVolume(t)
        PROVE  PublishedMeansMounted'
    <3>1. SUFFICES ASSUME NEW u \in Targets, published'[u]
                   PROVE  mounts'[u].count > 0
      BY DEF PublishedMeansMounted
    <3>2. CASE u = t
      BY <2>2, <3>1, <3>2, UnpublishStep
         DEF MountedInv, PublishedMeansMounted
    <3>3. CASE u # t
      BY <2>2, <3>1, <3>3, UnpublishStep
         DEF MountedInv, PublishedMeansMounted
    <3>. QED  BY <3>2, <3>3
  <2>3. ASSUME UNCHANGED vars PROVE PublishedMeansMounted'
    <3>1. mounts' = mounts /\ published' = published
      BY <2>3 DEF vars
    <3>. QED  BY <3>1 DEF MountedInv, PublishedMeansMounted
  <2>. QED  BY <2>0, <2>1, <2>2, <2>3 DEF Next, MountedInv
<1>. QED  BY <1>1, <1>2, PTL DEF Spec, MountedInv


(* With the older driver every step keeps kubelet's view and the mounter   *)
(* in exact agreement: NodePublishVolume runs only on an unmounted target *)
(* and adds one mount, read-only as requested, exactly when it answers    *)
(* success; NodeUnpublishVolume removes the one mount exactly when it      *)
(* answers success.                                                        *)
LEMMA LegacyInvariant ==
    ASSUME NodeDriver = "local-lvm-csi"
    PROVE  Spec => []LegacyInv
<1>0. NodeDriver = "local-lvm-csi"
  OBVIOUS
<1>1. Init => LegacyInv
  BY InitTypeOK DEF Init, LegacyInv, MountsMatchPublished, NoMount
<1>2. LegacyInv /\ [Next]_vars => LegacyInv'
  <2> SUFFICES ASSUME LegacyInv, [Next]_vars PROVE LegacyInv'
    OBVIOUS
  <2>0. TypeOK /\ TypeOK'
    BY NextTypeOK DEF LegacyInv
  <2>1. ASSUME NEW t \in Targets, NodePublishVolume(t),
               NEW u \in Targets
        PROVE  MountsMatchPublished(u)'
    <3>1. CASE u = t
      <4>1. mounts[t].count = 0
        BY <2>0, <2>1, PublishStep DEF LegacyInv, MountsMatchPublished
      <4>2. CASE published'[t]
        BY <1>0, <2>0, <2>1, <3>1, <4>1, <4>2, PublishStep
           DEF MountsMatchPublished
      <4>3. CASE ~published'[t]
        BY <2>0, <2>1, <3>1, <4>1, <4>3, PublishStep DEF MountsMatchPublished
      <4>. QED  BY <4>2, <4>3
    <3>2. CASE u # t
      BY <2>0, <2>1, <3>2, PublishStep DEF LegacyInv, MountsMatchPublished
    <3>. QED  BY <3>1, <3>2
  <2>2. ASSUME NEW t \in Targets, NodeUnpublishVolume(t),
               NEW u \in Targets
        PROVE  MountsMatchPublished(u)'
    <3>1. CASE u = t
      <4>1. mounts[t].count = 1 /\ mounts[t].ro = request[t].ro
        BY <2>0, <2>2, UnpublishStep DEF LegacyInv, MountsMatchPublished
      <4>2. CASE published'[t]
        BY <2>0, <2>2, <3>1, <4>1, <4>2, UnpublishStep DEF MountsMatchPublished
      <4>3. CASE ~published'[t]
        BY <1>0, <2>0, <2>2, <3>1, <4>1, <4>3, UnpublishStep
           DEF MountsMatchPublished
      <4>. QED  BY <4>2, <4>3
    <3>2. CASE u # t
      BY <2>0, <2>2, <3>2, UnpublishStep DEF LegacyInv, MountsMatchPublished
    <3>. QED  BY <3>1, <3>2
  <2>3. ASSUME UNCHANGED vars, NEW u \in Targets
        PROVE  MountsMatchPublished(u)'
    <3>1. mounts' = mounts /\ published' = published /\ request' = request
      BY <2>3 DEF vars
    <3>. QED  BY <3>1 DEF LegacyInv, MountsMatchPublished
  <2>. QED  BY <2>0, <2>1, <2>2, <2>3 DEF Next, LegacyInv
<1>. QED  BY <1>1, <1>2, PTL DEF Spec

(* With the older driver, a target kubelet holds unpublished has nothing   *)
(* mounted: a publish that failed left no mount, and NodeUnpublishVolume  *)
(* reports the Unmount error, so kubelet stops holding the target only     *)
(* once its mount is gone and never stacks a second mount on a republish.  *)
THEOREM LegacyUnpublishedUnmounted ==
    ASSUME NodeDriver = "local-lvm-csi"
    PROVE  Spec => []UnpublishedMeansUnmounted
<1>1. LegacyInv => UnpublishedMeansUnmounted
  BY DEF LegacyInv, MountsMatchPublished, UnpublishedMeansUnmounted
<1>. QED  BY <1>1, LegacyInvariant, PTL

(* With the older driver, a target published read-only is mounted          *)
(* read-only: the readonly flag of the publish becomes the "ro" option of *)
(* the one mount at the target.                                            *)
THEOREM LegacyReadonlyHonoured ==
    ASSUME NodeDriver = "local-lvm-csi"
    PROVE  Spec => []ReadonlyHonoured
<1>1. LegacyInv => ReadonlyHonoured
  BY DEF LegacyInv, MountsMatchPublished, ReadonlyHonoured, TypeOK
<1>. QED  BY <1>1, LegacyInvariant, PTL

=============================================================================
