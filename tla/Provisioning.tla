---------------------------- MODULE Provisioning ----------------------------
(***************************************************************************)
(* How a new volume is put under replication.  The sidecar's PV controller *)
(* has the driver create the remote volume and the protection group, and   *)
(* finds or creates the replication group; its PVC controller copies the   *)
(* result to the claim; the replication controller's PVC controller links  *)
(* the claim with the one on the remote cluster and creates that if it is  *)
(* allowed to.  All volumes here are of one protection group; one of them  *)
(* has a claim whose way is followed.                                      *)
(*                                                                         *)
(* Updates use optimistic concurrency.  Annotations are only ever added,   *)
(* so a copy is current exactly when it equals the object.  A volume or    *)
(* claim that a cache returns too old makes the update conflict, which is  *)
(* one of the failures; the list of groups has no such guard, so its cache *)
(* is a variable.                                                          *)
(***************************************************************************)

CONSTANTS
  Volumes,      \* volumes of one protection group
  Claimed,      \* the volume whose claim is modelled
  Names,        \* names of replication groups; bounds how many are created
  NoGroup       \* no replication group annotation

ASSUME NamesAssumption == Claimed \in Volumes /\ NoGroup \notin Names /\ Names # {}

VARIABLES
  pv,         \* annotations of the volumes: remote volume and group
  groups,     \* the replication groups that exist
  groupsSeen, \* those in the sidecar's cache
  flight,     \* volumes whose workers share the creation in flight
  vol,        \* per volume, the sidecar's worker
  claim,      \* the local claim
  prot,       \* the sidecar's worker for the claim
  link,       \* the controller's worker for the claim
  far         \* the remote cluster, and whether claims may be created there

rgs  == <<groups, groupsSeen, flight>>
side == <<pv, rgs, vol, prot>>
vars == <<side, claim, link, far>>

Idle == [step |-> "idle"]

Init ==
  /\ pv = [v \in Volumes |-> [remote |-> FALSE, rg |-> NoGroup]]
  /\ groups = {} /\ groupsSeen = {} /\ flight = {}
  /\ vol = [v \in Volumes |-> Idle]
  /\ claim = [phase |-> "Pending", remote |-> FALSE, rg |-> NoGroup, protected |-> FALSE,
              remotePV |-> FALSE, remotePVC |-> FALSE, synced |-> FALSE]
  /\ prot = Idle /\ link = Idle
  /\ \E may \in BOOLEAN :
       far = [may |-> may, pv |-> "none", ref |-> FALSE, pvc |-> "none", linked |-> FALSE]

-----------------------------------------------------------------------------
(* The sidecar's PV controller *)

\* Events, errors and requeues bring a volume back until it has its group.
ReconcilePV(v) ==
  /\ vol[v] = Idle /\ pv[v].rg = NoGroup
  /\ vol' = [vol EXCEPT ![v] =
       [step |-> IF pv[v].remote THEN "group" ELSE "remote", copy |-> pv[v],
        reread |-> FALSE, rg |-> NoGroup]]
  /\ UNCHANGED <<pv, rgs, prot, claim, link, far>>

VolAt(v, step) == vol[v] # Idle /\ vol[v].step = step

EndVolume(v) == vol' = [vol EXCEPT ![v] = Idle]

\* The driver creates the remote volume, or finds it; the annotation is added.
CreateRemoteVolume(v) ==
  /\ VolAt(v, "remote")
  /\ \/ /\ vol[v].copy = pv[v]
        /\ pv' = [pv EXCEPT ![v].remote = TRUE]
        /\ vol' = [vol EXCEPT ![v].step = "group", ![v].reread = TRUE]
     \/ vol[v].copy # pv[v] /\ EndVolume(v) /\ UNCHANGED pv
  /\ UNCHANGED <<rgs, prot, claim, link, far>>

\* createProtectionGroupAndRG: the groups of the protection group that the driver
\* returns are listed from the cache, and the first is taken.
FindGroup(v) ==
  /\ VolAt(v, "group")
  /\ \/ groupsSeen = {} /\ vol' = [vol EXCEPT ![v].step = "once"]
     \/ \E g \in groupsSeen : vol' = [vol EXCEPT ![v].step = "mark", ![v].rg = g]
  /\ UNCHANGED <<pv, rgs, prot, claim, link, far>>

\* createReplicationGroupOnce: the first to come creates, those who come meanwhile wait.
CreateOnce(v) ==
  /\ VolAt(v, "once")
  /\ vol' = [vol EXCEPT ![v].step = IF flight = {} THEN "create" ELSE "wait"]
  /\ flight' = flight \cup {v}
  /\ UNCHANGED <<pv, groups, groupsSeen, prot, claim, link, far>>

\* The result of the creation in flight, for the worker that created only.
ShareWithOne(g) ==
  /\ vol' = [u \in Volumes |-> IF VolAt(u, "create")
               THEN [vol[u] EXCEPT !.step = "mark", !.rg = g] ELSE vol[u]]
  /\ flight' = {}

\* The result of the creation in flight, for everyone in it.
Share(g) ==
  /\ vol' = [u \in Volumes |-> IF u \in flight
               THEN [vol[u] EXCEPT !.step = "mark", !.rg = g] ELSE vol[u]]
  /\ flight' = {}

\* The name is handed out before the object is created.
ShareFirst(v) ==
  /\ VolAt(v, "create")
  /\ \E g \in Names \ groups : Share(g) /\ groups' \in {groups, groups \cup {g}}
  /\ UNCHANGED <<pv, groupsSeen, prot, claim, link, far>>

\* createReplicationGroup, under a new name.
CreateReplicationGroup(v) ==
  /\ VolAt(v, "create")
  /\ \E g \in Names \ groups : Share(g) /\ groups' = groups \cup {g}
  /\ UNCHANGED <<pv, groupsSeen, prot, claim, link, far>>

\* A volume that was updated in this reconcile is read again.
RereadPV(v) ==
  /\ VolAt(v, "mark") /\ vol[v].reread
  /\ vol' = [vol EXCEPT ![v].copy = pv[v], ![v].reread = FALSE]
  /\ UNCHANGED <<pv, rgs, prot, claim, link, far>>

\* processVolumeForReplicationGroup: the group, and with it that protection is complete.
MarkVolume(v) ==
  /\ VolAt(v, "mark") /\ ~vol[v].reread
  /\ EndVolume(v)
  /\ pv' = IF vol[v].copy = pv[v] THEN [pv EXCEPT ![v].rg = vol[v].rg] ELSE pv
  /\ UNCHANGED <<rgs, prot, claim, link, far>>

\* An error of a call; a creation that fails, fails for all who wait for it.
FailVolume(v) ==
  /\ vol[v] # Idle /\ ~VolAt(v, "wait")
  /\ LET lost == IF VolAt(v, "create") THEN flight ELSE {v}
     IN /\ vol' = [u \in Volumes |-> IF u \in lost THEN Idle ELSE vol[u]]
        /\ flight' = flight \ lost
  /\ UNCHANGED <<pv, groups, groupsSeen, prot, claim, link, far>>

\* Bound: when all names are used, a creation fails.
NamesExhausted(v) == VolAt(v, "create") /\ groups = Names /\ FailVolume(v)

-----------------------------------------------------------------------------
(* The sidecar's PVC controller *)

ProtAt(step) == prot # Idle /\ prot.step = step

\* A claim that is bound and has no group yet; tried again until the volume has the
\* annotation of the remote volume.
ReconcileClaim ==
  /\ prot = Idle
  /\ claim.phase \notin {"Pending", "gone"} /\ claim.rg = NoGroup
  /\ claim.remote \/ pv[Claimed].remote
  /\ prot' = [step |-> IF claim.remote THEN "group" ELSE "remote",
              copy |-> claim, volume |-> pv[Claimed]]
  /\ UNCHANGED <<pv, rgs, vol, claim, link, far>>

\* processClaimForRemoteVolume; the claim is then read again.
ProcessClaimForRemoteVolume ==
  /\ ProtAt("remote")
  /\ \/ /\ prot.copy = claim
        /\ claim' = [claim EXCEPT !.remote = TRUE]
        /\ prot' = [prot EXCEPT !.step = "reread"]
     \/ prot.copy # claim /\ prot' = Idle /\ UNCHANGED claim
  /\ UNCHANGED <<pv, rgs, vol, link, far>>

RereadClaim ==
  /\ ProtAt("reread")
  /\ prot' = IF claim.phase = "gone" THEN Idle ELSE [prot EXCEPT !.step = "group", !.copy = claim]
  /\ UNCHANGED <<pv, rgs, vol, claim, link, far>>

\* processClaimForReplicationGroup, with the copy of the volume that was read first;
\* tried again later when that has no group.
ProcessClaimForGroup ==
  /\ ProtAt("group")
  /\ prot' = Idle
  /\ claim' = IF prot.volume.rg # NoGroup /\ prot.copy = claim
              THEN [claim EXCEPT !.rg = prot.volume.rg, !.protected = TRUE]
              ELSE claim
  /\ UNCHANGED <<pv, rgs, vol, link, far>>

FailProtect == prot # Idle /\ prot' = Idle /\ UNCHANGED <<pv, rgs, vol, claim, link, far>>

\* The sidecar restarts: its workers and the creation in flight are lost, the cache
\* is read anew.
RestartSidecar ==
  /\ prot # Idle \/ \E v \in Volumes : vol[v] # Idle
  /\ vol' = [v \in Volumes |-> Idle] /\ flight' = {} /\ prot' = Idle
  /\ groupsSeen' = groups
  /\ UNCHANGED <<pv, groups, claim, link, far>>

-----------------------------------------------------------------------------
(* The replication controller's PVC controller *)

LinkAt(step) == link # Idle /\ link.step = step

\* A claim whose protection is complete, at any event and at the informer's resync.
ReconcileRemoteClaim ==
  /\ link = Idle
  /\ claim.protected /\ claim.phase # "gone"
  /\ link' = [step |-> "volume", copy |-> claim, bound |-> FALSE,
              linked |-> FALSE, updated |-> FALSE]
  /\ UNCHANGED <<side, claim, far>>

\* The remote volume decides how it goes on.  While there is none it is tried again; a
\* claim that is being deleted gets no remote claim and is not looked at further, and one
\* whose remote volume has no ClaimRef gets none either.
GetRemotePV ==
  /\ LinkAt("volume")
  /\ link' = IF far.pv = "none" \/ (far.may /\ link.copy.phase = "deleting")
             THEN Idle
             ELSE [link EXCEPT !.bound = (far.pv = "Bound"),
                     !.step = CASE far.pv = "Available" /\ far.may /\ far.ref -> "namespace"
                                [] far.pv = "Bound" -> "claim"
                                [] OTHER -> "local"]
  /\ UNCHANGED <<side, claim, far>>

\* The namespace exists afterwards; nothing else here depends on it.
VerifyAndCreateNamespace ==
  /\ LinkAt("namespace")
  /\ link' = [link EXCEPT !.step = "create"]
  /\ UNCHANGED <<side, claim, far>>

\* The remote claim is made from the volume that was read, with all its links; one that
\* exists is left alone.  The volume was not bound, so the claim is not looked at.
CreateRemotePVC ==
  /\ LinkAt("create")
  /\ far' = IF far.pvc = "present" THEN far
            ELSE [far EXCEPT !.pvc = "present", !.linked = TRUE]
  /\ link' = [link EXCEPT !.step = "local"]
  /\ UNCHANGED <<side, claim>>

\* The claim that a bound volume refers to; there may be none any more.
GetRemotePVC ==
  /\ LinkAt("claim")
  /\ link' = [link EXCEPT !.step = IF far.pvc = "present" THEN "remote" ELSE "local",
                          !.linked = far.linked]
  /\ UNCHANGED <<side, claim, far>>

\* processRemotePVC adds the links if they are missing, to a claim that still exists.
ProcessRemotePVC ==
  /\ LinkAt("remote")
  /\ \/ /\ link.linked \/ far.pvc = "present"
        /\ far' = IF link.linked THEN far ELSE [far EXCEPT !.linked = TRUE]
        /\ link' = [link EXCEPT !.step = "local", !.updated = TRUE]
     \/ ~link.linked /\ far.pvc # "present" /\ link' = Idle /\ UNCHANGED far
  /\ UNCHANGED <<side, claim>>

\* The claim that the volume refers to counts as updated, found or not.
MarkSyncedWhenBound ==
  /\ LinkAt("local")
  /\ link' = Idle
  /\ claim' = IF link.copy.synced \/ link.copy # claim THEN claim
              ELSE [claim EXCEPT !.remotePV = TRUE, !.remotePVC = @ \/ link.bound,
                                 !.synced = link.bound]
  /\ UNCHANGED <<side, far>>

\* processLocalPVC: the links, and that the sync is complete if the remote claim has its
\* own.  Otherwise the reconcile ends as well, and only another event repeats it.
ProcessLocalPVC ==
  /\ LinkAt("local")
  /\ link' = Idle
  /\ claim' = IF link.copy.synced \/ link.copy # claim THEN claim
              ELSE [claim EXCEPT !.remotePV = TRUE, !.remotePVC = @ \/ link.bound,
                                 !.synced = link.updated]
  /\ UNCHANGED <<side, far>>

\* An error of a call, and a restart of the controller.
FailLink == link # Idle /\ link' = Idle /\ UNCHANGED <<side, claim, far>>

-----------------------------------------------------------------------------
(* The rest of the two clusters *)

\* The PV controller of the replication controller, once the volume is protected: it
\* creates the remote volume (module PVSync).  It reserves it with a ClaimRef when the local
\* volume has one: a claim that is bound is named by its volume, for one that is not the
\* provisioner may have done so.  No ClaimRef is added later.
CreateRemotePV ==
  /\ far.pv = "none" /\ pv[Claimed].rg # NoGroup
  /\ \E ref \in BOOLEAN :
       /\ claim.phase # "Pending" => ref
       /\ far' = [far EXCEPT !.pv = "Available", !.ref = ref]
  /\ UNCHANGED <<side, claim, link>>

\* Kubernetes on the remote cluster binds claim and volume, which then has its ClaimRef.
BindRemote ==
  /\ far.pv = "Available" /\ far.pvc = "present"
  /\ far' = [far EXCEPT !.pv = "Bound", !.ref = TRUE]
  /\ UNCHANGED <<side, claim, link>>

\* A user creates the remote claim, without links, or deletes it.
UserRemote ==
  /\ \/ /\ far.pvc = "none" /\ far.pv = "Available"
        /\ far' = [far EXCEPT !.pvc = "present"]
     \/ /\ far.pvc = "present"
        /\ far' = [far EXCEPT !.pvc = "gone", !.pv = IF @ = "Bound" THEN "Released" ELSE @]
  /\ UNCHANGED <<side, claim, link>>

\* The claim is bound; a user may delete it, and it goes when no pod uses it.
ClaimPhase ==
  /\ \/ claim.phase = "Pending" /\ claim' = [claim EXCEPT !.phase = "Bound"]
     \/ claim.phase = "Bound" /\ claim' = [claim EXCEPT !.phase = "deleting"]
     \/ claim.phase = "deleting" /\ claim' = [claim EXCEPT !.phase = "gone"]
  /\ UNCHANGED <<side, link, far>>

SyncGroups ==
  /\ \E g \in groups \ groupsSeen : groupsSeen' = groupsSeen \cup {g}
  /\ UNCHANGED <<pv, groups, flight, vol, prot, claim, link, far>>

-----------------------------------------------------------------------------

VolumeStep(v) ==
  \/ ReconcilePV(v) \/ CreateRemoteVolume(v) \/ FindGroup(v) \/ CreateOnce(v)
  \/ CreateReplicationGroup(v) \/ RereadPV(v) \/ MarkVolume(v) \/ NamesExhausted(v)

ProtectStep ==
  \/ ReconcileClaim \/ ProcessClaimForRemoteVolume \/ RereadClaim \/ ProcessClaimForGroup

LinkStep ==
  \/ ReconcileRemoteClaim \/ GetRemotePV \/ VerifyAndCreateNamespace \/ CreateRemotePVC
  \/ GetRemotePVC \/ ProcessRemotePVC \/ ProcessLocalPVC

Faults ==
  \/ \E v \in Volumes : FailVolume(v)
  \/ FailProtect \/ FailLink \/ RestartSidecar

Next ==
  \/ \E v \in Volumes : VolumeStep(v)
  \/ ProtectStep \/ LinkStep \/ Faults \/ SyncGroups
  \/ CreateRemotePV \/ BindRemote \/ UserRemote \/ ClaimPhase

Spec == Init /\ [][Next]_vars

\* Started reconciles go on and due ones start, the cache follows, and the other
\* controllers do their part; users do nothing they must.
LiveSpec ==
  /\ Spec
  /\ \A v \in Volumes : WF_vars(VolumeStep(v))
  /\ WF_vars(ProtectStep) /\ WF_vars(LinkStep) /\ WF_vars(SyncGroups)
  /\ WF_vars(CreateRemotePV) /\ WF_vars(BindRemote)

-----------------------------------------------------------------------------

\* A volume that is marked as protected has a remote volume and names a replication
\* group that exists, also when its worker shared a creation or used one that others
\* made; and a claim that is marked names the same group as its volume.
ProtectedInGroup ==
  /\ \A v \in Volumes : pv[v].rg # NoGroup => pv[v].remote /\ pv[v].rg \in groups
  /\ claim.protected => claim.rg = pv[Claimed].rg /\ claim.rg \in groups

\* A claim whose sync is complete names its remote volume and claim, and the remote
\* claim has, or had before its deletion, the links back.
SyncMeansLinked ==
  claim.synced => claim.remotePV /\ claim.remotePVC /\ far.pvc # "none" /\ far.linked

\* The sync waits for a user: the remote claim was deleted, or is not the controller's to
\* create, because it may not or because the remote volume was made without a ClaimRef.
Waits ==
  \/ far.pvc = "gone" \/ far.pv = "Released"
  \/ far.pvc = "none" /\ (~far.may \/ (far.pv = "Available" /\ ~far.ref))

\* A fault that is not what the code does without one: a reconcile may also end early to
\* be tried again.
OnlyFault == Faults /\ ~(ProtectStep \/ LinkStep \/ \E v \in Volumes : VolumeStep(v))

\* Once calls stop failing, the sync of a bound claim completes through all three
\* controllers, unless the claim is deleted or the remote claim is left to a user.
ClaimSynced ==
  <>[][~OnlyFault]_vars => (claim.phase = "Bound" ~> claim.synced \/ claim.phase # "Bound" \/ Waits)
=============================================================================
