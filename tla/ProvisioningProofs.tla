------------------------- MODULE ProvisioningProofs -------------------------
(***************************************************************************)
(* What protection and sync say of a volume and of its claim is true, for  *)
(* any number of volumes and of replication groups.                        *)
(***************************************************************************)
EXTENDS Provisioning, TLAPS

Group == Names \cup {NoGroup}

\* A volume's annotations, and a claim.
Annotations == [remote : BOOLEAN, rg : Group]

ClaimObject ==
  [phase : {"Pending", "Bound", "deleting", "gone"}, remote : BOOLEAN, rg : Group,
   protected : BOOLEAN, remotePV : BOOLEAN, remotePVC : BOOLEAN, synced : BOOLEAN]

\* The workers of the three controllers.
VolumeWorker ==
  [step : {"remote", "group", "once", "create", "wait", "mark"}, copy : Annotations,
   reread : BOOLEAN, rg : Group]

ProtectWorker ==
  [step : {"remote", "reread", "group"}, copy : ClaimObject, volume : Annotations]

LinkWorker ==
  [step : {"volume", "namespace", "create", "claim", "remote", "local"}, copy : ClaimObject,
   bound : BOOLEAN, linked : BOOLEAN, updated : BOOLEAN]

VolumeTypes ==
  /\ pv \in [Volumes -> Annotations]
  /\ groups \subseteq Names /\ groupsSeen \subseteq groups /\ flight \subseteq Volumes
  /\ vol \in [Volumes -> VolumeWorker \cup {Idle}]

ClaimTypes ==
  /\ claim \in ClaimObject
  /\ prot \in ProtectWorker \cup {Idle}

LinkTypes ==
  /\ link \in LinkWorker \cup {Idle}
  /\ far \in [may : BOOLEAN, pv : {"none", "Available", "Bound", "Released"},
              ref : BOOLEAN, pvc : {"none", "present", "gone"}, linked : BOOLEAN]

\* What a volume and its worker know of each other and of the groups.
VolumeInv(v) ==
  /\ pv[v].rg # NoGroup => pv[v].remote /\ pv[v].rg \in groups
  /\ vol[v] # Idle => pv[v].rg = NoGroup
  /\ vol[v] # Idle /\ vol[v].step # "remote" => pv[v].remote
  /\ VolAt(v, "mark") => vol[v].rg \in groups
  /\ v \in flight => VolAt(v, "create") \/ VolAt(v, "wait")

\* The volume that the claim's worker read may be old, but a group in it is final.
ClaimInv ==
  /\ claim.protected => claim.rg = pv[Claimed].rg /\ claim.rg \in groups
  /\ prot # Idle => prot.volume.rg \in {NoGroup, pv[Claimed].rg}

\* What the controller's worker has seen or done of the remote claim.
LinkInv ==
  /\ LinkAt("claim") \/ LinkAt("remote") => link.bound
  /\ LinkAt("remote") => far.pvc # "none"
  /\ link # Idle => (link.linked => far.linked)
  /\ link # Idle => (link.updated => /\ link.step = "local" /\ link.bound
                                     /\ far.linked /\ far.pvc # "none")

ProtectInv == VolumeTypes /\ ClaimTypes /\ (\A v \in Volumes : VolumeInv(v)) /\ ClaimInv

SyncInv == ClaimTypes /\ LinkTypes /\ LinkInv /\ SyncMeansLinked

-----------------------------------------------------------------------------
\* A step of the volume workers keeps what the volumes, their workers and the groups
\* know of each other; no group that a volume has is replaced.
LEMMA VolumeStepKeeps ==
  ASSUME VolumeTypes, \A v \in Volumes : VolumeInv(v), NEW w \in Volumes,
         VolumeStep(w) \/ FailVolume(w)
  PROVE  /\ VolumeTypes' /\ \A v \in Volumes : VolumeInv(v)'
         /\ groups \subseteq groups'
         /\ \A v \in Volumes : pv[v].rg # NoGroup => pv'[v].rg = pv[v].rg
<1> USE NamesAssumption
<1>0. VolumeInv(w) /\ pv[w] \in Annotations /\ vol[w] \in VolumeWorker \cup {Idle}
  BY DEF VolumeTypes
<1>1. CASE ReconcilePV(w)
  <2>1. VolumeTypes'
    BY <1>0, <1>1 DEF ReconcilePV, VolumeTypes, VolumeWorker, Annotations, rgs, Group
  <2>2. \A v \in Volumes : VolumeInv(v)'
    BY <1>0, <1>1 DEF ReconcilePV, VolumeTypes, VolumeInv, VolAt, rgs, Idle
  <2> QED
    BY <1>1, <2>1, <2>2 DEF ReconcilePV, rgs
<1>2. CASE CreateRemoteVolume(w)
  <2>0. vol[w] \in VolumeWorker
    BY <1>0, <1>2 DEF CreateRemoteVolume, VolAt
  <2>1. VolumeTypes'
    <3>1. [pv[w] EXCEPT !.remote = TRUE] \in Annotations
      BY <1>0, ZenonT(60) DEF Annotations
    <3>2. [[vol[w] EXCEPT !.step = "group"] EXCEPT !.reread = TRUE] \in VolumeWorker
      BY <2>0, ZenonT(60) DEF VolumeWorker
    <3> QED
      BY <1>2, <3>1, <3>2, ZenonT(60) DEF CreateRemoteVolume, EndVolume, VolumeTypes, rgs
  <2>2. \A v \in Volumes : VolumeInv(v)'
    <3>0. UNCHANGED <<groups, flight>> /\ vol[w] # Idle /\ vol[w].step = "remote"
      BY <1>2, ZenonT(60) DEF CreateRemoteVolume, VolAt, rgs
    <3>1. \A v \in Volumes : v # w => pv'[v] = pv[v] /\ vol'[v] = vol[v]
      BY <1>2 DEF CreateRemoteVolume, EndVolume, VolumeTypes
    <3>2. CASE EndVolume(w) /\ UNCHANGED pv
      BY <1>0, <3>0, <3>2 DEF EndVolume, VolumeTypes, VolumeInv, VolAt, Idle
    <3>3. CASE /\ pv' = [pv EXCEPT ![w].remote = TRUE]
               /\ vol' = [vol EXCEPT ![w].step = "group", ![w].reread = TRUE]
      BY <1>0, <2>0, <3>0, <3>3
      DEF VolumeTypes, VolumeInv, VolumeWorker, Annotations, VolAt
    <3>4. VolumeInv(w)'
      BY <1>2, <3>2, <3>3, ZenonT(60) DEF CreateRemoteVolume
    <3>5. ASSUME NEW v \in Volumes, v # w PROVE VolumeInv(v)'
      <4>1. VolumeInv(v) /\ pv'[v] = pv[v] /\ vol'[v] = vol[v]
        BY <3>1, <3>5, ZenonT(60)
      <4> QED
        BY <3>0, <4>1, ZenonT(60) DEF VolumeInv, VolAt
    <3> QED
      BY <3>4, <3>5, ZenonT(60)
  <2> QED
    BY <1>0, <1>2, <2>1, <2>2 DEF CreateRemoteVolume, rgs, VolumeTypes, Annotations
<1>3. CASE FindGroup(w)
  <2>1. VolumeTypes'
    BY <1>0, <1>3 DEF FindGroup, VolAt, VolumeTypes, VolumeWorker, rgs, Group
  <2>2. \A v \in Volumes : VolumeInv(v)'
    BY <1>0, <1>3 DEF FindGroup, VolumeTypes, VolumeInv, VolumeWorker, VolAt, rgs, Idle
  <2> QED
    BY <1>3, <2>1, <2>2 DEF FindGroup, rgs
<1>4. CASE CreateOnce(w)
  <2>1. VolumeTypes'
    BY <1>0, <1>4 DEF CreateOnce, VolAt, VolumeTypes, VolumeWorker
  <2>2. \A v \in Volumes : VolumeInv(v)'
    BY <1>0, <1>4 DEF CreateOnce, VolumeTypes, VolumeInv, VolumeWorker, VolAt, Idle
  <2> QED
    BY <1>4, <2>1, <2>2 DEF CreateOnce
<1>5. CASE CreateReplicationGroup(w)
  <2>1. PICK g \in Names \ groups : Share(g) /\ groups' = groups \cup {g}
    BY <1>5 DEF CreateReplicationGroup
  <2>2. \A v \in flight : /\ vol[v] \in VolumeWorker /\ vol[v].step # "remote" /\ vol[v] # Idle
                          /\ [vol[v] EXCEPT !.step = "mark", !.rg = g] \in VolumeWorker
    BY <1>0, ZenonT(60) DEF VolumeTypes, VolumeWorker, VolumeInv, VolAt, Group
  <2>3. VolumeTypes'
    BY <1>5, <2>1, <2>2, ZenonT(60) DEF CreateReplicationGroup, Share, VolumeTypes
  <2>4. ASSUME NEW v \in Volumes PROVE VolumeInv(v)'
    <3>1. /\ v \in flight => vol'[v].step = "mark" /\ vol'[v].rg = g
          /\ v \notin flight => vol'[v] = vol[v]
          /\ pv' = pv /\ groups' = groups \cup {g} /\ flight' = {}
      BY <1>5, <2>1, <2>2, ZenonT(60) DEF CreateReplicationGroup, Share, VolumeWorker
    <3> QED
      BY <2>2, <3>1, ZenonT(60) DEF VolumeInv, VolAt, Idle
  <2> QED
    BY <1>5, <2>1, <2>3, <2>4 DEF CreateReplicationGroup
<1>6. CASE RereadPV(w)
  <2>1. VolumeTypes'
    BY <1>0, <1>6 DEF RereadPV, VolAt, VolumeTypes, VolumeWorker, rgs
  <2>2. \A v \in Volumes : VolumeInv(v)'
    BY <1>0, <1>6 DEF RereadPV, VolumeTypes, VolumeInv, VolumeWorker, VolAt, rgs, Idle
  <2> QED
    BY <1>6, <2>1, <2>2 DEF RereadPV, rgs
<1>7. CASE MarkVolume(w)
  <2>1. VolumeTypes'
    BY <1>0, <1>7 DEF MarkVolume, EndVolume, VolAt, VolumeTypes, VolumeWorker, Annotations, rgs
  <2>2. \A v \in Volumes : VolumeInv(v)'
    BY <1>0, <1>7
    DEF MarkVolume, EndVolume, VolumeTypes, VolumeInv, VolumeWorker, Annotations, VolAt, rgs, Idle
  <2> QED
    BY <1>0, <1>7, <2>1, <2>2, SMTT(60)
       DEF MarkVolume, VolAt, VolumeInv, VolumeTypes, Annotations, rgs
<1>8. CASE FailVolume(w)
  <2>1. VolumeTypes'
    BY <1>0, <1>8 DEF FailVolume, VolumeTypes
  <2>2. \A v \in Volumes : VolumeInv(v)'
    BY <1>0, <1>8 DEF FailVolume, VolumeTypes, VolumeInv, VolAt, Idle
  <2> QED
    BY <1>8, <2>1, <2>2 DEF FailVolume
<1> QED
  BY <1>1, <1>2, <1>3, <1>4, <1>5, <1>6, <1>7, <1>8 DEF VolumeStep, NamesExhausted

\* So do the steps of the claim's worker, which ends with the group of its volume.
LEMMA ProtectStepKeeps ==
  ASSUME ProtectInv, ProtectStep \/ FailProtect
  PROVE  ClaimTypes' /\ ClaimInv'
<1> USE NamesAssumption
<1>0. /\ ClaimTypes /\ ClaimInv /\ VolumeInv(Claimed) /\ pv[Claimed] \in Annotations
      /\ prot \in ProtectWorker \cup {Idle} /\ claim \in ClaimObject
  BY DEF ProtectInv, ClaimTypes, VolumeTypes
<1>1. CASE ReconcileClaim
  BY <1>0, <1>1 DEF ReconcileClaim, ClaimTypes, ClaimInv, ProtectWorker, rgs
<1>2. CASE ProcessClaimForRemoteVolume
  <2>1. prot \in ProtectWorker /\ prot # Idle
    BY <1>0, <1>2 DEF ProcessClaimForRemoteVolume, ProtAt
  <2>2. ClaimTypes'
    BY <1>0, <1>2, <2>1, ZenonT(60)
       DEF ProcessClaimForRemoteVolume, ClaimTypes, ProtectWorker, ClaimObject
  <2>3. ClaimInv'
    BY <1>0, <1>2, <2>1 DEF ProcessClaimForRemoteVolume, ClaimInv, ProtectWorker, ClaimObject, rgs
  <2> QED
    BY <2>2, <2>3
<1>3. CASE RereadClaim
  <2>1. prot \in ProtectWorker /\ prot # Idle
    BY <1>0, <1>3 DEF RereadClaim, ProtAt
  <2>2. ClaimTypes' /\ ClaimInv'
    BY <1>0, <1>3, <2>1, ZenonT(60) DEF RereadClaim, ClaimTypes, ClaimInv, ProtectWorker, rgs
  <2> QED
    BY <2>2
<1>4. CASE ProcessClaimForGroup
  <2>1. prot \in ProtectWorker /\ prot # Idle
    BY <1>0, <1>4 DEF ProcessClaimForGroup, ProtAt
  <2>2. ClaimTypes'
    BY <1>0, <1>4, <2>1, ZenonT(60)
    DEF ProcessClaimForGroup, ClaimTypes, ProtectWorker, ClaimObject, Annotations
  <2>3. ClaimInv'
    BY <1>0, <1>4, <2>1 DEF ProcessClaimForGroup, ClaimInv, VolumeInv, ClaimObject, rgs
  <2> QED
    BY <2>2, <2>3
<1>5. CASE FailProtect
  BY <1>0, <1>5 DEF FailProtect, ClaimTypes, ClaimInv, rgs
<1> QED
  BY <1>1, <1>2, <1>3, <1>4, <1>5 DEF ProtectStep

\* What the steps outside the sidecar do to the claim leaves its protection alone.
LEMMA ClaimKeeps ==
  ASSUME claim \in ClaimObject, LinkTypes,
         LinkStep \/ FailLink \/ CreateRemotePV \/ BindRemote \/ UserRemote \/ ClaimPhase
  PROVE  /\ UNCHANGED side /\ claim' \in ClaimObject
         /\ claim'.protected = claim.protected /\ claim'.rg = claim.rg
<1>1. CASE ProcessLocalPVC
  <2>1. link \in LinkWorker
    BY <1>1 DEF ProcessLocalPVC, LinkAt, LinkTypes
  <2> QED
    BY <1>1, <2>1, ZenonT(60) DEF ProcessLocalPVC, ClaimObject, LinkWorker
<1>2. CASE ClaimPhase
  BY <1>2 DEF ClaimPhase, ClaimObject
<1> QED
  BY <1>1, <1>2, ZenonT(60) DEF LinkStep, FailLink, CreateRemotePV, BindRemote, UserRemote,
       ReconcileRemoteClaim, GetRemotePV, VerifyAndCreateNamespace, CreateRemotePVC,
       GetRemotePVC, ProcessRemotePVC

\* The steps of the controller's worker, of users and of the remote cluster keep what the
\* worker knows of the remote claim; so does whatever the sidecar does to the local one.
LEMMA LinkKeeps ==
  ASSUME SyncInv, claim' \in ClaimObject,
         \/ LinkStep \/ FailLink \/ CreateRemotePV \/ BindRemote \/ UserRemote
         \/ /\ UNCHANGED <<link, far>> /\ claim'.synced = claim.synced
            /\ claim'.remotePV = claim.remotePV /\ claim'.remotePVC = claim.remotePVC
  PROVE  LinkTypes' /\ LinkInv' /\ SyncMeansLinked'
<1>0. /\ LinkTypes /\ LinkInv /\ SyncMeansLinked
      /\ link \in LinkWorker \cup {Idle} /\ claim \in ClaimObject
  BY DEF SyncInv, LinkTypes, ClaimTypes
<1>w. \A step : LinkAt(step) => link \in LinkWorker
  BY <1>0 DEF LinkAt
<1>1. CASE ReconcileRemoteClaim
  BY <1>0, <1>1 DEF ReconcileRemoteClaim, LinkTypes, LinkInv, LinkAt, LinkWorker, SyncMeansLinked
<1>2. CASE GetRemotePV
  <2>0. link \in LinkWorker /\ link # Idle
    BY <1>w, <1>2 DEF GetRemotePV, LinkAt
  <2>1. CASE link' = Idle
    BY <1>0, <1>2, <2>1 DEF GetRemotePV, LinkTypes, LinkInv, LinkAt, SyncMeansLinked
  <2>2. CASE link' # Idle
    <3>1. PICK step \in {"namespace", "claim", "local"} :
            /\ link' = [link EXCEPT !.bound = (far.pv = "Bound"), !.step = step]
            /\ step = "claim" => far.pv = "Bound"
      BY <1>2, <2>2, ZenonT(60) DEF GetRemotePV
    <3>2. /\ link' \in LinkWorker /\ link'.step # "remote" /\ link'.linked = link.linked
          /\ link'.updated = link.updated /\ UNCHANGED <<claim, far>>
          /\ link'.step = "claim" => link'.bound
          /\ ~link.updated
      BY <1>0, <1>2, <2>0, <3>1, ZenonT(60) DEF GetRemotePV, LinkWorker, LinkAt, LinkInv
    <3> QED
      BY <1>0, <2>0, <3>2 DEF LinkTypes, LinkInv, LinkAt, SyncMeansLinked
  <2> QED
    BY <2>1, <2>2
<1>3. CASE VerifyAndCreateNamespace
  BY <1>0, <1>w, <1>3
  DEF VerifyAndCreateNamespace, LinkTypes, LinkInv, LinkAt, LinkWorker, SyncMeansLinked
<1>4. CASE CreateRemotePVC
  BY <1>0, <1>w, <1>4, ZenonT(60)
     DEF CreateRemotePVC, LinkTypes, LinkInv, LinkAt, LinkWorker, SyncMeansLinked
<1>5. CASE GetRemotePVC
  BY <1>0, <1>w, <1>5, ZenonT(60)
     DEF GetRemotePVC, LinkTypes, LinkInv, LinkAt, LinkWorker, SyncMeansLinked
<1>6. CASE ProcessRemotePVC
  <2>0. link \in LinkWorker /\ LinkAt("remote")
    BY <1>w, <1>6 DEF ProcessRemotePVC
  <2>1. CASE link' = Idle /\ UNCHANGED <<claim, far>>
    BY <1>0, <2>1 DEF LinkTypes, LinkInv, LinkAt, SyncMeansLinked
  <2>2. CASE /\ far' = IF link.linked THEN far ELSE [far EXCEPT !.linked = TRUE]
             /\ link' = [link EXCEPT !.step = "local", !.updated = TRUE]
             /\ UNCHANGED claim
    <3>1. link' \in LinkWorker /\ ~LinkAt("remote")' /\ ~LinkAt("claim")'
      BY <2>0, <2>2, ZenonT(60) DEF LinkWorker, LinkAt
    <3>2. far' \in [may : BOOLEAN, pv : {"none", "Available", "Bound", "Released"},
                    ref : BOOLEAN, pvc : {"none", "present", "gone"}, linked : BOOLEAN]
      BY <1>0, <2>2, ZenonT(60) DEF LinkTypes
    <3>3. far'.linked /\ far'.pvc = far.pvc
      BY <1>0, <2>0, <2>2 DEF LinkTypes, LinkInv, LinkAt, LinkWorker
    <3> QED
      BY <1>0, <2>0, <2>2, <3>1, <3>2, <3>3
      DEF LinkTypes, LinkInv, LinkAt, LinkWorker, SyncMeansLinked
  <2> QED
    BY <1>6, <2>1, <2>2, ZenonT(60) DEF ProcessRemotePVC, side
<1>7. CASE ProcessLocalPVC
  BY <1>0, <1>w, <1>7
  DEF ProcessLocalPVC, LinkTypes, LinkInv, LinkAt, LinkWorker, ClaimObject, SyncMeansLinked
<1>8. CASE FailLink
  BY <1>0, <1>8 DEF FailLink, LinkTypes, LinkInv, LinkAt, SyncMeansLinked
<1>9. CASE CreateRemotePV \/ BindRemote \/ UserRemote
  BY <1>0, <1>9, ZenonT(60)
  DEF CreateRemotePV, BindRemote, UserRemote, LinkTypes, LinkInv, LinkAt, SyncMeansLinked
<1>10. CASE UNCHANGED <<link, far>> /\ claim'.synced = claim.synced
            /\ claim'.remotePV = claim.remotePV /\ claim'.remotePVC = claim.remotePVC
  BY <1>0, <1>10 DEF LinkTypes, LinkInv, LinkAt, SyncMeansLinked
<1> QED
  BY <1>1, <1>2, <1>3, <1>4, <1>5, <1>6, <1>7, <1>8, <1>9, <1>10 DEF LinkStep

-----------------------------------------------------------------------------
\* Every step keeps both invariants; they need each other only for the types.
LEMMA InductiveStep == ProtectInv /\ SyncInv /\ [Next]_vars => ProtectInv' /\ SyncInv'
<1> SUFFICES ASSUME ProtectInv, SyncInv, [Next]_vars PROVE ProtectInv' /\ SyncInv'
  OBVIOUS
<1> USE NamesAssumption
<1>0. /\ VolumeTypes /\ ClaimTypes /\ LinkTypes /\ ClaimInv /\ claim \in ClaimObject
      /\ \A v \in Volumes : VolumeInv(v)
  BY DEF ProtectInv, SyncInv, ClaimTypes
<1>1. ASSUME NEW w \in Volumes, VolumeStep(w) \/ FailVolume(w) PROVE ProtectInv' /\ SyncInv'
  <2>1. UNCHANGED <<prot, claim, link, far>>
    BY <1>1 DEF VolumeStep, ReconcilePV, CreateRemoteVolume, FindGroup, CreateOnce,
         CreateReplicationGroup, RereadPV, MarkVolume, NamesExhausted, FailVolume
  <2>2. /\ VolumeTypes' /\ \A v \in Volumes : VolumeInv(v)'
        /\ groups \subseteq groups'
        /\ pv[Claimed].rg # NoGroup => pv'[Claimed].rg = pv[Claimed].rg
    BY <1>0, <1>1, VolumeStepKeeps
  <2>3. ClaimTypes' /\ ClaimInv'
    BY <1>0, <2>1, <2>2 DEF ClaimTypes, ClaimInv, VolumeTypes
  <2> QED
    BY <1>0, <2>1, <2>2, <2>3, LinkKeeps DEF ProtectInv, SyncInv
<1>2. CASE ProtectStep \/ FailProtect
  <2>1. ClaimTypes' /\ ClaimInv'
    BY <1>2, ProtectStepKeeps
  <2>2. UNCHANGED <<pv, groups, groupsSeen, flight, vol, link, far>>
    BY <1>2 DEF ProtectStep, FailProtect, ReconcileClaim, ProcessClaimForRemoteVolume,
         RereadClaim, ProcessClaimForGroup, rgs
  <2>3. /\ claim'.synced = claim.synced /\ claim'.remotePV = claim.remotePV
        /\ claim'.remotePVC = claim.remotePVC
    BY <1>0, <1>2, ZenonT(60)
       DEF ProtectStep, FailProtect, ReconcileClaim, ProcessClaimForRemoteVolume,
         RereadClaim, ProcessClaimForGroup, ClaimObject
  <2>4. LinkTypes' /\ LinkInv' /\ SyncMeansLinked'
    BY <2>1, <2>2, <2>3, LinkKeeps DEF ClaimTypes
  <2>5. VolumeTypes' /\ \A v \in Volumes : VolumeInv(v)'
    BY <1>0, <2>2 DEF VolumeTypes, VolumeInv, VolAt
  <2> QED
    BY <2>1, <2>4, <2>5 DEF ProtectInv, SyncInv
<1>3. CASE LinkStep \/ FailLink \/ CreateRemotePV \/ BindRemote \/ UserRemote \/ ClaimPhase
  <2>1. /\ UNCHANGED side /\ claim' \in ClaimObject
        /\ claim'.protected = claim.protected /\ claim'.rg = claim.rg
    BY <1>0, <1>3, ClaimKeeps
  <2>2. VolumeTypes' /\ (\A v \in Volumes : VolumeInv(v)') /\ ClaimTypes' /\ ClaimInv'
    BY <1>0, <2>1 DEF side, rgs, VolumeTypes, VolumeInv, VolAt, ClaimTypes, ClaimInv
  <2>3. ClaimPhase => /\ UNCHANGED <<link, far>> /\ claim'.synced = claim.synced
                      /\ claim'.remotePV = claim.remotePV /\ claim'.remotePVC = claim.remotePVC
    BY <1>0 DEF ClaimPhase, ClaimObject
  <2>4. LinkTypes' /\ LinkInv' /\ SyncMeansLinked'
    BY <1>3, <2>1, <2>3, LinkKeeps
  <2> QED
    BY <2>2, <2>4 DEF ProtectInv, SyncInv
<1>4. CASE RestartSidecar \/ SyncGroups \/ UNCHANGED vars
  <2>1. UNCHANGED <<pv, groups, claim, link, far>> /\ groupsSeen' \subseteq groups
    BY <1>0, <1>4 DEF RestartSidecar, SyncGroups, vars, side, rgs, VolumeTypes
  <2>2. \/ vol' = [v \in Volumes |-> Idle] /\ flight' = {} /\ prot' = Idle
        \/ UNCHANGED <<vol, flight, prot>>
    BY <1>4 DEF RestartSidecar, SyncGroups, vars, side, rgs
  <2>3. VolumeTypes' /\ (\A v \in Volumes : VolumeInv(v)') /\ ClaimTypes' /\ ClaimInv'
    BY <1>0, <2>1, <2>2 DEF VolumeTypes, VolumeInv, VolAt, ClaimTypes, ClaimInv
  <2>4. LinkTypes' /\ LinkInv' /\ SyncMeansLinked'
    BY <1>0, <2>1, LinkKeeps
  <2> QED
    BY <2>3, <2>4 DEF ProtectInv, SyncInv
<1> QED
  BY <1>1, <1>2, <1>3, <1>4 DEF Next, Faults

\* So both hold in every state that the controllers reach.
LEMMA Inductive == Spec => [](ProtectInv /\ SyncInv)
<1>1. Init => ProtectInv /\ SyncInv
  BY NamesAssumption, SMTT(60) DEF Init, ProtectInv, SyncInv, VolumeTypes, ClaimTypes, LinkTypes,
    VolumeInv, ClaimInv, LinkInv, SyncMeansLinked, VolAt, LinkAt, Annotations, ClaimObject,
    Group, Idle
<1> QED
  BY <1>1, InductiveStep, PTL DEF Spec

\* Whichever worker marks a volume, the volume has a remote volume and is in a
\* replication group that exists, also when the group comes from another worker's
\* creation or from an old list; and a claim that is marked as protected is in the same
\* group (processVolumeForReplicationGroup, processClaimForReplicationGroup).
THEOREM Protected == Spec => []ProtectedInGroup
<1>1. ProtectInv => ProtectedInGroup
  BY SMTT(60) DEF ProtectInv, VolumeInv, ClaimInv, ProtectedInGroup
<1> QED
  BY <1>1, Inductive, PTL

\* A claim whose sync is complete has its links, and so has the remote claim, whatever
\* users do to that between the reads and the writes of the controller
\* (processRemotePVC, processLocalPVC).
THEOREM SyncedLinked == Spec => []SyncMeansLinked
<1>1. SyncInv => SyncMeansLinked
  BY DEF SyncInv
<1> QED
  BY <1>1, Inductive, PTL

\* What no step of any controller does: move a volume that is in a replication group to
\* another one.
GroupKept == \A v \in Volumes : pv[v].rg # NoGroup => pv'[v].rg = pv[v].rg

\* A volume that was put into a replication group stays in it, although workers that
\* shared one creation, found different groups or were interrupted all write the
\* annotation (processVolumeForReplicationGroup).
THEOREM GroupFinal == Spec => [][GroupKept]_vars
<1>1. ProtectInv /\ SyncInv /\ [Next]_vars => [GroupKept]_vars
  <2> SUFFICES ASSUME ProtectInv, SyncInv, [Next]_vars PROVE GroupKept
    OBVIOUS
  <2>0. VolumeTypes /\ (\A v \in Volumes : VolumeInv(v)) /\ claim \in ClaimObject /\ LinkTypes
    BY DEF ProtectInv, SyncInv, ClaimTypes
  <2>1. ASSUME NEW w \in Volumes, VolumeStep(w) \/ FailVolume(w) PROVE GroupKept
    BY <2>0, <2>1, VolumeStepKeeps, ZenonT(60) DEF GroupKept
  <2>2. CASE ProtectStep \/ FailProtect
    BY <2>2 DEF ProtectStep, FailProtect, ReconcileClaim, ProcessClaimForRemoteVolume,
         RereadClaim, ProcessClaimForGroup, GroupKept
  <2>3. CASE LinkStep \/ FailLink \/ CreateRemotePV \/ BindRemote \/ UserRemote \/ ClaimPhase
    BY <2>0, <2>3, ClaimKeeps DEF side, GroupKept
  <2>4. CASE RestartSidecar \/ SyncGroups \/ UNCHANGED vars
    BY <2>4 DEF RestartSidecar, SyncGroups, vars, side, GroupKept
  <2> QED
    BY <2>1, <2>2, <2>3, <2>4 DEF Next, Faults
<1> QED
  BY <1>1, Inductive, PTL DEF Spec
=============================================================================
