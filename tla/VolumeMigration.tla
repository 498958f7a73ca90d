-------------------------- MODULE VolumeMigration --------------------------
(***************************************************************************)
(* Migration of volumes to another storage class.  A user annotates PVs    *)
(* with "repctl migrate pv|pvc|sts"; the PV controller of csi-migrator has *)
(* the driver migrate each of them, creates the migrated PV and retains    *)
(* the original.  "migrate sts --ndu" then re-creates the StatefulSet and  *)
(* recycles its pods with their claims.  v names the pod, the claim and    *)
(* the PV of one replica; what comes after them is not told apart.         *)
(***************************************************************************)
EXTENDS Naturals, FiniteSets

CONSTANTS
  Volumes,        \* the replicas of the StatefulSet, also those to come
  MaxCommands     \* bound: repctl commands

VARIABLES
  pv,        \* original PVs: phase, reclaim policy, MigrationRequested annotation
  mig,       \* the PVs "<pv>-to-<class>"
  data,      \* backend volumes that hold the data: the source, the migrated one
  claim,     \* claims; "other" is a new claim, which is on a new volume
  pod,       \* pods and whether the StatefulSet owns them
  sts,       \* the StatefulSet
  rec,       \* per PV: step of its reconcile in csi-migrator
  fresh,     \* per PV: the copy that the reconcile read is current
  cmd,       \* the running repctl command
  go,        \* per PV: the goroutine migratePV
  count,     \* commands so far
  recycled   \* history: listed volumes whose claims a command deleted

objects == <<pv, mig, data, claim, pod, sts>>
migrator == <<rec, fresh>>
repctl == <<cmd, go, count, recycled>>
vars == <<objects, migrator, repctl>>

\* No command is running.
Idle == [step |-> "idle"]

\* Some replicas are up; the others have no PV yet.
Init ==
  /\ \E up \in SUBSET Volumes, policy \in {"Delete", "Retain"} :
       /\ pv = [v \in Volumes |-> [phase  |-> IF v \in up THEN "bound" ELSE "none",
                                  policy |-> policy, req |-> "no"]]
       /\ data = [v \in Volumes |-> IF v \in up THEN {"src"} ELSE {}]
       /\ claim = [v \in Volumes |-> IF v \in up THEN "bound" ELSE "none"]
       /\ pod = [v \in Volumes |-> [st    |-> IF v \in up THEN "running" ELSE "none",
                                   owned |-> v \in up]]
  /\ mig \in [Volumes -> {"none", "foreign"}]
  /\ sts = "present"
  /\ rec = [v \in Volumes |-> "idle"]
  /\ fresh = [v \in Volumes |-> FALSE]
  /\ cmd = Idle
  /\ go = [v \in Volumes |-> "none"]
  /\ count = 0
  /\ recycled = {}

\* A write of the PV makes every copy of it stale.
SetPV(v, obj) ==
  /\ pv' = [pv EXCEPT ![v] = obj]
  /\ fresh' = [fresh EXCEPT ![v] = FALSE]

-----------------------------------------------------------------------------
(* The PV controller of csi-migrator *)

\* A reconcile of an annotated PV starts.  A class that does not exist, or is the
\* class of the PV itself, ends it without an error and without a retry.
ReconcilePV(v) ==
  /\ rec[v] = "idle"
  /\ pv[v].phase \in {"bound", "released"} /\ pv[v].req = "valid"
  /\ rec' = [rec EXCEPT ![v] = "migrate"]
  /\ fresh' = [fresh EXCEPT ![v] = TRUE]
  /\ UNCHANGED <<objects, repctl>>

\* The driver migrates the volume; a repetition finds the migrated volume.
VolumeMigrate(v) ==
  /\ rec[v] = "migrate"
  /\ data[v] # {}
  /\ data' = [data EXCEPT ![v] = @ \cup {"dst"}]
  /\ rec' = [rec EXCEPT ![v] = "create"]
  /\ UNCHANGED <<pv, mig, claim, pod, sts, fresh, repctl>>

\* The migrated PV is created without a look at the one that may exist.
CreateAlways(v) ==
  /\ rec[v] = "create"
  /\ mig[v] = "none"
  /\ mig' = [mig EXCEPT ![v] = "made"]
  /\ rec' = [rec EXCEPT ![v] = "update"]
  /\ UNCHANGED <<pv, data, claim, pod, sts, fresh, repctl>>

\* The migrated PV is created unless there is one with the migrator's annotation;
\* a PV of somebody else under its name makes the creation fail (Refuse).
CreateMigratedPV(v) ==
  /\ rec[v] = "create"
  /\ mig[v] # "foreign"
  /\ mig' = [mig EXCEPT ![v] = "made"]
  /\ rec' = [rec EXCEPT ![v] = "update"]
  /\ UNCHANGED <<pv, data, claim, pod, sts, fresh, repctl>>

\* The original is retained and the request removed, if the copy is current.
UpdatePV(v) ==
  /\ rec[v] = "update"
  /\ fresh[v]
  /\ SetPV(v, [pv[v] EXCEPT !.policy = "Retain", !.req = "no"])
  /\ rec' = [rec EXCEPT ![v] = "idle"]
  /\ UNCHANGED <<mig, data, claim, pod, sts, repctl>>

EndReconcile(v) ==
  /\ rec' = [rec EXCEPT ![v] = "idle"]
  /\ fresh' = [fresh EXCEPT ![v] = FALSE]
  /\ UNCHANGED <<objects, repctl>>

\* The errors that the objects leave no way around: nothing to migrate, a name that
\* is taken, a conflict.  The request is queued again.
Refuse(v) ==
  /\ \/ rec[v] = "migrate" /\ data[v] = {}
     \/ rec[v] = "create" /\ mig[v] = "foreign"
     \/ rec[v] = "update" /\ ~fresh[v]
  /\ EndReconcile(v)

\* Any other error, and a restart of csi-migrator: the PV is reconciled again.
Fail(v) == rec[v] # "idle" /\ EndReconcile(v)

Reconcile(v) ==
  \/ ReconcilePV(v) \/ VolumeMigrate(v) \/ CreateMigratedPV(v) \/ UpdatePV(v) \/ Refuse(v)

-----------------------------------------------------------------------------
(* repctl migrate *)

Exists(v) == pv[v].phase \in {"bound", "released"}

Start(vols, wait, ndu, class) ==
  /\ cmd = Idle
  /\ count < MaxCommands
  /\ count' = count + 1
  /\ cmd' = [step |-> "migrate", wait |-> wait, ndu |-> ndu, class |-> class,
             vols |-> vols, pods |-> {}, cur |-> {}]
  /\ go' = [v \in Volumes |-> IF v \in vols THEN "annotate" ELSE "none"]
  /\ UNCHANGED <<objects, migrator, recycled>>

\* "migrate pv", and "migrate pvc" of the claim that names the PV.
MigratePVCommand ==
  \E v \in Volumes, wait \in BOOLEAN, class \in {"valid", "bad"} :
    Exists(v) /\ Start({v}, wait, FALSE, class)

HasPod(v) == pod[v].st \in {"running", "terminating"}

\* The pods that an owner reference names as pods of the StatefulSet.
FilterPods == {v \in Volumes : HasPod(v) /\ pod[v].owned}

\* "migrate sts" takes the volumes of the claims of the listed pods.
MigrateSTSCommand ==
  /\ sts # "absent"
  /\ \E wait, ndu \in BOOLEAN, class \in {"valid", "bad"} :
       Start({v \in FilterPods : claim[v] \in {"bound", "terminating"}}, wait, ndu, class)

\* migratePV without the wait that --ndu implies.
MigratePVNoWait(v) ==
  /\ cmd # Idle /\ go[v] = "annotate"
  /\ Exists(v)
  /\ SetPV(v, [pv[v] EXCEPT !.req = cmd.class])
  /\ go' = [go EXCEPT ![v] = IF cmd.wait THEN "wait" ELSE "done"]
  /\ UNCHANGED <<mig, data, claim, pod, sts, rec, cmd, count, recycled>>

\* migratePV reads the PV and writes the annotation.
MigratePV(v) ==
  /\ cmd # Idle /\ go[v] = "annotate"
  /\ Exists(v)
  /\ SetPV(v, [pv[v] EXCEPT !.req = cmd.class])
  /\ go' = [go EXCEPT ![v] = IF cmd.wait \/ cmd.ndu THEN "wait" ELSE "done"]
  /\ UNCHANGED <<mig, data, claim, pod, sts, rec, cmd, count, recycled>>

\* A PV with the name of the migrated one is available or bound.  The timeout is
\* started again with every tick, so it never ends the wait.
WaitForPVToBeBound(v) ==
  /\ cmd # Idle /\ go[v] = "wait"
  /\ cmd.class = "valid" /\ mig[v] # "none"
  /\ go' = [go EXCEPT ![v] = "done"]
  /\ UNCHANGED <<objects, migrator, cmd, count, recycled>>

\* The command ends, also when an error, os.Exit or the user ends it anywhere.
Exit ==
  /\ cmd # Idle
  /\ cmd' = Idle
  /\ go' = [v \in Volumes |-> "none"]
  /\ UNCHANGED <<objects, migrator, count, recycled>>

AtStep(step) == cmd # Idle /\ cmd.step = step

\* recreateStsNdu, once every goroutine is done: the StatefulSet is deleted, and its
\* pods are orphaned by the garbage collector; a single replica is refused.
DeleteStsOrphan ==
  /\ AtStep("migrate") /\ cmd.ndu
  /\ \A v \in Volumes : go[v] \in {"none", "done"}
  /\ sts # "absent"
  /\ Cardinality({v \in Volumes : pod[v].st # "none"}) > 1
  /\ sts' = "orphaning"
  /\ cmd' = [cmd EXCEPT !.step = "createSts"]
  /\ UNCHANGED <<pv, mig, data, claim, pod, migrator, go, count, recycled>>

\* The copy has the templates of the original: the loop that changes their class
\* changes copies.  While the old StatefulSet is still there the creation fails.
CreateStatefulSet ==
  /\ AtStep("createSts")
  /\ sts = "absent"
  /\ sts' = "present"
  /\ cmd' = [cmd EXCEPT !.step = "filter"]
  /\ UNCHANGED <<pv, mig, data, claim, pod, migrator, go, count, recycled>>

\* The pods are listed again: those adopted by now, and those added since.
ListPodsAgain ==
  /\ AtStep("filter")
  /\ cmd' = [cmd EXCEPT !.step = "claims", !.pods = FilterPods]
  /\ UNCHANGED <<objects, migrator, go, count, recycled>>

\* The next pod of the list: its claim is deleted by name.
DeleteClaims(v) ==
  /\ AtStep("claims") /\ v \in cmd.pods
  /\ claim[v] \notin {"none", "gone"}
  /\ claim' = [claim EXCEPT ![v] = IF @ = "bound" THEN "terminating" ELSE @]
  /\ recycled' = IF claim[v] # "other" /\ v \in cmd.vols THEN recycled \cup {v} ELSE recycled
  /\ cmd' = [cmd EXCEPT !.step = "pod", !.pods = @ \ {v}, !.cur = {v}]
  /\ UNCHANGED <<pv, mig, data, pod, sts, migrator, go, count>>

DeletePod(v) ==
  /\ AtStep("pod") /\ v \in cmd.cur
  /\ HasPod(v)
  /\ pod' = [pod EXCEPT ![v].st = "terminating"]
  /\ cmd' = [cmd EXCEPT !.step = "ready"]
  /\ UNCHANGED <<pv, mig, data, claim, sts, migrator, go, count, recycled>>

\* A pod of that name is Running and has a Ready condition, whatever its status: the
\* pod that is being deleted passes too.
WaitForPodToBeReady(v) ==
  /\ AtStep("ready") /\ v \in cmd.cur
  /\ HasPod(v)
  /\ cmd' = [cmd EXCEPT !.step = "claims", !.cur = {}]
  /\ UNCHANGED <<objects, migrator, go, count, recycled>>

-----------------------------------------------------------------------------
(* Kubernetes (external) *)

\* The garbage collector removes the owner references, then the StatefulSet.
Orphan ==
  /\ sts = "orphaning"
  /\ sts' = "absent"
  /\ pod' = [v \in Volumes |-> [pod[v] EXCEPT !.owned = FALSE]]
  /\ UNCHANGED <<pv, mig, data, claim, migrator, repctl>>

Adopt(v) ==
  /\ sts = "present" /\ pod[v].st = "running" /\ ~pod[v].owned
  /\ pod' = [pod EXCEPT ![v].owned = TRUE]
  /\ UNCHANGED <<pv, mig, data, claim, sts, migrator, repctl>>

\* The StatefulSet is scaled up: a pod with a claim on a new volume.
ScaleUp(v) ==
  /\ sts = "present" /\ pod[v].st = "none"
  /\ pod' = [pod EXCEPT ![v] = [st |-> "running", owned |-> TRUE]]
  /\ claim' = [claim EXCEPT ![v] = "bound"]
  /\ data' = [data EXCEPT ![v] = {"src"}]
  /\ SetPV(v, [pv[v] EXCEPT !.phase = "bound"])
  /\ UNCHANGED <<mig, sts, rec, repctl>>

PodGone(v) ==
  /\ pod[v].st = "terminating"
  /\ pod' = [pod EXCEPT ![v].st = "gone"]
  /\ UNCHANGED <<pv, mig, data, claim, sts, migrator, repctl>>

\* A terminating claim is removed when no pod uses it, and its volume released.
ClaimRemoved(v) ==
  /\ claim[v] = "terminating" /\ pod[v].st = "gone"
  /\ claim' = [claim EXCEPT ![v] = "gone"]
  /\ SetPV(v, [pv[v] EXCEPT !.phase = "released"])
  /\ UNCHANGED <<mig, data, pod, sts, rec, repctl>>

\* A released volume with policy Delete is deleted with its PV.
Reclaim(v) ==
  /\ pv[v].phase = "released" /\ pv[v].policy = "Delete"
  /\ data' = [data EXCEPT ![v] = @ \ {"src"}]
  /\ SetPV(v, [pv[v] EXCEPT !.phase = "gone", !.req = "no"])
  /\ UNCHANGED <<mig, claim, pod, sts, rec, repctl>>

\* The StatefulSet brings a pod back, with a new claim if the old one is gone.
RecreatePod(v) ==
  /\ sts = "present" /\ pod[v].st = "gone" /\ claim[v] # "terminating"
  /\ pod' = [pod EXCEPT ![v] = [st |-> "running", owned |-> TRUE]]
  /\ claim' = [claim EXCEPT ![v] = IF @ = "gone" THEN "other" ELSE @]
  /\ UNCHANGED <<pv, mig, data, sts, migrator, repctl>>

-----------------------------------------------------------------------------

Next ==
  \/ \E v \in Volumes :
       \/ Reconcile(v) \/ Fail(v)
       \/ MigratePV(v) \/ WaitForPVToBeBound(v)
       \/ DeleteClaims(v) \/ DeletePod(v) \/ WaitForPodToBeReady(v)
       \/ Adopt(v) \/ ScaleUp(v) \/ PodGone(v) \/ ClaimRemoved(v) \/ Reclaim(v)
       \/ RecreatePod(v)
  \/ MigratePVCommand \/ MigrateSTSCommand \/ Exit
  \/ DeleteStsOrphan \/ CreateStatefulSet \/ ListPodsAgain \/ Orphan

Spec == Init /\ [][Next]_vars

\* csi-migrator goes on with a reconcile and takes up a queued one.
Fairness == \A v \in Volumes : WF_vars(Reconcile(v))

-----------------------------------------------------------------------------

\* No data is lost to a migration without disruption: when a command deletes the
\* claim of a volume it has migrated, the data is on the source or on the migrated
\* volume from then on, whichever of Retain and the reclaim comes first.  A PV of
\* somebody else under the name of the migrated one deceives the wait.
DataKept == \A v \in recycled : data[v] # {} \/ mig[v] = "foreign"

\* What interrupts a reconcile for a reason other than the state of the objects.
Faults == \E v \in Volumes : Fail(v) /\ ~Refuse(v)

\* A request that the migrator can serve ends with the migrated PV in place and the
\* original retained, once calls stop failing, wherever it was interrupted before;
\* unless another command replaced it or the original was reclaimed.
VolumeMigrationEnds ==
  <>[][~Faults]_vars =>
    \A v \in Volumes :
      pv[v].req = "valid" ~>
        \/ pv[v].req = "no" /\ mig[v] = "made" /\ pv[v].policy = "Retain"
        \/ pv[v].req = "bad" \/ pv[v].phase = "gone" \/ mig[v] = "foreign"
=============================================================================
