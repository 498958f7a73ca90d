# TLA+ specifications of csm-replication

csm-replication keeps volumes of Dell storage arrays replicated between two
Kubernetes clusters, or inside one. Its controllers share no memory with each
other: they read and write Kubernetes objects whose annotations are messages and
whose finalizers are locks, through caches that may be old, with updates that
fail when somebody else wrote first, and any of them may crash between two calls.
The specifications here model those controllers call by call. TLC checks them on
small instances; TLAPS proves their safety properties and refinements for all of them.

Paths below are relative to `src/`.

## The system

| Part | Source | State | What happens there |
|---|---|---|---|
| csi-replicator, replication groups | `controllers/csi-replicator/dellcsireplicationgroup_controller.go` | `Spec.Action`, the Action annotation, `Status.State`, `LastAction`, finalizer | accept, execute and report an action; delete the protection group |
| csi-replicator, monitor | `controllers/csi-replicator/monitoring.go` | `Status.ReplicationLinkState` | one thread polls the driver and writes the status of each group |
| csi-replicator, volumes | `controllers/csi-replicator/persistentvolume_controller.go` | annotations of the PV, backend volume | create the remote volume and the group, delete the local volume on request |
| replication-controller, groups | `controllers/replication-controller/dellcsireplicationgroup_controller.go` | the RGs of both clusters | create the peer RG, carry deletions over, process finished actions |
| replication-controller, PVC remap | same file, `swapAllPVC` and below | a claim and its two PVs | after a failover inside a cluster, move the claims to the replicas |
| replication-controller, volumes | `controllers/replication-controller/persistentvolume_controller.go` | the PVs of both clusters | create the replica PV, link the two, carry deletions over |
| csi-migrator, groups | `controllers/csi-migrator/dellcsimigrationgroup_controller.go` | `DellCSIMigrationGroup`, `NodesToRescan` | drive an array migration to its end |
| csi-node-rescanner | `controllers/csi-node-rescanner/`, `pkg/noderescan/` | label of the node's pod | rescan the hosts of the node and say so |
| driver clients | `pkg/csi-clients/replication/`, `pkg/connection/pending.go`, `cmd/csi-replicator/main.go` | for each client, map and count of its calls in flight | one call per group, limited number of calls |
| configuration | `pkg/config/config.go`, `pkg/connection/k8sconnections.go`, `cmd/replication-controller/main.go` | `Config`, `isInInvalidState`, the secrets | load the remote clusters and their credentials, again whenever they change |
| repctl | `repctl/pkg/cmd/` | none of its own | check a group, set its `Spec.Action`, wait for the result |
| csi-replicator, claims | `controllers/csi-replicator/persistentvolumeclaim_controller.go` | annotations of the PVC | copy remote volume and group from the PV to its claim |
| replication-controller, claims | `controllers/replication-controller/persistentvolumeclaim_controller.go` | the claims of both clusters | link the two claims, create the remote one if allowed |
| snapshots of a group | `processSnapshotEvent` of the replication-controller, `repctl/pkg/cmd/snapshot.go` | namespaces, snapshot contents and snapshots of the remote cluster | make the snapshots of an action known to the remote cluster |
| csi-migrator, volumes | `controllers/csi-migrator/persistentvolume_controller.go`, `repctl/pkg/cmd/migrate.go` | a PV, its migrated PV, the StatefulSet | migrate volumes to another class, recycle pods and claims |
| start-up, metrics | see `components` in PROJECT.json | | not modelled |

How they interact: repctl or a user writes `Spec.Action` of a group; the sidecar
executes it and records the result in the annotation and the status; the
replication-controller sees the new `LastAction` and moves the claims or takes a
snapshot, then sets `ActionProcessedTime`. PVs and RGs are created on the source
by the sidecar, copied to the target by the replication-controller and processed
there by the sidecar of the target. Deletion travels the other way round: a
`DeletionRequested` annotation on the peer, whose own controller deletes it.

The hard behaviours, each listed with its line under `hazards` in PROJECT.json:
crashes between the deletion and the re-creation of a claim; results stored in
two updates; stale caches; conflicts with the monitor; two users deleting the two
ends at once; a shared flag for all migration groups; a configuration that changes
while it is loaded; commands that act on a state read before; errors that are only
logged; names that are taken on the other cluster.

## Modules

| Module | Models | Checked by |
|---|---|---|
| `PVCSwap` | the PVC remap: one claim, two volumes, any number of reconciles | `MCPVCSwap` |
| `PVCSwapProofs` | proofs about it | TLAPS |
| `RGActions` | one replication group with reconciler, monitor, replication-controller and user | `MCRGActions` |
| `RGLifecycle` | abstract: one action at a time, one result, reported before the next | refined by `RGActions` |
| `RGActionsProofs` | proofs about `RGActions`, the refinement included | TLAPS |
| `PVSync` | a PV, its replica, and the two controllers and two sidecars around them | `MCPVSync` |
| `PVSyncProofs` | proofs about it, the refinement included | TLAPS |
| `RGSync` | an RG, its peer and the controllers of both clusters | `MCRGSync` |
| `RGSyncProofs` | proofs about it, the refinement included | TLAPS |
| `PairLifecycle` | abstract: what a deletion at one end may do at the other | refined by `PVSync` and `RGSync` |
| `MigrationGroup` | migration groups, migrator, nodes with rescanners | `MCSidecars`, `MCMigrationGroup` |
| `PendingState` | the limiters of driver calls, one for each client | `MCSidecars` |
| `Config` | the configuration, its reload and the lock around it | `MCConfig` |
| `ConnectionProofs` | proofs about `PendingState` and `Config` | TLAPS |
| `Repctl` | a repctl command between two groups and their sidecars | `MCRequests` |
| `Provisioning` | new volumes of one protection group, and a claim on its way through three controllers | `MCProvisioning` |
| `ProvisioningProofs` | proofs about it | TLAPS |
| `Snapshots` | snapshot actions from repctl to the objects on the remote cluster | `MCRequests` |
| `RequestProofs` | proofs about `Snapshots` and `Repctl` | TLAPS |
| `VolumeMigration` | repctl migrate, csi-migrator and a StatefulSet | `MCSidecars` |
| `MigrationProofs` | proofs about `MigrationGroup` and `VolumeMigration` | TLAPS |

### Conventions

*Steps.* One action is one stretch of a handler between two calls of the API
server or the driver; `pc` (or `ctl`, `side`, `npc`) names the next call. A Get
directly followed by an Update of what it returned is a single step: it takes
effect only when nothing came between.

*Resource versions* are replaced by `fresh`: whether a client's copy is current.
A write by anyone makes every other copy stale; an update of a stale copy
conflicts. A delete by name needs no copy and never conflicts, as in the code. What a
process has in memory is forgotten where the code no longer reads it: a reconcile that
is over has no copy, and `PVCSwap` resets the locals of a swap that was given up.

*Failure.* Each step has a failing alternative (`Fail`, `Abort`,
`ReconcileFails`, `SidecarFails`, `NodeFails`), which is also what a restart of a
process does: everything in memory is lost, everything in the API server is kept.
Errors that the code only logs are separate: `LookupErrors` and `ClearErrors` in
`PVCSwap`, `ListErrors` in `MigrationGroup`.

*Mutated forms.* Definitions marked as mutants model plausible mistakes in the
code next to them; a property is worth its run only if such a mistake violates it.

### PVCSwap

`pvc` is the claim in the API server, `pv[p]` its volumes with ClaimRef, reclaim
policy and the `PendingPVCSwap` backup, `cache` the backups as the informer shows
them. A worker is a reconcile of one of the two groups; `job[w]` is the group
whose swap its LastAction asks for. The actions follow `swapAllPVC` and `swapPVC`
call by call: `ListClaims`, `GetClaim` (or `RecoverPVCBackup` when the claim is
gone), `ReadLocalPV`, `ReadTargetPV`, `RemoveReservedClaimRef`, `SavePVCBackup`,
`RetainTargetPV`, `DeletePVC`, `WaitDeleted`, `CreatePVC`, `UpdatePVClaimRef`,
`VerifyPVC`, `ClearPendingPVCSwap`, `RemovePVClaimRef`, `SetReservedClaimRef`,
`RestoreTargetPolicy`, `RestoreLocalPolicy`; then the orphan pass
(`RecoverOrphans`, `ClearStaleBackup`) and `EndSwap`, which records the action as
processed. Around them the binder, foreign claims, the removal of terminating
claims, and a user whose next action may come before the last was processed.
One claim is enough for what is stated: the goroutines of a swap touch disjoint
objects, and what couples them, the repetition of the whole swap when one failed,
is modelled as the repetition of this one.

### RGActions and RGLifecycle

`rg` is the object, `cache` what the informer of the sidecar shows, `pg` the
protection group on the array. The reconciler follows `processRGInNoState`,
`processRG`, `processRGInProgress`, `executeAction` and `processRGForDeletion`;
the monitor and `processLastActionResult` are processes of their own. `RGActions`
refines `RGLifecycle`: `phase`, `name`, `ok` and `report` are computed from the
annotation and `LastAction`.

### PVSync, RGSync and PairLifecycle

Both model the two-cluster mode. In `PVSync` four reconcilers work on two PVs; in
`RGSync` an RG on the target may live under its source's name or, when that is
taken, under the prefixed one. A foreign RG may be there before, and `ForeignLeaves`
deletes it: at any time with `LeavesAnytime`, otherwise not while an RG that was created
under the other name is still unrecorded (`Unrecorded`; `renamed` remembers that there
was one). A foreign RG does not come back, and does not arrive later. Both refine
`PairLifecycle`, with an object counted as gone once it is being deleted and its
controller's finalizer is off. `Controller` and `Sidecar` collect the steps of one
process; a reconcile remembers what it read at its start (`Start` in `RGSync`), which
later steps use although the object may have changed.

### MigrationGroup and PendingState

`AllSynced` is one variable for all groups, as in the code; `rescanned[g]`
remembers which nodes rescanned after the array had migrated group `g`. A rescan is
complete when the node has gone through its SCSI hosts: `RescanNode` of
`pkg/noderescan` logs the error of a host and goes on, so what the specification calls
rescanned says nothing about whether each host answered.

csi-replicator makes a client of the driver for each of its controllers and one for the
monitor, and each client has a `PendingState` of its own. `PendingState` has the two
that make limited calls, `"groups"` and `"monitoring"`, each with its map and counter,
and one step per critical section. So actions and deletions of one protection group
exclude each other, but a status query of the monitor may overlap them and is one call
above the limit; the comment of the type ("no other requests for the same RG",
`pkg/connection/pending.go:29`) is about one client.

### Config and Repctl

In `Config` a reload is `upd`: `ReadConfigFile`, `BuildRestConfig` for each target,
`NewReplicationConfig`, `VerifyConfig`, `Publish` and `Apply`, all with Config.Lock
held (`Free` is the lock). Meanwhile `EditFile` and `EditSecret` change what it
reads; a credential is represented by whether it is still the secret's (`stale`).
The verdict of the verification is left open, since it depends on other clusters.
viper's own watcher reads the file into the same structure; this is a read of the
file at a somewhat later time.

`Repctl` has one command at a time, of seven kinds, and the two groups with what a
command sees of their sidecars. What each command requires of a group is a record
(`FailoverToRG`, `SwapAtCluster`, ...); `Find`, `FindNext`, `ReadSource`, `Write`
are its calls, `Succeed` and `TimeOut` the ends of `waitForStateToUpdate`. The
sidecar's steps are those of `RGActions`, with the reads left out that cannot be
seen from outside: an update of a copy that is not current fails.

### Provisioning

`pv[v]` has the two annotations of a volume, `vol[v]` its worker in the sidecar: it
has the remote volume created, looks for the group in `groupsSeen`, the cached list,
and otherwise joins the creation in flight (`flight`, the singleflight group) or
starts one. `prot` is the sidecar's reconcile of the claim, which reads the claim
twice but the volume once; `link` is the replication-controller's, which reads the
remote volume and, by its phase, creates, looks up or does without the remote claim.
`far` is the remote cluster; the remote claim is only looked up for a remote volume that
has a claimRef. Groups are never deleted here, so that a volume is in a group that
exists means that it existed when the volume was marked. A cached volume or claim that is too old makes the
following update conflict, which is one of the failures, so only the list of groups,
which is followed by a Create, keeps a cache of its own.

### Snapshots

A call of the driver has a number, which is also its time; the handles it returns are
pairs of number and volume. `rg` is the group as user, sidecar, monitor and
controller write it; namespace and class together are a place. `RecordResult` and
`ReportResult` are the two updates of a result, `LoseResult` what comes between them
and `RecoverStatus` the reconstruction from the annotation. The user waits for nothing:
`CreateSnapshot` replaces a request in any state of the group, as repctl does by default,
and `RemoveAnnotation` may take the Action annotation away, which the sidecar restores
only while the action is in progress. The controller's steps follow
`processSnapshotEvent` call by call; `SkipSnapshots` is its early return for a group
without annotation.

### VolumeMigration

`rec[v]` is a reconcile of csi-migrator, `go[v]` a goroutine `migratePV` and `cmd` the
command around them, with the steps of `recreateStsNdu`. Kubernetes is a set of
external actions: the garbage collector, the StatefulSet controller, the protection
of claims in use, the reclaim policy. `data[v]` says which backend volumes hold the
data of a replica.

## Runs

Types are proved, as part of the inductive invariants, and not among the properties of
the runs.

| Run | Shows |
|---|---|
| `swap` | one reconcile, with stale cache, foreign claims, KubeVirt remap, impatient user, backups that cannot be cleared, crashes and failures at each step: claim recoverable, objects consistent, clean swaps restore everything, a deleted claim comes back; and until a backup could not be cleared nothing is reclaimed and no completed swap repeated |
| `actions` | real results, protection group neither deleted during an action nor orphaned, refinement of `RGLifecycle` |
| `actions_live` | with a user who damages the annotation: an accepted action is reported, and a success reported with its time is processed by the replication-controller |
| `pv` | both policies, a foreign PV, changing claims: refinement of `PairLifecycle`; a backend volume is deleted only on request and before its PV; deletions end, also when both ends are deleted at once |
| `rg` | both policies, foreign RGs: refinement of `PairLifecycle`; one RG on the target; synchronisation and deletions end |
| `sidecars` | limiters: one call per group and client, at most the limit, refusals only with a reason. Migration, one group on two nodes: the state never runs ahead of the array, all nodes rescan before the commit, the migration ends. Volume migration: the data of a volume whose claim `--ndu` deletes is kept on one of the two volumes; a request that can be served ends with the migrated PV, wherever csi-migrator was interrupted |
| `config` | no change of file or secrets is lost to a reload that overlaps it; the flag tells the verdict on the configuration in use, and the all-clear is true while it is the last event; each reconcile gets its connection |
| `requests` | snapshots: an action counts as processed only with all its snapshots; they are where the last request before the call of the driver asked for; a result that was reported is processed. repctl: a request fits the role and link state it meets; success after `--wait` means the action is over |
| `provisioning` | a volume marked as protected is in a group that exists, its claim in the same one; a claim marked as synchronised has its links, and so has the remote claim; the sync completes through all three controllers once calls stop failing |

`MCSidecars` and `MCRequests` hold components that share no state: `part` chooses one of
them at the start, the others stay as they are. Fairness is then that of the part, and
stands as a premise in the liveness properties of these two modules (`MigrationEnds`,
`VolumeMigrationEnds`, `SnapshotsEnd`).

### Findings

Three runs expect a violation: a comment or a message of the code says what the code
does not do. Each is listed under `findings` in PROJECT.json.

| Run | What is said | What happens |
|---|---|---|
| `config_event` | "Config update won't be applied because of invalid configmap/secrets." (`pkg/config/config.go:260`) | the configuration that failed verification is returned with a nil error and assigned |
| `rescan_two_groups` | "Wait for rescan on all nodes" (`controllers/csi-migrator/dellcsimigrationgroup_controller.go:162`) | the labels set for one group make a second group pass on to the commit, although its nodes have not rescanned since it was migrated |
| `rg_leaves` | "If the RG already exists on the Remote Cluster, We treat this as idempotent." (`controllers/replication-controller/dellcsireplicationgroup_controller.go:287`) | a renamed RG was created and its name could not be recorded; the RG that held the plain name is deleted; the next reconcile looks for the plain name only and creates a second RG |

### What the properties leave out

The code does not ensure the following, so no property says it:

- `PVCSwap` with two reconciles, the two groups of a pair (`Workers = {w1, w2}`),
  violates `ClaimRecoverable`, although a comment says that the backup is stored "before
  any destructive action": one deletes, by name, the claim that the other has just
  created on a volume without backup;
- a SCSI host that cannot be rescanned is logged and passed over, so
  `RescannedBeforeCommit` says that each node has gone through its hosts;
- a second RG on the target (run `rg_leaves`) is excluded in run `rg` and in the theorems
  by `LeavesAnytime = FALSE`;
- a status query of the monitor may overlap an action on the same protection group:
  `OneCallPerGroup` and `WithinLimit` are about one client;
- without Action annotation no snapshot is taken and the action is marked processed all
  the same: `ProcessedMeansTaken` excepts results whose annotation a user removed;
- a backup that could not be cleared may be taken up by a later recovery, which repeats
  a completed swap and may release a volume with policy Delete: `NoVolumeReclaimed` and
  `CompletedSwapNotReprocessed` end there;
- a swap whose action is replaced before it was processed, or whose backup the cached
  list does not show, may leave its claim away: `ClaimReturns` excepts both;
- two volumes may create two RGs for one protection group, one after the other from
  a cache that does not show the first, and each keeps the one it was given;
- a remote claim made from a remote volume without group label gets an empty group
  annotation, which counts as set;
- an attempt at the snapshots that was interrupted after the first one, or whose mark
  conflicts, can never complete, since the next fails at a snapshot that exists; each
  attempt leaves further snapshot contents behind. `SnapshotsEnd` excepts it;
- with `--ndu` the StatefulSet is lost when its copy is created before the original is
  gone; the wait for a pod accepts the one that is being deleted; a pod added meanwhile
  loses its claim without a migration; the copy keeps the old class, since the loop
  changes copies of the templates. `DataKept` speaks of listed volumes, and a PV of
  somebody else under the name of the migrated one deceives the wait;
- after an interrupted swap the reclaim policies may stay Retain (the guard of the
  orphan pass takes a swap for complete as soon as the claim is on the target), so
  `CleanSwapRestores` speaks of swaps without failures;
- a source PV deleted between the creation of its replica and the RemotePV
  annotation leaves the replica behind, so `PairLifecycle` speaks of tied objects;
- a target RG that had to be renamed and was not recorded is not found again, so
  `SyncEnds` speaks of names that are free;
- a failing List of node pods counts as no pods (`ListErrors`), and an orphan pass
  that cannot read gives up silently (`LookupErrors`); the runs leave both FALSE;
- an annotation that was made unreadable, or names an unsupported action, is not
  repaired, so `ActionReported` makes an exception for it;
- after a crash between the two updates of a result, LastAction is rebuilt from the
  annotation without Time, and the replication-controller skips it for ever, although
  the reset of the processed time "Indicates that the action needs to be processed by
  the controller."; `ActionProcessed` makes an exception for it;
- an RG deleted before it was synchronised is looked up by the empty name, which is an
  error and not NotFound, and keeps its finalizer: `DeletionEnds` speaks of RGs that
  know their peer;
- a configuration that fails verification is applied (run `config_event`), with the flag
  and the event set; `AllClearIsTrue` says only that no all-clear stands beside it;
- a failed reload is logged and not repeated, and when publishing the all-clear fails
  the flag is reset and the all-clear lost; `CurrentOnceQuiet` and `FlagMatchesConfig`
  make an exception for failed reloads;
- a planned failover checks the role of one group and writes to the other, so
  `RequestFits` leaves out the role there; inside one cluster it also polls the wrong
  group, and groups without volumes are renewed in spite of an action, so
  `SuccessMeansFinished` leaves out both. A success may also be a final error or an
  action that was dropped: the command cannot tell.

### Bounds, and why they are enough

- `PVCSwap`: two volumes are what a claim has. One worker is one
  group being reconciled (the work queue never runs two reconciles of one object).
  Nothing else is bounded: actions, failures and crashes come as often as they
  like, since the state is finite.
- `RGActions`: two actions, so that one can follow or overtake the other; they are
  symmetric. `actions_live` has one action and no stale cache, to keep the
  liveness graph small; refusals and repetitions need no second one.
- `PVSync`, `RGSync`: one pair, two sites, the policy chosen at the start. The
  constants switch on an object of someone else under the same name and, for PVs,
  claimRefs that change.
- `MigrationGroup`: one group and two nodes, so that one, but not all, has rescanned;
  two of each in `rescan_two_groups`.
- `PendingState`: three workers, the monitor, three groups and a limit of two: the limit
  can be hit with a group to spare.

- `Config`: two clusters, so that one can be a target and the other not, and one
  reconcile; edits are unbounded.
- `Repctl`: no constants; two groups and one command, with other clients around it.
- `Provisioning`: two volumes, so that a creation can be shared, and two names, so
  that a second group can come of it; when the names are used up a creation fails.
- `Snapshots`: two calls of the driver, the least for which one result can overtake the
  other; two places, of which one has no class, so that a snapshot asked for at this one
  must never appear at the other. With classes for both the same run passes as well, in
  1 188 684 states, but takes several minutes.
- `VolumeMigration`: two replicas, the least that `--ndu` accepts, of which some may
  only come when the StatefulSet is scaled up; one command. Two commands are beyond a
  complete search (more than three million states after ten minutes).

The symmetry sets are used in runs of safety properties only.

Deadlock is checked for `PVCSwap`, `Config`, `Snapshots` and `Repctl`, which never stop. It is off
elsewhere: a group that was deleted, or a migration that is over, has nothing left
to do.

### Fairness, and why the code justifies it

- controller-runtime calls `Reconcile` again after an error and after each event;
  the resync of the caches, and the monitor's periodic writes, bring objects back
  that nobody touched. Hence weak fairness on the steps of the reconcilers.
- `PVCSwap`: `processLastActionResult` errors are only logged, but the monitor
  causes another event. The premise of `ClaimReturns` is that failures and crashes
  during a swap stop at some time.
- `RGActions`: `Decide` is strongly fair since an action that keeps failing is a
  final error after `MaxRetryDurationForActions`; `MarkProcessed` is strongly fair
  since the monitor writes once per interval, not always in between.
- `MigrationGroup`: an attempt on the array succeeds now and then, and the
  rescanners get to see the state Migrated although the group leaves it for
  Error and returns (each change queues an event).
- `PVSync`, `RGSync`: weak fairness only, one condition for each process (a controller
  or a sidecar that can take its next step takes it, whichever it is) and one for the
  API server; the premise is that from some time on no
  call fails (`upset` changes with each failure), no claimRef changes and, for
  RGs, no status write comes in between.

- `Config`: each call of a reload returns, the ones to other clusters after the
  dialer's timeout at the latest; sync.Mutex hands itself to a goroutine that has
  waited long, hence strong fairness on `GetConnection`.

- `Provisioning`, `Snapshots`, `VolumeMigration`: weak fairness on the steps of the
  reconcilers and the caches; users need not do anything. The premise is that calls
  stop failing. Since a reconcile may also end early of its own accord, only the faults
  that are not such an end are excluded.

`ConnectionServed` holds whatever fails. The other liveness
properties are implications: they promise nothing while calls keep
failing.

## Proofs

All theorems hold for every value of the constants that meets the stated
assumptions.

Three modules host two components: one is extended, the other is an INSTANCE, whose
constants and variables are declared by the module itself, so that its theorems are as
general as in a module of their own.

### PVCSwapProofs

*Types*: `TypeCorrect`, for any set of workers. `TypeOK` alone is not inductive, since
a job number is used as a volume: a reconcile that is not idle has a job (`JobSet`).

The other theorems assume one reconcile at a time (`OneWorker`; two workers violate
them, see above) and an orphan pass whose reads do not fail silently
(`LookupErrors = FALSE`). Stale caches, foreign claims, backups that cannot be
cleared, crashes and failures of every other step are all included.

*Recovery*: `Recoverable` (a claim that is gone has its backup on the volume it was
deleted from) and `Consistent` (volume, RemotePV annotation and group label of the
claim agree). The inductive invariant `RecoverInv` adds to the two properties that
each backup, and each cached one, is of the volume it lies on, that a claim that
is terminating or gone has its backup, and `StepInv`, what the reconcile knows at
each of its steps: for instance that its copy is the claim on the volume of the
job, and that past `save` the backup is there.

*Retention*: `NothingReclaimed` (no volume is released with policy Delete) and
`OnlyInterruptedSwapsRepeated`. Both say nothing once a backup could not be cleared,
since a later recovery may start from it; that this is never forgotten is
`ClearedBefore`. Until then `RetainInv` adds `VolumeInv` (where a backup lies, where
policies are Retain) and `VolumeStepInv`, the same step by step.

*Clean swaps*: `Restores` (between swaps without mishaps the claim is bound, the
replica reserved, policies are the original ones, no backup is left). `CleanInv`
follows the two volumes and the policies in memory through all steps of a swap
(`ProgressInv`); every failure is a mishap, after which it says nothing. A stale cache
is none: the orphan pass may then see the backup of a finished swap, but finds the
claim already on the target or the swap still to be made.

### RGActionsProofs

For any set of actions, with stale caches, aborted reconciles, conflicts and edits by
users: `RealSuccess` (a recorded success is one), `NotInAction` (no protection group is
deleted under an action in progress), `NotOrphaned` (a group in use does not leave its
protection group behind). The inductive invariant `Inv` consists of the types and

- `RunInv`: what the reconciler carries from call to call;
- `FreshInv`: as long as the copy is current, the group is as it was when the next call
  was decided on. This is the argument for optimistic concurrency: a write with a stale
  copy conflicts, so only this case matters. Deletion of the protection group needs no
  copy, hence `DeletionInv`: a group that is to be deleted stays so, so that an old copy
  that says it is to be deleted is right;
- `UseInv`: a group in use has its finalizer, and its protection group until it is
  deleted;
- `ResultInv`: only a supported action has a result, and a success has been won.

`Refinement`: the sidecar implements `RGLifecycle` when users leave the Action annotation
alone (`UserEdits = FALSE`: such an edit is itself no step of the lifecycle). It rests on `Inv` and on `AnnotationInv`: the annotation is there while an
action is in progress, and names a supported action. Each step maps to Accept, Finish,
Report or a stutter (`LifecycleStep`).

### PVSyncProofs

For every set of policies, with or without a foreign PV and changing claims, with
conflicts, failures and crashes: `VolumeIsKept` (a backend volume is deleted only if the
policy is delete and the user of the other site deleted), `VolumeGoesFirst` (an action
property: a PV whose deletion was requested gives up the finalizer only after its
backend volume is gone) and `Refinement` (the four reconcilers implement
`PairLifecycle`). The inductive invariant `IInv` consists of the types and

- `DeletionInv`: what each mark of a deletion means. A request on a PV stands for a user
  of the other site who deleted under the policy delete, a completion for a volume that
  is gone;
- `ReconcileInv`: what entitles a controller to its next call. A call that needs its copy
  is justified while the copy is current; a delete by name, which needs none, because the
  request stays on the object unless its user deletes it first;
- `SidecarInv`: the same for the sidecars.

The step simulation (`PairAt`, `WriteStep`) treats every write of a PV alike: what it does
to the tie, to the request and to the finalizer determines which step of
`PairLifecycle` it is, or that it is a stutter.

### RGSyncProofs

For every set of policies and of RGs that are on the target before, when such an RG does
not leave while another name is unrecorded (`~LeavesAnytime`; without it `OneTarget` is
false, see Findings): `OneTarget` (a group
has at most one RG on the target cluster) and `Refinement` (the controllers of both
clusters implement `PairLifecycle`). The inductive invariant `IInv` consists of the types,

- `SlotInv`: at most one of the two names on the target is taken by the peer (`Twin`), and
  the names that the RGs and the reconciles in progress hold point to it;
- `ReconcileInv`: what entitles a controller to its next call, as in `PVSync`. An RG is
  looked up by a name that was read when the reconcile began; that it is still the name of
  the peer is part of `NamedAs`,

and `NameInv`, which is why a name that has come free does no harm: before an RG was
created under the other name nothing refers to it (`UnusedInv`), and when the first name
comes free after that, the source has recorded the other one (`RecordedInv`).

### MigrationProofs

**Groups**, for any sets of groups and nodes, and also when listing pods fails:
`NotAhead` (the state
of a group is never ahead of the array) and `Forward` (no error, retry, conflict or crash
takes a group back to an earlier state than it had reached; an action property that is
only proved). `StateInv` says which states fit the call the migrator makes next and how
far the array is by then. `Rescanned` (the array commits only after a rescan of all
nodes) assumes one group, since all groups share `AllSynced` and the labels, and
`ListErrors = FALSE`, since an empty list counts as synced; that a host answered is not
part of it. `RescanInv` adds that a label,
and what the migrator remembers of the labels, stands for a rescan after the migration.

**Volumes** (`VolumeMigration`, under the name `V`),
for any finite set of volumes and any number of commands: `Kept` (a volume that was
recycled has its data on one side). `MigratedInv` says that a migrated PV of the migrator
stands for a volume with the data; `CommandInv` that a command with `--ndu` recycles what
it has seen migrated.

### ProvisioningProofs

For any volumes and names of groups: `Protected` (a protected volume is in a group that
exists, a claim in the group of its volume), `SyncedLinked` (a synced claim has its links)
and `GroupFinal` (no volume moves from one group to another; an action property that is
only proved). `VolumeInv` says what a volume, its worker and the shared creations know of
the groups: a worker that is under way has a volume without a group. `ClaimInv` needs
`GroupFinal`: the copy of the volume that the claim's worker holds may be old, but a
group in it is final. `LinkInv` says what the controller has seen of the remote claim.

### RequestProofs

**Snapshots**, for any volumes, places, classes and number of calls:
`Processed` (an action marked as
processed has all its snapshots, unless a user removed its annotation) and `Placed` (they
are where the last request before the call of the driver asked for).
`ResultInv` follows the result from the driver to the group and the cache, where its place
may already have been replaced by none, but not by that of the next request; `WorksOn`
says that the controller works on one call, and on its place once the class was found.

**repctl** (`Repctl`, under the name `R`), without assumptions: `RequestsFit` (the write of
a command meets a group whose role and link state are still those the command requires)
and `SuccessIsTrue` (after `--wait`, success is reported only when the polled action is
over), both action properties. `CommandInv` (theorem `CommandInductive`) says why. Before
the write, `WriteInv`: as long as the command's copy is current the group is what the
checks saw, and with another copy the write conflicts. During the wait, `WaitInv`: until
the sidecar finishes the action, the polled group keeps the action, and the link state
and its time stay as they were when the command wrote, so a poll that sees them
changed sees an action that is over.

### ConnectionProofs

**Limiter** (`PendingState`): `LimiterInv`, `TypeCorrect`, `Exclusive`,
`Limited`, `RefusalsJustified`, for any finite set of workers, any groups and any
limit. The invariant says for each client that the counter is the number of its calls in
flight and the map is the set of their groups.

**Configuration** (`Config`, under the name `C`): `ConfigTypes`, `NoChangeLost`, `FlagCorrect`,
`AllClear`, for any sets of clusters and reconciles and without assumptions.
`ReloadInv` adds to `CurrentOnceQuiet` what holds during a reload: its new
configuration is that of the file and the secrets, or a notification is waiting for
the lock. `VerdictInv` follows the verdict through the flag and the event to the
configuration.

### Only model-checked

- All liveness properties: fairness and ENABLED are beyond the prover.
- What the assumptions of the theorems exclude and the properties need: two workers,
  silent read errors of the orphan pass, several migration groups at once, a foreign RG
  that leaves at any time. In these cases the properties do not hold (see above).

Every safety property, action property and refinement of a passing run has a theorem.
The inductive invariants were model-checked on small instances before they were proved.

## Not modelled

- Provisioning: the lookup of a default storage class, the sidecar of the target
  cluster, the group annotation of remote claims. Volume migration: several claims per
  pod, several clusters at once, target namespaces. Snapshots: other actions of the
  group between two snapshots.
- repctl: targets given in another form than its help texts say, listing, cluster
  files, the commands that edit secrets; log level and format of the configuration.
- Changes of the configuration between its first load and the start of the watches.
- Mode "self" of PV, PVC and RG synchronisation.
- The contents of a claimRef that is copied to the replica; the replication-
  controller's own finalizer in `RGActions` (it is in `RGSync`); a damaged
  FinishTime.
- What a driver goes on doing after its call timed out.
- Start-up, leader election, probes, metrics, logging, display: sequential, or
  without effect on the state.

## Plan

1. Mode "self" of `RGSync` and `PVSync`, and its composition with `PVCSwap`.
2. Compositions: `Provisioning` with `PVSync` and `RGSync`, `Repctl` with `RGActions`.
