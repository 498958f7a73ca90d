----------------------------- MODULE Snapshots -----------------------------
(***************************************************************************)
(* Snapshots of a replication group.  A user asks for them with "repctl    *)
(* snapshot"; the sidecar has the driver take them and reports the handles *)
(* in LastAction, and the namespace and class in the Action annotation;    *)
(* the replication controller then creates the snapshot objects on the     *)
(* remote cluster.  The group is written by the user, the sidecar, its     *)
(* monitor and the controller, which reads it from a cache.                *)
(***************************************************************************)
EXTENDS Naturals

CONSTANTS
  Volumes,      \* volumes of the group
  Places,       \* namespaces with a snapshot class, as users ask for them
  KnownPlaces,  \* those whose class exists on the remote cluster
  NoPlace,      \* an Action annotation that is not completed: no namespace, no class
  Absent,       \* no Action annotation
  MaxTaken      \* bound: calls of the driver

ASSUME PlacesAssumption ==
  /\ KnownPlaces \subseteq Places /\ MaxTaken \in Nat
  /\ NoPlace \notin Places /\ Absent \notin Places /\ Absent # NoPlace

VARIABLES
  rg,         \* the group: annotations, spec and status
  cache,      \* what the controller's informer last saw of it
  taken,      \* calls of the driver so far; the n-th makes handles <<n, v>>
  held,       \* sidecar: the result between its two updates, 0 if none
  asked,      \* history: the place that the last request before a call asked for
  stripped,   \* history: results whose Action annotation a user removed
  ctl,        \* controller: step, place it read, handles left, handle at work
  fresh,      \* the controller's copy is current
  remote      \* remote cluster: namespaces, snapshot contents, snapshots

sidecar == <<taken, held, asked>>
vars == <<rg, cache, sidecar, stripped, ctl, fresh, remote>>

Calls == 1 .. MaxTaken

\* No call, and an action processed time that was reset; the time of the n-th call is n.
None == 0

\* A final error of the driver; the controller finds nothing to process in it.
Failed == MaxTaken + 1

Idle == [step |-> "idle"]

\* What the controller looks at.
Seen == [ann |-> rg.ann, last |-> rg.last, processed |-> rg.processed]

Init ==
  /\ rg \in [want : {NoPlace}, action : {FALSE}, state : {"Ready"},
             ann : {Absent}, last : {None}, processed : {None}]
  /\ cache = Seen
  /\ taken = 0 /\ held = None
  /\ asked = [n \in Calls |-> NoPlace] /\ stripped = {}
  /\ ctl = Idle /\ fresh = FALSE
  /\ \E ns \in SUBSET KnownPlaces : remote = [ns |-> ns, contents |-> {}, snaps |-> {}]

\* Every write of the group makes the copy of the controller stale.
Write(obj) == rg' = obj /\ fresh' = FALSE

-----------------------------------------------------------------------------
(* The user *)

\* A write of the user between the two updates of the sidecar makes the second one
\* conflict, which loses the result (see LoseResult).
UserWrites(obj) == Write(obj) /\ held' = None

\* repctl snapshot, which does not look at the state or at an action that is set: a
\* request replaces the one before it.
CreateSnapshot ==
  /\ \E p \in Places : UserWrites([rg EXCEPT !.want = p, !.action = TRUE])
  /\ UNCHANGED <<cache, taken, asked, stripped, ctl, remote>>

\* A user removes the Action annotation from the group.
RemoveAnnotation ==
  /\ rg.ann # Absent
  /\ UserWrites([rg EXCEPT !.ann = Absent])
  /\ stripped' = stripped \cup ({rg.last} \cap Calls)
  /\ UNCHANGED <<cache, taken, asked, ctl, remote>>

User == CreateSnapshot \/ RemoveAnnotation

-----------------------------------------------------------------------------
(* The sidecar.  The annotation of a completed action has its place. *)

\* processRG: the action is annotated, without namespace and class ...
AcceptAction ==
  /\ rg.action /\ rg.state = "Ready" /\ rg.ann # NoPlace
  /\ Write([rg EXCEPT !.ann = NoPlace])
  /\ UNCHANGED <<cache, sidecar, stripped, ctl, remote>>

\* ... and LastAction is reset with the state.
MarkInProgress ==
  /\ rg.action /\ rg.state = "Ready" /\ rg.ann = NoPlace
  /\ Write([rg EXCEPT !.state = "InProgress", !.last = None])
  /\ UNCHANGED <<cache, sidecar, stripped, ctl, remote>>

\* An action in progress without annotation is annotated again, or given up when it
\* is not in the spec either.
RestoreAnnotation ==
  /\ rg.state = "InProgress" /\ rg.ann = Absent
  /\ Write(IF rg.action THEN [rg EXCEPT !.ann = NoPlace] ELSE [rg EXCEPT !.state = "Ready"])
  /\ UNCHANGED <<cache, sidecar, stripped, ctl, remote>>

\* updateRGSpecWithActionResult: namespace and class are recorded with the result, and
\* the processed time is reset.
RecordResult(result) ==
  /\ Write([rg EXCEPT !.action = FALSE, !.processed = None, !.ann = rg.want])
  /\ held' = result

\* The driver takes the snapshots, or fails for good, and the result is recorded.  When that update
\* conflicts or fails the call is lost, and the next reconcile makes another.
ExecuteAction ==
  /\ rg.state = "InProgress" /\ rg.ann = NoPlace
  /\ taken < MaxTaken
  /\ taken' = taken + 1
  /\ asked' = [asked EXCEPT ![taken + 1] = rg.want]
  /\ \/ RecordResult(taken + 1)
     \/ RecordResult(Failed)
     \/ UNCHANGED <<rg, fresh, held>>
  /\ UNCHANGED <<cache, stripped, ctl, remote>>

\* The status follows, with the handles and the time of the call.  The states Ready
\* and Error accept the next action alike.
ReportResult ==
  /\ held # None
  /\ Write([rg EXCEPT !.state = "Ready", !.last = IF held = Failed THEN None ELSE held])
  /\ held' = None
  /\ UNCHANGED <<cache, taken, asked, stripped, ctl, remote>>

\* The sidecar restarts or its status update conflicts between the two updates.  The
\* status is then rebuilt from the annotation, without handles and without a time.
LoseResult ==
  /\ held # None
  /\ held' = None
  /\ UNCHANGED <<rg, cache, taken, asked, stripped, ctl, fresh, remote>>

\* A request that came in between is dropped first.
RecoverStatus ==
  /\ held = None
  /\ rg.state = "InProgress" /\ rg.ann \in Places
  /\ Write(IF rg.action THEN [rg EXCEPT !.action = FALSE]
                        ELSE [rg EXCEPT !.state = "Ready", !.last = None])
  /\ UNCHANGED <<cache, sidecar, stripped, ctl, remote>>

\* The monitor writes the link state, which nothing here depends on.
MonitorWrites == fresh /\ Write(rg) /\ UNCHANGED <<cache, sidecar, stripped, ctl, remote>>

Sidecar ==
  \/ AcceptAction \/ MarkInProgress \/ RestoreAnnotation \/ ExecuteAction \/ ReportResult
  \/ RecoverStatus

-----------------------------------------------------------------------------
(* The replication controller *)

SyncCache == cache # Seen /\ cache' = Seen /\ UNCHANGED <<rg, sidecar, stripped, ctl, fresh, remote>>

EndReconcile ==
  /\ ctl' = Idle /\ fresh' = FALSE
  /\ UNCHANGED <<rg, cache, sidecar, stripped, remote>>

\* processLastActionResult: there is a last action with a time that is not processed.
Unprocessed == cache.last # None /\ cache.processed # cache.last

Process(place) ==
  /\ ctl' = [step |-> "class", place |-> place, todo |-> {cache.last} \X Volumes, cur |-> {}]
  /\ fresh' = (cache = Seen)
  /\ UNCHANGED <<rg, cache, sidecar, stripped, remote>>

\* The place is read from what the user last asked for.
ProcessAtRequest == ctl = Idle /\ Unprocessed /\ Process(rg.want)

ProcessLastAction == ctl = Idle /\ Unprocessed /\ Process(cache.ann)

AtStep(step) == ctl # Idle /\ ctl.step = step

\* Without annotation there is nothing to take, which is no error.
SkipSnapshots ==
  /\ AtStep("class") /\ ctl.place = Absent
  /\ ctl' = [ctl EXCEPT !.step = "content", !.todo = {}]
  /\ UNCHANGED <<rg, cache, sidecar, stripped, fresh, remote>>

\* The class has to exist; an annotation that has none yet is an error (Refuse).
GetSnapshotClass ==
  /\ AtStep("class") /\ ctl.place \in KnownPlaces
  /\ ctl' = [ctl EXCEPT !.step = "namespace"]
  /\ UNCHANGED <<rg, cache, sidecar, stripped, fresh, remote>>

\* The namespace has to exist as well.
NeedNamespace ==
  /\ AtStep("namespace") /\ ctl.place \in remote.ns
  /\ ctl' = [ctl EXCEPT !.step = "content"]
  /\ UNCHANGED <<rg, cache, sidecar, stripped, fresh, remote>>

\* A namespace that does not exist is created.
EnsureNamespace ==
  /\ AtStep("namespace")
  /\ remote' = [remote EXCEPT !.ns = @ \cup {ctl.place}]
  /\ ctl' = [ctl EXCEPT !.step = "content"]
  /\ UNCHANGED <<rg, cache, sidecar, stripped, fresh>>

Object(h) == [handle |-> h, place |-> ctl.place]

\* The volumes come in any order.  The name of the content holds the time, so every
\* attempt makes another one; contents of one snapshot are not told apart.
CreateSnapshotContent ==
  /\ AtStep("content")
  /\ \E h \in ctl.todo :
       /\ ctl' = [ctl EXCEPT !.step = "snapshot", !.todo = @ \ {h}, !.cur = {h}]
       /\ remote' = [remote EXCEPT !.contents = @ \cup {Object(h)}]
  /\ UNCHANGED <<rg, cache, sidecar, stripped, fresh>>

\* An error of one volume does not end the loop.
CreateSnapshotOrGoOn ==
  /\ AtStep("snapshot")
  /\ \E h \in ctl.cur :
       \/ remote' = [remote EXCEPT !.snaps = @ \cup {Object(h)}]
       \/ UNCHANGED remote
  /\ ctl' = [ctl EXCEPT !.step = "content", !.cur = {}]
  /\ UNCHANGED <<rg, cache, sidecar, stripped, fresh>>

\* The name of the snapshot is that of its handle: one that exists is an error (Refuse).
CreateSnapshotObject ==
  /\ AtStep("snapshot")
  /\ \E h \in ctl.cur :
       /\ Object(h) \notin remote.snaps
       /\ remote' = [remote EXCEPT !.snaps = @ \cup {Object(h)}]
  /\ ctl' = [ctl EXCEPT !.step = "content", !.cur = {}]
  /\ UNCHANGED <<rg, cache, sidecar, stripped, fresh>>

\* The group is annotated with the time of the action, if the copy is current.
MarkProcessed ==
  /\ AtStep("content") /\ ctl.todo = {}
  /\ fresh
  /\ Write([rg EXCEPT !.processed = rg.last])
  /\ ctl' = Idle
  /\ UNCHANGED <<cache, sidecar, stripped, remote>>

\* The errors that the objects leave no way around; they are only logged, and the
\* next event of the group repeats the processing.
Refuse ==
  /\ \/ AtStep("class") /\ ctl.place \notin KnownPlaces \cup {Absent}
     \/ AtStep("snapshot") /\ \E h \in ctl.cur : Object(h) \in remote.snaps
     \/ AtStep("content") /\ ctl.todo = {} /\ ~fresh
  /\ EndReconcile

\* Any other error, and a restart of the controller.
Fail == ctl # Idle /\ EndReconcile

Controller ==
  \/ ProcessLastAction \/ SkipSnapshots \/ GetSnapshotClass \/ EnsureNamespace
  \/ CreateSnapshotContent \/ CreateSnapshotObject \/ MarkProcessed \/ Refuse

-----------------------------------------------------------------------------

Next ==
  \/ User \/ Sidecar \/ LoseResult \/ MonitorWrites
  \/ SyncCache \/ Controller \/ Fail

Spec == Init /\ [][Next]_vars

\* Events of the group keep coming, as the monitor writes it periodically; a started
\* reconcile goes on and the cache catches up.
Fairness == WF_vars(Controller) /\ WF_vars(SyncCache)

-----------------------------------------------------------------------------

SnapsOf(n) == {s \in remote.snaps : s.handle[1] = n}

\* The group says that a snapshot action was processed only when every volume has
\* its snapshot on the remote cluster, whichever attempts failed before.  The one
\* exception is a result whose Action annotation a user removed: nothing is taken then.
ProcessedMeansTaken ==
  \A n \in Calls \ stripped : rg.processed = n =>
    \A v \in Volumes : \E s \in SnapsOf(n) : s.handle = <<n, v>>

\* The snapshots of a call of the driver are created where the last request before the
\* call asked for, also when later requests, to other places, are already made,
\* executed or reported.
PlacedAsAsked == \A n \in Calls : \A s \in SnapsOf(n) : s.place = asked[n]

\* An attempt left some snapshots behind: the next one fails at the first of them.
LeftOver(n) == ctl = Idle /\ rg.processed # n /\ SnapsOf(n) # {}

\* A result that was reported with its time is processed once calls stop failing,
\* unless its class does not exist, an attempt was interrupted after the first
\* snapshot, its annotation was removed, or the next action came first.
SnapshotsTaken ==
  <>[][~(Fail /\ ~Refuse)]_vars =>
    \A n \in Calls :
      rg.last = n ~>
        \/ rg.processed = n \/ rg.last # n \/ rg.action
        \/ asked[n] \notin KnownPlaces \/ LeftOver(n) \/ n \in stripped
=============================================================================
