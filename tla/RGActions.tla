----------------------------- MODULE RGActions -----------------------------
(***************************************************************************)
(* One DellCSIReplicationGroup and the processes that write it: the        *)
(* reconciler of the csi-replicator sidecar (dellcsireplicationgroup_      *)
(* controller.go), its monitor (monitoring.go), the user (repctl), and the *)
(* replication controller as far as it consumes action results             *)
(* (processLastActionResult).                                              *)
(*                                                                         *)
(* An Update or Status().Update of a copy succeeds only when the object    *)
(* was not written since the copy was read.  "fresh" says so, process by   *)
(* process, in place of resource versions: a process whose copy is fresh   *)
(* computes from the object itself.  Everything a process holds is lost    *)
(* when a call fails (Abort), which is also what a crash does.             *)
(***************************************************************************)
EXTENDS Naturals

CONSTANTS
  Actions,        \* actions the driver supports
  Bad,            \* an action it does not support
  None,           \* no action, no annotation
  Broken,         \* an Action annotation that cannot be parsed
  StaleCache,     \* reads of the reconciler may return an older object
  Aborts,         \* calls may fail, the sidecar may crash
  UserWaits,      \* the user waits for the result before the next action
  UserEdits,      \* the user may damage the Action annotation
  EmptyGroup      \* the group may have no volumes

\* The Action annotation: status says whether it carries a ProtectionGroupStatus.
Annotation == [name : Actions \cup {Bad}, done : BOOLEAN, err : BOOLEAN, status : BOOLEAN]
Started(a) == [name |-> a, done |-> FALSE, err |-> FALSE, status |-> FALSE]

ASSUME ConstantAssumption ==
  /\ {None, Bad, Broken} \cap Actions = {}
  /\ None # Bad /\ None # Broken /\ Bad # Broken
  /\ {None, Broken} \cap Annotation = {}
  /\ \A flag \in {StaleCache, Aborts, UserWaits, UserEdits, EmptyGroup} : flag \in BOOLEAN

\* Status.LastAction: time and ff say whether Time and FirstFailure are set.
LastAction == [name : Actions \cup {None}, cond : {"none", "ok", "err"},
               time : BOOLEAN, ff : BOOLEAN]
NoLast == [name |-> None, cond |-> "none", time |-> FALSE, ff |-> FALSE]

RG == [action : Actions \cup {Bad, None},                   \* Spec.Action
       pg     : BOOLEAN,                                    \* Spec.ProtectionGroupID is set
       ann    : Annotation \cup {None, Broken},
       apt    : {"absent", "reset", "done"},                \* ActionProcessedTime
       fin    : BOOLEAN,                                    \* ReplicationFinalizer
       del    : BOOLEAN,                                    \* DeletionTimestamp
       state  : {"", "Invalid", "Ready", "Error", "Deleting", "InProgress"},
       sname  : Actions \cup {None},                        \* action named by InProgress
       last   : LastAction,
       link   : {"none", "source", "target"}]               \* ReplicationLinkState

VARIABLES
  rg,      \* the object in the API server
  exists,  \* it has not been removed
  cache,   \* the object as the sidecar's informer last saw it
  pg,      \* the protection group exists on the array
  pc,      \* next call of the reconciler
  fresh,   \* its copy of rg is current
  run,     \* the action it executes, whether FirstFailure is set, and the outcome
  mpc,     \* next call of the monitor, and
  mfresh,  \* whether its copy is current
  kpc,     \* the same for the replication controller
  kfresh,
  won      \* history: the accepted action was executed with success

recon == <<pc, fresh, run, cache>>
monitor == <<mpc, mfresh>>
central == <<kpc, kfresh>>
vars == <<rg, exists, pg, recon, monitor, central, won>>

NoRun == [name |-> None, ff |-> FALSE, out |-> "none"]

\* createReplicationGroup of the sidecar created the object, with the finalizer; or the
\* replication controller or a user did, without, and a user perhaps without the id.
Init ==
  /\ \E given, held \in BOOLEAN :
       /\ held => given
       /\ rg = [action |-> None, pg |-> given, ann |-> None, apt |-> "absent", fin |-> held,
                del |-> FALSE, state |-> "", sname |-> None, last |-> NoLast, link |-> "none"]
  /\ exists = TRUE /\ pg = TRUE
  /\ cache = rg /\ pc = "idle" /\ fresh = FALSE /\ run = NoRun
  /\ mpc = "idle" /\ mfresh = FALSE
  /\ kpc = "idle" /\ kfresh = FALSE
  /\ won = FALSE

-----------------------------------------------------------------------------
(* The reconciler, one call of the API server or of the driver at a time.    *)

\* The object the reconcile starts from: the current one, or what the cache has.
Reads(c) ==
  /\ pc = "idle" /\ exists
  /\ \/ c = rg /\ fresh' = TRUE /\ cache' = rg
     \/ StaleCache /\ c = cache /\ c # rg /\ fresh' = FALSE /\ UNCHANGED cache

Others == <<rg, exists, pg, monitor, central, won>>

\* Mutant: deletion does not wait for the action in progress.
ToDeleteAtOnce(c) == c.del

ToDelete(c) == c.del /\ c.state # "InProgress"

\* getActionInProgress finds an annotation.
Parsed(o) == o.ann \notin {None, Broken}

\* Reconcile: a group to be deleted (processRGForDeletion).
ReconcileDeletion ==
  /\ \E c \in {rg, cache} :
       /\ Reads(c) /\ ToDelete(c)
       /\ \/ c.pg /\ pc' = "deletePG"
          \/ ~c.pg /\ c.state # "Deleting" /\ pc' = "setDeleting"
  /\ UNCHANGED <<run, Others>>

\* Reconcile: a group without protection group id becomes Invalid, and leaves that
\* state when it has one.
ReconcileInvalid ==
  /\ \E c \in {rg, cache} :
       /\ Reads(c) /\ ~ToDelete(c)
       /\ \/ ~c.pg /\ c.state # "Invalid" /\ pc' = "setInvalid"
          \/ c.pg /\ c.state = "Invalid" /\ pc' = "clearInvalid"
  /\ UNCHANGED <<run, Others>>

ProcessRGInNoState ==
  /\ \E c \in {rg, cache} :
       /\ Reads(c) /\ ~ToDelete(c) /\ c.pg /\ c.state = ""
       /\ pc' = IF c.fin THEN "setReady" ELSE "addFinalizer"
  /\ UNCHANGED <<run, Others>>

\* Mutant: an annotation that is not completed is replaced.
ProcessRGAgain ==
  /\ \E c \in {rg, cache} :
       /\ Reads(c) /\ ~ToDelete(c) /\ c.pg /\ c.state \in {"Ready", "Error"}
       /\ c.ann # Broken
       /\ \/ c.action = Bad /\ pc' = "resetAction"
          \/ c.action \in Actions /\ pc' = "annotate"
  /\ UNCHANGED <<run, Others>>

\* A Ready or Error group: an annotation that is not completed is left as it is.
ProcessRG ==
  /\ \E c \in {rg, cache} :
       /\ Reads(c) /\ ~ToDelete(c) /\ c.pg /\ c.state \in {"Ready", "Error"}
       /\ c.ann # Broken
       /\ \/ c.action = Bad /\ pc' = "resetAction"
          \/ c.action \in Actions /\ (Parsed(c) => c.ann.done) /\ pc' = "annotate"
          \/ c.action \in Actions /\ Parsed(c) /\ ~c.ann.done /\ pc' = "mark"
  /\ UNCHANGED <<run, Others>>

\* Mutant: a completed annotation is not looked at.
ProcessUncompleted ==
  /\ \E c \in {rg, cache} :
       /\ Reads(c) /\ c.pg /\ c.state = "InProgress"
       /\ Parsed(c) /\ ~c.ann.done /\ c.ann.name # Bad
       /\ pc' = "execute"
       /\ run' = [NoRun EXCEPT !.name = c.ann.name, !.ff = c.last.ff]
  /\ UNCHANGED Others

\* A group with an action in progress: the annotation says which and how far.
ProcessRGInProgress ==
  /\ \E c \in {rg, cache} :
       /\ Reads(c) /\ c.pg /\ c.state = "InProgress"
       /\ \/ /\ c.ann \in {None, Broken}
             /\ pc' = CASE c.action = None -> "resetEmpty"
                        [] c.action = Bad  -> "resetInvalid"
                        [] OTHER           -> "reannotate"
             /\ UNCHANGED run
          \/ /\ Parsed(c) /\ c.ann.done
             /\ pc' = IF c.action # None THEN "dropAction" ELSE "recoverStatus"
             /\ UNCHANGED run
          \/ /\ Parsed(c) /\ ~c.ann.done /\ c.ann.name = Bad
             /\ pc' = "setError"
             /\ UNCHANGED run
          \/ /\ Parsed(c) /\ ~c.ann.done /\ c.ann.name # Bad
             /\ pc' = "execute"
             /\ run' = [NoRun EXCEPT !.name = c.ann.name, !.ff = c.last.ff]
  /\ UNCHANGED Others

Return == pc' = "idle" /\ fresh' = FALSE /\ run' = NoRun

\* A write of the reconciler: its copy stays current, the others' do not.
Update(o) ==
  /\ fresh
  /\ rg' = o /\ mfresh' = FALSE /\ kfresh' = FALSE
  /\ UNCHANGED <<exists, pg, cache, mpc, kpc>>

\* The last call of the reconcile, or one that is followed by another.
Last == Return /\ UNCHANGED won
Then(step) == pc' = step /\ UNCHANGED <<fresh, run, won>>

NewState == [setDeleting |-> "Deleting", setInvalid |-> "Invalid", clearInvalid |-> "",
             setReady |-> "Ready", setError |-> "Error"]

UpdateState ==
  /\ pc \in DOMAIN NewState
  /\ Update([rg EXCEPT !.state = NewState[pc], !.sname = None])
  /\ Last

AddFinalizer ==
  /\ pc = "addFinalizer"
  /\ Update([rg EXCEPT !.fin = TRUE])
  /\ Last

ResetUnsupportedAction ==
  /\ pc = "resetAction"
  /\ Update([rg EXCEPT !.action = None])
  /\ Last

Annotate ==
  /\ pc = "annotate"
  /\ Update([rg EXCEPT !.ann = Started(rg.action)])
  /\ pc' = "mark" /\ won' = FALSE
  /\ UNCHANGED <<fresh, run>>

\* The state names the action of the spec, which may have changed since the
\* annotation was written.
MarkInProgress ==
  /\ pc = "mark"
  /\ Update([rg EXCEPT !.state = "InProgress", !.sname = rg.action, !.last = NoLast])
  /\ Last

\* In progress without an annotation.
ResetInvalidAction ==
  /\ pc \in {"resetInvalid", "resetEmpty"}
  /\ Update([rg EXCEPT !.action = None, !.ann = None])
  /\ \/ pc = "resetInvalid" /\ Last
     \/ pc = "resetEmpty" /\ Then("setReady")

Reannotate ==
  /\ pc = "reannotate"
  /\ Update([rg EXCEPT !.ann = Started(rg.action)])
  /\ pc' = "execute" /\ won' = FALSE
  /\ run' = [NoRun EXCEPT !.name = rg.action, !.ff = rg.last.ff]
  /\ UNCHANGED fresh

\* ExecuteAction: an error that is not final becomes final once the first failure
\* lies MaxRetryDurationForActions back.  Only a success carries a status.
Execute ==
  /\ pc = "execute"
  /\ \/ /\ run' = [run EXCEPT !.out = "ok"]
        /\ won' = (won \/ (Parsed(rg) /\ rg.ann.name = run.name))
        /\ pc' = "record"
     \/ /\ run' = [run EXCEPT !.out = "final"]
        /\ pc' = "record" /\ UNCHANGED won
     \/ /\ run' = [run EXCEPT !.out = "retry"]
        /\ pc' = "report" /\ UNCHANGED won
  /\ UNCHANGED <<rg, exists, pg, fresh, cache, monitor, central>>

\* Mutant: FinalError is not recorded.
RecordWithoutError ==
  /\ pc = "record"
  /\ Update([rg EXCEPT
       !.action = None,
       !.ann = [name |-> run.name, done |-> TRUE, err |-> FALSE, status |-> run.out = "ok"],
       !.apt = "reset"])
  /\ Then("report")

\* updateRGSpecWithActionResult and Update.
RecordResult ==
  /\ pc = "record"
  /\ Update([rg EXCEPT
       !.action = None,
       !.ann = [name |-> run.name, done |-> TRUE, err |-> run.out = "final",
                status |-> run.out = "ok"],
       !.apt = "reset"])
  /\ Then("report")

\* updateRGStatusWithActionResult and Status().Update.
ReportResult ==
  /\ pc = "report"
  /\ Update([rg EXCEPT
       !.state = CASE run.out = "ok" -> "Ready" [] run.out = "final" -> "Error" [] OTHER -> @,
       !.sname = IF run.out = "retry" THEN @ ELSE None,
       !.last = [name |-> run.name, cond |-> IF run.out = "ok" THEN "ok" ELSE "err",
                 time |-> TRUE, ff |-> @.ff \/ run.out # "ok"],
       !.link = IF run.out = "ok" THEN "source" ELSE @])
  /\ Last

\* The result is in the annotation but was not reported: an action requested in the
\* meantime is dropped, and the result rebuilt from the annotation.  It has no time,
\* and a status even if the annotation has none.
DropAction ==
  /\ pc = "dropAction"
  /\ Update([rg EXCEPT !.action = None])
  /\ Then("recoverStatus")

RecoverStatus ==
  /\ pc = "recoverStatus"
  /\ Update([rg EXCEPT
       !.state = IF rg.ann.err THEN "Error" ELSE "Ready",
       !.sname = None,
       !.last = [name |-> rg.ann.name, cond |-> IF rg.ann.err THEN "err" ELSE "ok",
                 time |-> FALSE, ff |-> @.ff],
       !.link = IF rg.ann.status THEN "source" ELSE "target"])
  /\ Last

\* Mutant: a final error counts as success.
DeleteIgnoringErrors ==
  /\ pc = "deletePG"
  /\ pc' = "removeFinalizer" /\ pg' \in {pg, FALSE}
  /\ UNCHANGED <<rg, exists, fresh, run, cache, monitor, central, won>>

\* The driver deletes the protection group; a final error is ignored.
DeleteProtectionGroup ==
  /\ pc = "deletePG"
  /\ \/ /\ pg' = FALSE /\ pc' = "removeFinalizer"
        /\ UNCHANGED <<fresh, run>>
     \/ /\ fresh /\ rg.state # "Deleting" /\ pc' = "setDeleting"
        /\ UNCHANGED <<pg, fresh, run>>
     \/ Return /\ UNCHANGED pg
  /\ UNCHANGED <<rg, exists, cache, monitor, central, won>>

RemoveFinalizer ==
  /\ pc = "removeFinalizer" /\ fresh
  /\ rg' = [rg EXCEPT !.fin = FALSE]
  /\ exists' = FALSE
  /\ Return
  /\ UNCHANGED <<pg, cache, monitor, central, won>>

\* A write of an object that was written by another process in the meantime.
Conflict ==
  /\ pc \notin {"idle", "execute", "deletePG"} /\ ~fresh
  /\ Return
  /\ UNCHANGED <<rg, exists, pg, cache, monitor, central, won>>

\* Another error of a call, or a crash; a reconcile starts over at the next event.
Abort ==
  /\ Aborts /\ pc # "idle"
  /\ Return
  /\ UNCHANGED <<rg, exists, pg, cache, monitor, central, won>>

SyncCache ==
  /\ StaleCache /\ cache # rg
  /\ cache' = rg
  /\ UNCHANGED <<rg, exists, pg, pc, fresh, run, monitor, central, won>>

-----------------------------------------------------------------------------
(* The monitor.  It skips a group with an action, except when its link state *)
(* was never set; a group without volumes is written in any case.            *)

MonitorRead ==
  /\ mpc = "idle" /\ exists
  /\ \/ EmptyGroup /\ mpc' = "empty"
     \/ (rg.link = "none" \/ rg.action = None) /\ mpc' = "query"
  /\ mfresh' = TRUE
  /\ UNCHANGED <<rg, exists, pg, recon, central, won>>

\* The driver reports the group as source.  When it fails, or is not asked, the
\* role is kept, which is target at first; an error leaves an unset link unset.
MonitorWrite ==
  /\ mpc # "idle" /\ mfresh /\ exists
  /\ \/ /\ mpc = "query"
        /\ rg' = [rg EXCEPT !.link = "source"] \/ rg' = rg
     \/ /\ mpc = "empty"
        /\ rg' = [rg EXCEPT !.link = IF @ = "none" THEN "target" ELSE @]
  /\ mpc' = "idle" /\ mfresh' = FALSE
  /\ fresh' = FALSE /\ kfresh' = FALSE
  /\ UNCHANGED <<exists, pg, pc, run, cache, kpc, won>>

MonitorFails ==
  /\ mpc # "idle"
  /\ mpc' = "idle" /\ mfresh' = FALSE
  /\ UNCHANGED <<rg, exists, pg, recon, central, won>>

-----------------------------------------------------------------------------
(* The replication controller handles a successful action once: the          *)
(* annotation ActionProcessedTime, reset with each result, marks it.         *)

\* Mutant: an action that failed at first counts as failed.
ProcessUnlessRetried ==
  /\ kpc = "idle" /\ exists
  /\ rg.last.time /\ rg.last.cond = "ok" /\ ~rg.last.ff /\ rg.apt = "reset"
  /\ kpc' = "annotate" /\ kfresh' = TRUE
  /\ UNCHANGED <<rg, exists, pg, recon, monitor, won>>

ProcessLastAction ==
  /\ kpc = "idle" /\ exists
  /\ rg.last.time /\ rg.last.cond = "ok" /\ rg.apt = "reset"
  /\ kpc' = "annotate" /\ kfresh' = TRUE
  /\ UNCHANGED <<rg, exists, pg, recon, monitor, won>>

MarkProcessed ==
  /\ kpc = "annotate" /\ kfresh /\ exists
  /\ rg' = [rg EXCEPT !.apt = "done"]
  /\ fresh' = FALSE /\ mfresh' = FALSE
  /\ kpc' = "idle" /\ kfresh' = FALSE
  /\ UNCHANGED <<exists, pg, pc, run, cache, mpc, won>>

\* The event could not be processed, or the update conflicts.
ProcessingFails ==
  /\ kpc = "annotate"
  /\ Aborts \/ ~kfresh \/ ~exists
  /\ kpc' = "idle" /\ kfresh' = FALSE
  /\ UNCHANGED <<rg, exists, pg, recon, monitor, won>>

-----------------------------------------------------------------------------
(* The user, with repctl or kubectl.                                         *)

UserWrites(o) ==
  /\ exists
  /\ rg' = o
  /\ fresh' = FALSE /\ mfresh' = FALSE /\ kfresh' = FALSE
  /\ UNCHANGED <<pg, pc, run, cache, mpc, kpc, won>>

RequestAction(a) ==
  /\ UserWaits => rg.action = None /\ rg.state \in {"Ready", "Error"}
  /\ a # rg.action
  /\ UserWrites([rg EXCEPT !.action = a]) /\ UNCHANGED exists

SetProtectionGroup ==
  /\ ~rg.pg
  /\ UserWrites([rg EXCEPT !.pg = TRUE]) /\ UNCHANGED exists

DeleteRG ==
  /\ ~rg.del
  /\ UserWrites([rg EXCEPT !.del = TRUE])
  /\ exists' = rg.fin

EditAnnotation ==
  /\ UserEdits /\ rg.ann # None
  /\ \E ann \in {None, Broken, Started(Bad)} : UserWrites([rg EXCEPT !.ann = ann])
  /\ UNCHANGED exists

-----------------------------------------------------------------------------

Reconcile ==
  \/ ReconcileDeletion \/ ReconcileInvalid \/ ProcessRGInNoState \/ ProcessRG
  \/ ProcessRGInProgress \/ UpdateState \/ AddFinalizer \/ ResetUnsupportedAction
  \/ Annotate \/ MarkInProgress \/ ResetInvalidAction \/ Reannotate \/ Execute
  \/ RecordResult \/ ReportResult \/ DropAction \/ RecoverStatus
  \/ DeleteProtectionGroup \/ RemoveFinalizer \/ Conflict

User ==
  \/ \E a \in Actions \cup {Bad} : RequestAction(a)
  \/ SetProtectionGroup \/ DeleteRG \/ EditAnnotation

Next ==
  \/ Reconcile \/ Abort \/ SyncCache
  \/ MonitorRead \/ MonitorWrite \/ MonitorFails
  \/ ProcessLastAction \/ MarkProcessed \/ ProcessingFails
  \/ User

Spec == Init /\ [][Next]_vars

\* The work queue calls Reconcile again after an event, a conflict or an error, and
\* the cache catches up.  The replication controller does not lose the race for its write
\* for ever: the monitor writes once per MonitoringInterval, the user when the last action
\* is over.  An action that keeps failing becomes a final error: once FirstFailure is set,
\* not every attempt from then on can be told to retry.
Decide == Execute /\ run.ff /\ run'.out # "retry"

Fairness ==
  /\ WF_vars(Reconcile) /\ WF_vars(SyncCache) /\ SF_vars(Decide)
  /\ WF_vars(ProcessLastAction) /\ WF_vars(ProcessingFails) /\ SF_vars(MarkProcessed)

LiveSpec == Spec /\ Fairness
-----------------------------------------------------------------------------

\* Type invariant.
TypeOK ==
  /\ rg \in RG /\ cache \in RG
  /\ exists \in BOOLEAN /\ pg \in BOOLEAN /\ won \in BOOLEAN
  /\ fresh \in BOOLEAN /\ mfresh \in BOOLEAN /\ kfresh \in BOOLEAN
  /\ run \in [name : Actions \cup {None}, ff : BOOLEAN,
              out : {"none", "ok", "final", "retry"}]

SuccessRecorded == Parsed(rg) /\ rg.ann.done /\ ~rg.ann.err

\* A result recorded as success is one: the driver executed the action named by the
\* annotation with success after it was accepted (lines 548-606), whatever was
\* read from a stale cache or repeated after a conflict.
SuccessIsReal == SuccessRecorded => won

\* The protection group is not deleted under an action in progress (Reconcile,
\* line 327), however the deletion request and the action request are ordered.
NoGroupDeletedInAction == ~pg => rg.state # "InProgress"

\* A group that has been taken into use is not removed from the cluster while its
\* protection group is left on the array (processRGForDeletion).
NoOrphanedGroup == ~exists /\ rg.state \in {"Ready", "Error", "InProgress"} => ~pg

Phase ==
  CASE ~Parsed(rg) -> "idle"
    [] Parsed(rg) /\ ~rg.ann.done -> "accepted"
    [] Parsed(rg) /\ rg.ann.done /\ rg.state = "InProgress" -> "finished"
    [] OTHER -> "reported"

Lifecycle == INSTANCE RGLifecycle WITH
  NoName <- None,
  phase  <- Phase,
  name   <- IF Parsed(rg) THEN rg.ann.name ELSE None,
  ok     <- SuccessRecorded,
  report <- IF Phase = "reported" THEN <<rg.last.name, rg.last.cond = "ok">> ELSE None

\* The sidecar implements the lifecycle: one action at a time, one result that is
\* never changed, reported before the next action is accepted.
ImplementsLifecycle == Lifecycle!Spec

\* From some time on no call of the reconciler fails and none of its writes conflicts.
\* One more report that a retry is due changes nothing, and looks like an Abort.
CallsSucceed ==
  <>[][/\ Abort => pc = "report" /\ run.out = "retry" /\ rg.last.ff
       /\ ~Conflict
       /\ ~(ProcessingFails /\ kfresh /\ exists)]_vars

Settled == ~exists \/ ((rg.action = None \/ rg.del) /\ rg.state # "InProgress")

\* The user made the annotation unreadable, or it names an unsupported action.
Damaged == rg.ann = Broken \/ (Parsed(rg) /\ rg.ann.name = Bad)

\* If calls stop failing and conflicting, an action that was requested is executed and
\* reported with success or error, unless the group is deleted before it is accepted.  An
\* annotation that the user removes is written again; one that cannot be read or names an
\* unsupported action is never repaired.
ActionReported ==
  CallsSucceed => ((rg.action \in Actions /\ rg.pg) ~> (Settled \/ Damaged))

\* A success recorded with the processed time reset is then processed by the replication
\* controller ("Indicates that the action needs to be processed by the controller", line
\* 157), unless the next action, a deletion or an edit of the annotation comes first.  The
\* exception is a result that had to be rebuilt from the annotation: it has no Time, and
\* is skipped for ever.
ActionProcessed ==
  CallsSucceed => ((SuccessRecorded /\ rg.apt = "reset") ~>
                     \/ rg.apt = "done"
                     \/ rg.action # None \/ rg.del \/ ~exists \/ ~SuccessRecorded
                     \/ rg.last.cond = "ok" /\ ~rg.last.time)
=============================================================================
