--------------------------- MODULE MigrationGroup ---------------------------
(***************************************************************************)
(* Array migration: the csi-migrator sidecar drives each DellCSIMigration- *)
(* Group through its states (csi-migrator/dellcsimigrationgroup_           *)
(* controller.go), and a csi-node-rescanner on every node rescans its SCSI *)
(* hosts once the array has migrated the volumes and says so by a label on *)
(* its pod (csi-node-rescanner/dellcsimigrationgroup_controller.go).       *)
(*                                                                         *)
(* A Get followed by one write is a single step; it conflicts, and has no  *)
(* effect, when the group was written in between.  Where other calls come  *)
(* between them, "fresh" says whether the copy is current.  The update of  *)
(* the ArrayMigrate annotation that ends a reconcile is left out: it       *)
(* carries the resource version of before the status update and conflicts. *)
(***************************************************************************)
EXTENDS Naturals

CONSTANTS
  Groups,        \* migration groups
  Nodes,         \* nodes with a driver pod
  ListErrors     \* listing the pods may fail (a Boolean)

NextState == [Ready |-> "Migrated", Migrated |-> "CommitReady",
              CommitReady |-> "Committed", Committed |-> "Deleting"]

States == {"", "Ready", "Error", "Migrated", "CommitReady", "Committed", "Deleting"}
MG == [st : {"absent", "present", "gone"}, state : States, last : States,
       fin : BOOLEAN, del : BOOLEAN]
NewMG == [st |-> "absent", state |-> "", last |-> "", fin |-> FALSE, del |-> FALSE]

VARIABLES
  mg,         \* the objects in the API server
  pc,         \* pc[g]: next call of the migrator for g
  fresh,      \* fresh[g]: its copy of the object is current
  AllSynced,  \* NodesToRescan.AllSynced, one variable of the process for all groups
  label,      \* label[n]: the pod of n is labelled node-rescanned
  npc,        \* npc[n][g]: next call of the rescanner of n for g
  array,      \* array[g]: what the array did for the group
  rescanned   \* history: nodes that went through their SCSI hosts after the array had
              \* migrated g, whether or not each host answered

migrator == <<pc, fresh, AllSynced>>
nodes == <<label, npc>>
vars == <<mg, migrator, nodes, array, rescanned>>

Init ==
  /\ mg = [g \in Groups |-> NewMG]
  /\ pc = [g \in Groups |-> "idle"]
  /\ fresh = [g \in Groups |-> FALSE]
  /\ AllSynced = FALSE
  /\ label = [n \in Nodes |-> FALSE]
  /\ npc = [n \in Nodes |-> [g \in Groups |-> "idle"]]
  /\ array = [g \in Groups |-> "source"]
  /\ rescanned = [g \in Groups |-> {}]

-----------------------------------------------------------------------------
(* The migrator.                                                             *)

\* Reconcile goes on with a group that is not being deleted; a deletion waits until
\* the migration is over.
Reconciles(g) == mg[g].st = "present" /\ pc[g] = "idle" /\ ~mg[g].del

Write(g, o) == mg' = [mg EXCEPT ![g] = o]

Begin(g, step) ==
  /\ pc' = [pc EXCEPT ![g] = step]
  /\ fresh' = [fresh EXCEPT ![g] = TRUE]

ProcessMGInNoState(g) ==
  /\ Reconciles(g) /\ mg[g].state = ""
  /\ Write(g, IF mg[g].fin THEN [mg[g] EXCEPT !.state = "Ready"]
                           ELSE [mg[g] EXCEPT !.fin = TRUE])
  /\ UNCHANGED <<migrator, nodes, array, rescanned>>

\* A group in state Error returns to the state it failed in.
Retry(g) ==
  /\ Reconciles(g) /\ mg[g].state = "Error"
  /\ Write(g, [mg[g] EXCEPT !.state = IF mg[g].last # "" THEN mg[g].last ELSE "Ready",
                            !.last = "Error"])
  /\ UNCHANGED <<migrator, nodes, array, rescanned>>

StartArrayMigrate(g) ==
  /\ Reconciles(g) /\ mg[g].state \in {"Ready", "CommitReady"}
  /\ Begin(g, IF mg[g].state = "Ready" THEN "migrate" ELSE "commit")
  /\ UNCHANGED <<mg, AllSynced, nodes, array, rescanned>>

\* Mutant: the state advances although the driver reports an error.
ArrayMigrateUnchecked(g) ==
  /\ pc[g] \in {"migrate", "commit"}
  /\ pc' = [pc EXCEPT ![g] = "advance"]
  /\ array' \in {array, [array EXCEPT ![g] =
       IF pc[g] = "commit" \/ @ = "committed" THEN "committed" ELSE "migrated"]}
  /\ UNCHANGED <<mg, fresh, AllSynced, nodes, rescanned>>

\* The driver's ArrayMigrate succeeds, or not; the actions can be repeated.
ArrayMigrate(g) ==
  /\ pc[g] \in {"migrate", "commit"}
  /\ \/ /\ pc' = [pc EXCEPT ![g] = "advance"]
        /\ array' = [array EXCEPT ![g] =
             IF pc[g] = "commit" \/ @ = "committed" THEN "committed" ELSE "migrated"]
     \/ /\ pc' = [pc EXCEPT ![g] = "error"]
        /\ UNCHANGED array
  /\ UNCHANGED <<mg, fresh, AllSynced, nodes, rescanned>>

\* Mutant: one labelled pod is enough.
NodeRescanSome(g) ==
  /\ Reconciles(g) /\ mg[g].state = "Migrated"
  /\ LET synced == AllSynced \/ (\E n \in Nodes : label[n])
     IN  AllSynced' = synced /\ Begin(g, IF synced THEN "advance" ELSE "error")
  /\ UNCHANGED <<mg, nodes, array, rescanned>>

\* The pods are looked at until all have the label once.  A list that fails, unless
\* with NotFound, is taken for an empty one.
NodeRescan(g) ==
  /\ Reconciles(g) /\ mg[g].state = "Migrated"
  /\ \E listed \in {Nodes} \cup (IF ListErrors THEN {{}} ELSE {}) :
       LET synced == AllSynced \/ \A n \in listed : label[n]
       IN  AllSynced' = synced /\ Begin(g, IF synced THEN "advance" ELSE "error")
  /\ UNCHANGED <<mg, nodes, array, rescanned>>

ResetNodes(g) ==
  /\ Reconciles(g) /\ mg[g].state = "Committed"
  /\ AllSynced' = FALSE
  /\ Begin(g, "advance")
  /\ UNCHANGED <<mg, nodes, array, rescanned>>

End(g) ==
  /\ pc' = [pc EXCEPT ![g] = "idle"]
  /\ fresh' = [fresh EXCEPT ![g] = FALSE]

UpdateMGSpecWithState(g) ==
  /\ pc[g] = "advance" /\ fresh[g]
  /\ Write(g, [mg[g] EXCEPT !.state = NextState[mg[g].state], !.last = mg[g].state])
  /\ End(g)
  /\ UNCHANGED <<AllSynced, nodes, array, rescanned>>

\* Mutant: LastAction is not updated.
OnErrorKeepsLast(g) ==
  /\ pc[g] = "error" /\ fresh[g]
  /\ Write(g, [mg[g] EXCEPT !.state = "Error"])
  /\ End(g)
  /\ UNCHANGED <<AllSynced, nodes, array, rescanned>>

\* The code goes on to write the next state, from the same copy: a conflict.
UpdateMGOnError(g) ==
  /\ pc[g] = "error" /\ fresh[g]
  /\ Write(g, [mg[g] EXCEPT !.state = "Error", !.last = mg[g].state])
  /\ End(g)
  /\ UNCHANGED <<AllSynced, nodes, array, rescanned>>

\* A conflict, or any other error of a call.
Fail(g) ==
  /\ pc[g] # "idle"
  /\ End(g)
  /\ UNCHANGED <<mg, AllSynced, nodes, array, rescanned>>

\* processMGForDeletion: the finalizer goes whether or not the deletion was asked for.
ProcessMGForDeletion(g) ==
  /\ mg[g].st = "present" /\ pc[g] = "idle"
  /\ mg[g].state = "Deleting" /\ mg[g].fin
  /\ Write(g, [mg[g] EXCEPT !.fin = FALSE, !.st = IF mg[g].del THEN "gone" ELSE @])
  /\ UNCHANGED <<migrator, nodes, array, rescanned>>

MigratorCrash ==
  /\ pc' = [g \in Groups |-> "idle"]
  /\ fresh' = [g \in Groups |-> FALSE]
  /\ AllSynced' = FALSE
  /\ UNCHANGED <<mg, nodes, array, rescanned>>

-----------------------------------------------------------------------------
(* The rescanner of node n; its reconciles of different groups run           *)
(* concurrently.  Its pod object is written by nobody else it conflicts with *)
(* for good.                                                                 *)

SetNode(n, g, step) == npc' = [npc EXCEPT ![n][g] = step]

ProcessMGForRescan(n, g) ==
  /\ npc[n][g] = "idle" /\ mg[g].st = "present" /\ mg[g].state = "Migrated"
  /\ ~label[n]
  /\ SetNode(n, g, "rescan")
  /\ UNCHANGED <<mg, migrator, label, array, rescanned>>

\* A rescan goes through the SCSI hosts, for the devices of every group migrated by then.
\* Without the list of hosts it fails (NodeFails); an error of one host is only logged,
\* and the rescan returns as if the host had answered.
RescanNode(n, g) ==
  /\ npc[n][g] = "rescan"
  /\ rescanned' = [h \in Groups |->
       IF array[h] = "source" THEN rescanned[h] ELSE rescanned[h] \cup {n}]
  /\ SetNode(n, g, "label")
  /\ UNCHANGED <<mg, migrator, label, array>>

LabelPod(n, g) ==
  /\ npc[n][g] = "label"
  /\ label' = [label EXCEPT ![n] = TRUE]
  /\ SetNode(n, g, "idle")
  /\ UNCHANGED <<mg, migrator, array, rescanned>>

ProcessMGinDeletingState(n, g) ==
  /\ npc[n][g] = "idle" /\ mg[g].st = "present" /\ mg[g].state = "Deleting"
  /\ label[n]
  /\ SetNode(n, g, "unlabel")
  /\ UNCHANGED <<mg, migrator, label, array, rescanned>>

UnlabelPod(n, g) ==
  /\ npc[n][g] = "unlabel"
  /\ label' = [label EXCEPT ![n] = FALSE]
  /\ SetNode(n, g, "idle")
  /\ UNCHANGED <<mg, migrator, array, rescanned>>

NodeFails(n, g) ==
  /\ npc[n][g] # "idle"
  /\ SetNode(n, g, "idle")
  /\ UNCHANGED <<mg, migrator, label, array, rescanned>>

-----------------------------------------------------------------------------
(* The user.                                                                 *)

CreateMG(g) ==
  /\ mg[g].st = "absent"
  /\ Write(g, [mg[g] EXCEPT !.st = "present"])
  /\ UNCHANGED <<migrator, nodes, array, rescanned>>

DeleteMG(g) ==
  /\ mg[g].st = "present" /\ ~mg[g].del
  /\ Write(g, [mg[g] EXCEPT !.del = TRUE, !.st = IF mg[g].fin THEN @ ELSE "gone"])
  /\ fresh' = [fresh EXCEPT ![g] = FALSE]
  /\ UNCHANGED <<pc, AllSynced, nodes, array, rescanned>>

\* repctl migrate mg annotates the group.
AnnotateMG(g) ==
  /\ mg[g].st = "present" /\ fresh[g]
  /\ fresh' = [fresh EXCEPT ![g] = FALSE]
  /\ UNCHANGED <<mg, pc, AllSynced, nodes, array, rescanned>>

-----------------------------------------------------------------------------

Migrator(g) ==
  \/ ProcessMGInNoState(g) \/ Retry(g) \/ StartArrayMigrate(g) \/ ArrayMigrate(g)
  \/ NodeRescan(g) \/ ResetNodes(g) \/ UpdateMGSpecWithState(g) \/ UpdateMGOnError(g)
  \/ ProcessMGForDeletion(g)

Node(n, g) ==
  \/ ProcessMGForRescan(n, g) \/ RescanNode(n, g) \/ LabelPod(n, g)
  \/ ProcessMGinDeletingState(n, g) \/ UnlabelPod(n, g)

Faults == \E g \in Groups : Fail(g) \/ \E n \in Nodes : NodeFails(n, g)

Next ==
  \/ \E g \in Groups : Migrator(g) \/ CreateMG(g) \/ DeleteMG(g) \/ AnnotateMG(g)
  \/ \E n \in Nodes, g \in Groups : Node(n, g)
  \/ Faults \/ MigratorCrash

Spec == Init /\ [][Next]_vars

\* Work queues retry; an attempt on the array succeeds now and then; a rescanner
\* gets to see the state Migrated although the group leaves it for Error in between
\* (every change is an event that queues a reconcile).
Fairness ==
  /\ \A g \in Groups :
       /\ WF_vars(Migrator(g))
       /\ WF_vars(pc[g] # "idle" /\ ~fresh[g] /\ Fail(g))
       /\ SF_vars(ArrayMigrate(g) /\ pc'[g] = "advance")
       /\ SF_vars(UpdateMGSpecWithState(g))
  /\ \A n \in Nodes, g \in Groups :
       SF_vars(ProcessMGForRescan(n, g)) /\ SF_vars(RescanNode(n, g)) /\ SF_vars(LabelPod(n, g))
-----------------------------------------------------------------------------

\* Type invariant.
TypeOK ==
  /\ mg \in [Groups -> MG]
  /\ pc \in [Groups -> {"idle", "migrate", "commit", "advance", "error"}]
  /\ fresh \in [Groups -> BOOLEAN]
  /\ AllSynced \in BOOLEAN
  /\ label \in [Nodes -> BOOLEAN]
  /\ npc \in [Nodes -> [Groups -> {"idle", "rescan", "label", "unlabel"}]]
  /\ array \in [Groups -> {"source", "migrated", "committed"}]
  /\ rescanned \in [Groups -> SUBSET Nodes]

\* The state a group is in, or failed in.
Reached(g) == IF mg[g].state = "Error" THEN mg[g].last ELSE mg[g].state

\* The state of a group never runs ahead of the array: not after errors, retries,
\* conflicts with the user or a crash between the driver's answer and the update.
StateNotAhead ==
  \A g \in Groups :
    /\ Reached(g) \in {"Migrated", "CommitReady"} => array[g] # "source"
    /\ Reached(g) \in {"Committed", "Deleting"} => array[g] = "committed"

\* "Wait for rescan on all nodes" (Reconcile, line 162): the migration is committed
\* only after every node has gone through its SCSI hosts since the array migrated the
\* volumes.  It is so for a single group (errors of hosts aside, see RescanNode); the
\* label of a pod and AllSynced do not say of which group they are.
RescannedBeforeCommit ==
  \A g \in Groups : array[g] = "committed" => rescanned[g] = Nodes

Disturbance ==
  \/ MigratorCrash
  \/ \E g \in Groups : (Fail(g) /\ fresh[g]) \/ AnnotateMG(g) \/ \E n \in Nodes : NodeFails(n, g)

\* A migration that was started ends, once crashes, failing calls and the user's
\* writes stop, unless the group is deleted before.
MigrationEnds ==
  <>[][~Disturbance]_vars =>
    \A g \in Groups : mg[g].state = "Ready" ~> (mg[g].state = "Deleting" \/ mg[g].del)
=============================================================================
