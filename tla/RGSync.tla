------------------------------- MODULE RGSync -------------------------------
(***************************************************************************)
(* The two DellCSIReplicationGroups of a replication, one per cluster, and *)
(* the replication-controllers that create the one on the target cluster,  *)
(* record that the pair is synchronised and carry a deletion to the peer   *)
(* (replication-controller/dellcsireplicationgroup_controller.go).  The    *)
(* processing of finished actions is left to RGActions and PVCSwap, the    *)
(* single-cluster mode ("self") is left out.                               *)
(*                                                                         *)
(* An RG lives in a slot: "src" on the source cluster; on the target       *)
(* cluster "same", its source's name, or "alt", the name prefixed with     *)
(* "sourceclusterid" that is used when "same" is taken by another RG.      *)
(* fresh[l] says that the RG in l is in a reconcile whose copy is current. *)
(***************************************************************************)
EXTENDS Naturals

CONSTANTS
  Policies,   \* what remoteRGRetentionPolicy of the storage class may be
  Foreign,    \* what may already be in slot "same"
  LeavesAnytime   \* the RG that is in slot "same" already may go at any time

\* "owner": an RG of another cluster or driver; "group": one of this cluster and driver
\* whose protection groups differ.
ASSUME RGSyncAssumption ==
  /\ Policies \subseteq {"retain", "delete"}
  /\ Foreign \subseteq {"owner", "group"}
  /\ LeavesAnytime \in BOOLEAN

Slots == {"src", "same", "alt"}
Sites == {"src", "tgt"}

\* sidefin is the ReplicationFinalizer of the sidecar and fin the RGFinalizer of the
\* controller; remote is the RemoteReplicationGroup annotation, synced RGSyncComplete,
\* dreq DeletionRequested.
RG == [st : {"absent", "present", "owner", "group"}, sidefin : BOOLEAN, fin : BOOLEAN,
       del : BOOLEAN, dreq : BOOLEAN, remote : Slots \cup {"none"}, synced : BOOLEAN]

NoRG == [st |-> "absent", sidefin |-> FALSE, fin |-> FALSE, del |-> FALSE, dreq |-> FALSE,
         remote |-> "none", synced |-> FALSE]

Steps == {"idle", "lookup", "removeFin", "addFin", "delete", "sync", "annotate"}

VARIABLES
  rg,       \* rg[l]: the object in slot l
  fresh,    \* fresh[l]: the reconcile of l has a current copy of rg[l]
  ctl,      \* ctl[l]: next call for l, the remote name and the sync mark it read
  policy,   \* the remoteRGRetentionPolicy of the storage class
  asked,    \* history: the user deleted the RG of a site
  upset,    \* history: changes with every failure and every write from outside
  renamed   \* history: an RG has been created under the other name

history == <<policy, asked, upset, renamed>>
vars == <<rg, fresh, ctl, history>>

Idle == [pc |-> "idle", name |-> "none", done |-> FALSE]

\* The sidecar of the source has created its RG (module of the source's PVs).
Init ==
  /\ rg \in {[src |-> [NoRG EXCEPT !.st = "present", !.sidefin = TRUE],
              same |-> [NoRG EXCEPT !.st = t], alt |-> NoRG] : t \in {"absent"} \cup Foreign}
  /\ fresh = [l \in Slots |-> FALSE]
  /\ ctl = [l \in Slots |-> Idle]
  /\ policy \in Policies
  /\ asked = [s \in Sites |-> FALSE]
  /\ upset = FALSE /\ renamed = FALSE

Present(l) == rg[l].st = "present"
Site(l) == IF l = "src" THEN "src" ELSE "tgt"

\* Of the copies f those stay whose reconcile goes on.
Keep(f) == fresh' = [l \in Slots |-> f[l] /\ ctl'[l].pc # "idle"]

\* Any write makes the copy of a reconcile old; its own update is the last thing it does.
Put(l, o) ==
  /\ rg' = [rg EXCEPT ![l] = o]
  /\ Keep([fresh EXCEPT ![l] = FALSE])

NoWrite == Keep(fresh) /\ UNCHANGED rg

\* An Update takes effect only on a current copy.
Update(l, o) == IF fresh[l] THEN Put(l, o) ELSE NoWrite

\* The next call of a reconcile; the name is used up to the annotation.
Ctl(l, step) ==
  ctl' = [ctl EXCEPT ![l] = [Idle EXCEPT !.pc = step,
                                         !.name = IF step = "annotate" THEN ctl[l].name ELSE "none"]]

Created == renamed' = (renamed \/ rg'["alt"].st = "present")

-----------------------------------------------------------------------------
(* Mutated forms of the definitions below.                                   *)

\* An RG that is already there is taken for one of another cluster.
SyncRenames(l) ==
  LET n == ctl[l].name IN
  /\ ctl[l].pc = "sync"
  /\ \/ /\ rg[n].st = "absent" /\ ~ctl[l].done
        /\ Ctl(l, "annotate")
        /\ Put(n, [NoRG EXCEPT !.st = "present", !.remote = l])
     \/ /\ l = "src" /\ rg[n].st # "absent" /\ rg["alt"].st = "absent"
        /\ ctl' = [ctl EXCEPT ![l] = [Idle EXCEPT !.pc = "annotate", !.name = "alt"]]
        /\ Put("alt", [NoRG EXCEPT !.st = "present", !.remote = l])
  /\ Created /\ UNCHANGED <<policy, asked, upset>>

\* A peer that exists already ends the reconcile.
SyncOnlyNew(l) ==
  LET n == ctl[l].name IN
  /\ ctl[l].pc = "sync"
  /\ \/ /\ rg[n].st = "absent" /\ ~ctl[l].done
        /\ Ctl(l, "annotate")
        /\ Put(n, [NoRG EXCEPT !.st = "present", !.remote = l])
     \/ /\ rg[n].st # "absent" \/ ctl[l].done
        /\ Ctl(l, "idle") /\ NoWrite
  /\ Created /\ UNCHANGED <<policy, asked, upset>>

\* The finalizer is removed as soon as the peer has been asked to go.
LookupWithoutWaiting(l) ==
  LET n == ctl[l].name IN
  /\ ctl[l].pc = "lookup" /\ n # "none"
  /\ Ctl(l, "removeFin")
  /\ IF Present(n) /\ policy = "delete" /\ ~rg[n].dreq
     THEN Put(n, [rg[n] EXCEPT !.dreq = TRUE])
     ELSE NoWrite
  /\ UNCHANGED history

\* The peer that is asked to go and is still there ends the reconcile of a deletion for
\* good: the finalizer is never removed.
BranchOnRequest(c) ==
  IF c.del THEN IF ~c.dreq THEN "lookup" ELSE "idle"
  ELSE IF ~c.fin THEN "addFin" ELSE IF c.dreq THEN "delete" ELSE "sync"

-----------------------------------------------------------------------------
(* The replication-controller, for the RG in slot l.                         *)

\* The branch that an RG leads to; "idle" is a return without a call.
Branch(c) ==
  IF c.del
  THEN IF ~c.dreq THEN "lookup" ELSE IF c.fin THEN "removeFin" ELSE "idle"
  ELSE IF ~c.fin THEN "addFin" ELSE IF c.dreq THEN "delete" ELSE "sync"

\* What a reconcile that read c goes on with.  The name of the remote RG is the
\* annotation, or else, unless the RG is being deleted, the name of the local one.
Start(c) ==
  [pc   |-> Branch(c),
   name |-> CASE Branch(c) = "lookup" -> c.remote
              [] Branch(c) = "sync"   -> IF c.remote = "none" THEN "same" ELSE c.remote
              [] OTHER -> "none",
   done |-> Branch(c) = "sync" /\ c.synced]

Reconcile(l) ==
  /\ Present(l) /\ ctl[l].pc = "idle" /\ Branch(rg[l]) # "idle"
  /\ ctl' = [ctl EXCEPT ![l] = Start(rg[l])]
  /\ Keep([fresh EXCEPT ![l] = TRUE])
  /\ UNCHANGED rg
  /\ UNCHANGED history

\* A deletion that was not requested by the peer.  Without the annotation the peer is
\* looked up by the empty name, which the client refuses: the reconcile fails.  Under
\* "delete" an existing peer is asked to go and the reconcile is requeued.
LookupRemote(l) ==
  LET n == ctl[l].name IN
  /\ ctl[l].pc = "lookup"
  /\ \/ /\ n = "none"
        /\ Ctl(l, "idle") /\ NoWrite
     \/ /\ n # "none" /\ policy = "delete" /\ Present(n)
        /\ Ctl(l, "idle")
        /\ IF rg[n].dreq THEN NoWrite ELSE Put(n, [rg[n] EXCEPT !.dreq = TRUE])
     \/ /\ n # "none" /\ (policy = "delete" => ~Present(n))
        /\ Ctl(l, IF rg[l].fin THEN "removeFin" ELSE "idle") /\ NoWrite
  /\ UNCHANGED history

RemoveFinalizer(l) ==
  /\ ctl[l].pc = "removeFin"
  /\ Ctl(l, "idle")
  /\ Update(l, [rg[l] EXCEPT !.fin = FALSE])
  /\ UNCHANGED history

AddFinalizer(l) ==
  /\ ctl[l].pc = "addFin"
  /\ Ctl(l, "idle")
  /\ Update(l, [rg[l] EXCEPT !.fin = TRUE])
  /\ UNCHANGED history

DeleteOnRequest(l) ==
  /\ ctl[l].pc = "delete"
  /\ Ctl(l, "idle")
  /\ IF Present(l) THEN Put(l, [rg[l] EXCEPT !.del = TRUE]) ELSE NoWrite
  /\ UNCHANGED history

Create(l, n) == Put(n, [NoRG EXCEPT !.st = "present", !.remote = l])

\* The peer is looked up by its name.  Missing, it is created unless the pair was
\* synchronised once; an RG of someone else makes the controller use the other name,
\* and a Create that finds an RG there fails; one with other groups ends the reconcile.
SyncRemote(l) ==
  LET n == ctl[l].name
      done == ctl[l].done
  IN
  /\ ctl[l].pc = "sync"
  /\ \/ /\ rg[n].st = "absent" /\ ~done
        /\ Ctl(l, "annotate") /\ Create(l, n)
     \/ /\ rg[n].st = "owner" /\ rg["alt"].st = "absent"
        /\ ctl' = [ctl EXCEPT ![l] = [Idle EXCEPT !.pc = "annotate", !.name = "alt"]]
        /\ Create(l, "alt")
     \/ /\ rg[n].st = "present" /\ ~done
        /\ Ctl(l, "annotate") /\ NoWrite
     \/ /\ \/ rg[n].st = "absent" /\ done
           \/ rg[n].st = "owner" /\ rg["alt"].st # "absent"
           \/ rg[n].st = "present" /\ done
           \/ rg[n].st = "group"
        /\ Ctl(l, "idle") /\ NoWrite
  /\ Created /\ UNCHANGED <<policy, asked, upset>>

AnnotateSync(l) ==
  /\ ctl[l].pc = "annotate"
  /\ Ctl(l, "idle")
  /\ Update(l, [rg[l] EXCEPT !.remote = ctl[l].name, !.synced = TRUE])
  /\ UNCHANGED history

\* A call fails, or the controller restarts.
ReconcileFails(l) ==
  /\ ctl[l].pc # "idle"
  /\ Ctl(l, "idle")
  /\ upset' = ~upset
  /\ UNCHANGED <<policy, asked, renamed>>
  /\ NoWrite

-----------------------------------------------------------------------------
(* The sidecar, the cluster and its users.                                   *)

\* The csi-replicator (RGActions) adds its finalizer to an RG without a state ...
SidecarProtects(l) ==
  /\ Present(l) /\ ~rg[l].sidefin /\ ~rg[l].del
  /\ UNCHANGED <<ctl, history>>
  /\ Put(l, [rg[l] EXCEPT !.sidefin = TRUE])

\* ... writes the status of the RG, ...
SidecarWrites(l) ==
  /\ Present(l) /\ fresh[l]
  /\ upset' = ~upset
  /\ UNCHANGED <<ctl, policy, asked, renamed>>
  /\ Put(l, rg[l])

\* ... and removes the finalizer when the protection group of a deleted RG is gone.
SidecarReleases(l) ==
  /\ Present(l) /\ rg[l].sidefin /\ rg[l].del
  /\ UNCHANGED <<ctl, history>>
  /\ Put(l, [rg[l] EXCEPT !.sidefin = FALSE])

UserDelete(l) ==
  /\ Present(l) /\ ~rg[l].del
  /\ asked' = [asked EXCEPT ![Site(l)] = TRUE]
  /\ UNCHANGED <<ctl, policy, upset, renamed>>
  /\ Put(l, [rg[l] EXCEPT !.del = TRUE])

Finalize(l) ==
  /\ Present(l) /\ rg[l].del /\ ~rg[l].fin /\ ~rg[l].sidefin
  /\ UNCHANGED <<ctl, history>>
  /\ Put(l, NoRG)

\* An RG was created under the other name, and the source does not name it yet or is
\* about to look for the first name.
Unrecorded ==
  /\ renamed
  /\ \/ Present("src") /\ rg["src"].remote # "alt"
     \/ ctl["src"].pc = "sync" /\ ctl["src"].name = "same"

\* The RG that had the name is deleted by its own controllers or users.
ForeignLeaves ==
  /\ rg["same"].st \in {"owner", "group"}
  /\ Unrecorded => LeavesAnytime
  /\ UNCHANGED <<ctl, history>>
  /\ Put("same", NoRG)

Controller(l) ==
  \/ Reconcile(l) \/ LookupRemote(l) \/ RemoveFinalizer(l) \/ AddFinalizer(l)
  \/ DeleteOnRequest(l) \/ SyncRemote(l) \/ AnnotateSync(l)

\* What the sidecar does to the finalizer.
Sidecar(l) == SidecarProtects(l) \/ SidecarReleases(l)

Next ==
  \/ ForeignLeaves
  \/ \E l \in Slots :
       \/ Controller(l) \/ ReconcileFails(l) \/ Sidecar(l) \/ SidecarWrites(l)
       \/ UserDelete(l) \/ Finalize(l)

Spec == Init /\ [][Next]_vars

\* Workers go on and retry, the caches are resynchronised, the sidecar and the API server
\* do their part.
Fairness ==
  \A l \in Slots : WF_vars(Controller(l)) /\ WF_vars(Sidecar(l) \/ Finalize(l))

LiveSpec == Spec /\ Fairness

-----------------------------------------------------------------------------
(* Properties.                                                               *)

\* Every variable has its type.
TypeOK ==
  /\ rg \in [Slots -> RG]
  /\ fresh \in [Slots -> BOOLEAN]
  /\ ctl \in [Slots -> [pc : Steps, name : Slots \cup {"none"}, done : BOOLEAN]]
  /\ policy \in Policies /\ asked \in [Sites -> BOOLEAN] /\ upset \in BOOLEAN
  /\ renamed \in BOOLEAN

\* The slot of the target cluster that holds the peer.
Target == IF Present("same") THEN "same" ELSE "alt"

Here(s) == IF s = "src" THEN rg["src"] ELSE rg[Target]

\* An RG that nothing but the sidecar holds is gone for the controllers.
Held(s) == Here(s).st = "present" /\ (Here(s).del => Here(s).fin)

Pair == INSTANCE PairLifecycle WITH
  obj <- [s \in Sites |-> IF ~Held(s) THEN "absent" ELSE IF Here(s).del THEN "leaving" ELSE "live"],
  tied <- [s \in Sites |-> Held(s) /\ Here(s).fin /\ Here(s).remote # "none"],
  told <- [s \in Sites |-> Held(s) /\ Here(s).dreq]

\* The controllers of the two clusters keep the promise of PairLifecycle for RGs.
ImplementsPair == Pair!Spec

\* "If the RG already exists on the Remote Cluster, We treat this as idempotent" (line 287):
\* a group has at most one RG on the target cluster, whichever of the two names it got,
\* however often its creation was interrupted and whether or not the RG that had the name
\* goes.  With LeavesAnytime it is not so: the reconcile that does not find the name
\* recorded looks for the first name, which is free now.
TargetUnique == ~(Present("same") /\ Present("alt"))

\* From some time on no call fails and no status write comes in between.
Undisturbed == <>[][upset' = upset]_vars

\* A source RG that nobody deletes is synchronised in the end, when its name is free on
\* the target: a reconcile that finds the renamed RG already there fails (line 363).
SyncEnds ==
  Undisturbed /\ rg["same"].st = "absent" =>
    <>(rg["src"].synced \/ rg["src"].del \/ rg["same"].del \/ rg["alt"].del)

\* A deletion of an RG that knows its peer ends, so two deletions at once do not wait for
\* each other for ever.  Under "delete", one that the peer did not request, of an RG with
\* the finalizer, reaches both sites when only one user deletes.
DeletionEnds ==
  Undisturbed =>
    /\ \A s \in Sites : []<>(~(Here(s).del /\ Here(s).remote # "none"))
    /\ /\ policy = "delete"
       /\ \E s \in Sites : Here(s).del /\ ~Here(s).dreq /\ Here(s).fin /\ Here(s).remote # "none"
       ~> (\A l \in Slots : ~Present(l)) \/ (\A s \in Sites : asked[s])

=============================================================================
