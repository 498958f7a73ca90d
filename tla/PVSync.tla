------------------------------- MODULE PVSync -------------------------------
(***************************************************************************)
(* A replicated volume: its PersistentVolume on the source cluster, the    *)
(* replica's PersistentVolume on the target cluster, and the four          *)
(* reconcilers that keep the two in step.  On each cluster the csi-        *)
(* replicator protects the PV and deletes the backend volume on request    *)
(* (csi-replicator/persistentvolume_controller.go); the replication-       *)
(* controller creates the replica, links the two and synchronises their    *)
(* deletion (replication-controller/persistentvolume_controller.go).       *)
(*                                                                         *)
(* fresh[s] is the set of clients in a reconcile whose copy of the PV at s *)
(* is current: an Update by any other conflicts.  A remote Get that is     *)
(* followed at once by its Update is one step.  Annotation values are kept *)
(* only where the code tests them.                                         *)
(***************************************************************************)
EXTENDS Naturals

CONSTANTS
  Policies,       \* what remotePVRetentionPolicy of the storage class may be
  Foreign,        \* the target may hold a PV of that name made by someone else
  ClaimsDiffer    \* the claimRefs of the two PVs may differ

ASSUME PVSyncAssumption ==
  /\ Policies \subseteq {"retain", "delete"}
  /\ Foreign \in BOOLEAN
  /\ ClaimsDiffer \in BOOLEAN

Sites == {"src", "tgt"}
Other(s) == IF s = "src" THEN "tgt" ELSE "src"

\* Annotations: vol RemoteVolume, rg ReplicationGroup (set together with the cluster id
\* and the policy), prot PVProtectionComplete, peer RemotePV, synced PVSyncComplete,
\* dreq DeletionRequested, sync SynchronizedDeletionStatus.  fin is the
\* ReplicationFinalizer and del the deletion timestamp.
PV == [st : {"absent", "present", "foreign"}, vol : BOOLEAN, rg : BOOLEAN, prot : BOOLEAN,
       peer : BOOLEAN, synced : BOOLEAN, fin : BOOLEAN, del : BOOLEAN, dreq : BOOLEAN,
       sync : {"none", "requested", "complete"}]

NoPV == [st |-> "absent", vol |-> FALSE, rg |-> FALSE, prot |-> FALSE, peer |-> FALSE,
         synced |-> FALSE, fin |-> FALSE, del |-> FALSE, dreq |-> FALSE, sync |-> "none"]

CtlSteps == {"idle", "lookup", "removeFin", "addFin", "delete", "sync", "details",
             "remote", "local"}
SideSteps == {"idle", "createVol", "reread", "protect", "annotate", "markProt",
              "deleteVol", "complete"}

VARIABLES
  pv,       \* pv[s]: the PV object at s
  fresh,    \* fresh[s]: clients with a current copy of pv[s]
  ctl,      \* ctl[s]: next call of the replication-controller, what it read
  side,     \* side[s]: next call of the sidecar; it read a requested deletion
  array,    \* array[s]: the backend volume
  policy,   \* the remotePVRetentionPolicy of the storage class
  linked,   \* the replication group knows its remote group
  asked,    \* history: the user deleted the PV at s
  upset     \* history: changes with every failure of a call and every claimRef copied

history == <<policy, asked, upset>>
vars == <<pv, fresh, ctl, side, array, linked, history>>

Clients == {"ctl", "peer", "side"}

Init ==
  /\ pv \in {[src |-> [NoPV EXCEPT !.st = "present"], tgt |-> [NoPV EXCEPT !.st = t]] :
               t \in {"absent"} \cup (IF Foreign THEN {"foreign"} ELSE {})}
  /\ fresh = [s \in Sites |-> {}]
  /\ ctl = [s \in Sites |-> [pc |-> "idle", known |-> FALSE, rg |-> FALSE]]
  /\ side = [s \in Sites |-> [pc |-> "idle", req |-> FALSE]]
  /\ array = [src |-> "live", tgt |-> "none"]
  /\ policy \in Policies
  /\ linked = FALSE
  /\ asked = [s \in Sites |-> FALSE]
  /\ upset = FALSE

Present(s) == pv[s].st = "present"

\* The client that holds a copy of the PV at s is in a reconcile.
Busy(s, client) ==
  CASE client = "ctl"  -> ctl[s].pc # "idle"
    [] client = "peer" -> ctl[Other(s)].pc # "idle"
    [] client = "side" -> side[s].pc # "idle"

\* Of the copies f those stay whose reconcile goes on.
Keep(f) == fresh' = [s \in Sites |-> {c \in f[s] : Busy(s, c)'}]

\* An Update or a Create leaves only the copy of its own client current.
Put(s, o, client) ==
  /\ pv' = [pv EXCEPT ![s] = o]
  /\ Keep([fresh EXCEPT ![s] = {client} \cap Clients])

Read(s, client) == Keep([fresh EXCEPT ![s] = @ \cup {client}]) /\ UNCHANGED pv

NoWrite == Keep(fresh) /\ UNCHANGED pv

\* An Update by client of the PV at s: it takes effect only on a current copy.
Update(s, client, o) == IF client \in fresh[s] THEN Put(s, o, client) ELSE NoWrite

\* What a reconcile knows is gone when it ends.
Ctl(s, step) ==
  ctl' = [ctl EXCEPT ![s] = IF step = "idle" THEN [pc |-> "idle", known |-> FALSE, rg |-> FALSE]
                                             ELSE [@ EXCEPT !.pc = step]]
Side(s, step) ==
  side' = [side EXCEPT ![s] = [pc |-> step, req |-> step # "idle" /\ @.req]]

-----------------------------------------------------------------------------
(* Mutated forms of the definitions below.                                   *)

\* The status of a synchronised deletion is not looked at.
BranchWithoutSync(c) ==
  IF c.del
  THEN IF ~c.dreq /\ c.peer THEN "lookup" ELSE IF c.fin THEN "removeFin" ELSE "idle"
  ELSE IF ~c.fin THEN "addFin"
       ELSE IF c.dreq THEN "delete"
            ELSE IF c.prot /\ c.rg THEN "sync" ELSE "idle"

\* Any status holds the finalizer back.
BranchHeldBySync(c) ==
  IF c.del
  THEN IF ~c.dreq /\ c.peer THEN "lookup"
       ELSE IF c.sync # "none" \/ ~c.fin THEN "idle" ELSE "removeFin"
  ELSE IF ~c.fin THEN "addFin"
       ELSE IF c.dreq THEN "delete"
            ELSE IF c.prot /\ c.rg THEN "sync" ELSE "idle"

\* The finalizer is removed as soon as the peer has been asked.
LookupWithoutWaiting(s) ==
  LET o == Other(s) IN
  /\ ctl[s].pc = "lookup"
  /\ UNCHANGED <<side, array, linked, history>>
  /\ IF Present(o) /\ policy = "delete" /\ ~pv[o].dreq
     THEN /\ Ctl(s, "idle")
          /\ Put(o, [pv[o] EXCEPT !.dreq = TRUE, !.sync = "requested"], "peer")
     ELSE Ctl(s, "removeFin") /\ NoWrite

\* The sidecar deletes the volume of any PV that is being deleted.
SideBranchOnDelete(s, c) ==
  IF ~c.rg
  THEN IF s = "tgt" THEN "idle" ELSE IF c.vol THEN "protect" ELSE "createVol"
  ELSE IF ~c.prot THEN "markProt"
       ELSE IF c.del /\ c.sync # "complete" THEN "deleteVol" ELSE "idle"

-----------------------------------------------------------------------------
(* The replication-controller of site s.                                     *)

\* The predicates of the watch let the PV through and its cluster id is known; the
\* target's PV carries it from its creation.
Reconciles(s) ==
  /\ Present(s) /\ ctl[s].pc = "idle"
  /\ pv[s].prot \/ pv[s].del \/ pv[s].dreq
  /\ s = "src" => pv[s].rg

\* The branch that a PV leads to; "idle" is a return without a call.  A deletion that
\* is synchronised waits for the sidecar; a PV without its finalizer that is being
\* deleted cannot get one.
Branch(c) ==
  IF c.del
  THEN IF ~c.dreq /\ c.peer THEN "lookup"
       ELSE IF c.sync = "requested" \/ ~c.fin THEN "idle" ELSE "removeFin"
  ELSE IF ~c.fin THEN "addFin"
       ELSE IF c.dreq THEN "delete"
            ELSE IF c.prot /\ c.rg THEN "sync" ELSE "idle"

Reconcile(s) ==
  /\ Reconciles(s) /\ Branch(pv[s]) # "idle"
  /\ ctl' = [ctl EXCEPT ![s] = [pc |-> Branch(pv[s]), known |-> linked, rg |-> FALSE]]
  /\ UNCHANGED <<side, array, linked, history>>
  /\ Read(s, "ctl")

\* The PV at s is being deleted and was not asked to be: when the policy is "delete" an
\* existing peer is asked to go first, otherwise the finalizer is removed.
LookupRemote(s) ==
  LET o == Other(s)
      finish == IF pv[s].sync = "requested" \/ ~pv[s].fin THEN "idle" ELSE "removeFin"
  IN
  /\ ctl[s].pc = "lookup"
  /\ UNCHANGED <<side, array, linked, history>>
  /\ IF Present(o) /\ policy = "delete"
     THEN /\ Ctl(s, "idle")
          /\ IF pv[o].dreq THEN NoWrite
             ELSE Put(o, [pv[o] EXCEPT !.dreq = TRUE, !.sync = "requested"], "peer")
     ELSE Ctl(s, finish) /\ NoWrite

RemoveFinalizer(s) ==
  /\ ctl[s].pc = "removeFin"
  /\ Ctl(s, "idle")
  /\ UNCHANGED <<side, array, linked, history>>
  /\ Update(s, "ctl", [pv[s] EXCEPT !.fin = FALSE])

AddFinalizer(s) ==
  /\ ctl[s].pc = "addFin"
  /\ Ctl(s, "idle")
  /\ UNCHANGED <<side, array, linked, history>>
  /\ Update(s, "ctl", [pv[s] EXCEPT !.fin = TRUE])

\* A requested PV is deleted by name, whatever has been written to it since.
DeleteOnRequest(s) ==
  /\ ctl[s].pc = "delete"
  /\ Ctl(s, "idle")
  /\ UNCHANGED <<side, array, linked, history>>
  /\ IF Present(s) THEN Put(s, [pv[s] EXCEPT !.del = TRUE], "none") ELSE NoWrite

\* The PV made for the replica: with the finalizer, the name of its peer and, if known
\* by then, its group.
Replica(known) == [NoPV EXCEPT !.st = "present", !.fin = TRUE, !.peer = TRUE, !.rg = known]

\* The peer is created when it is not there.  The target's controller has no volume
\* handle for the source, and the API server refuses a PV without one.
SyncRemote(s) ==
  LET o == Other(s) IN
  /\ ctl[s].pc = "sync"
  /\ UNCHANGED <<side, array, linked, history>>
  /\ \/ /\ pv[o].st = "absent" /\ s = "src"
        /\ ctl' = [ctl EXCEPT ![s] = [pc |-> "details", known |-> @.known, rg |-> @.known]]
        /\ Put(o, Replica(ctl[s].known), "peer")
     \/ /\ Present(o)
        /\ ctl' = [ctl EXCEPT ![s] = [pc |-> "details", known |-> @.known, rg |-> pv[o].rg]]
        /\ Read(o, "peer")
     \/ /\ pv[o].st = "foreign" \/ (pv[o].st = "absent" /\ s = "tgt")
        /\ Ctl(s, "idle") /\ NoWrite

\* The local PV is read again, an error if it is gone; a claimRef that differs is copied
\* to the peer, and a conflict of that update is ignored.
UpdateRemotePVDetails(s) ==
  LET o == Other(s) IN
  /\ ctl[s].pc = "details"
  /\ Ctl(s, IF Present(s) THEN "remote" ELSE "idle")
  /\ UNCHANGED <<pv, side, array, linked, policy, asked>>
  /\ \/ /\ Present(s) /\ ClaimsDiffer /\ "peer" \in fresh[o]
        /\ Keep([fresh EXCEPT ![o] = {"peer"}, ![s] = @ \cup {"ctl"}])
        /\ upset' = ~upset
     \/ /\ Present(s)
        /\ Keep([fresh EXCEPT ![s] = @ \cup {"ctl"}])
        /\ UNCHANGED upset
     \/ ~Present(s) /\ Keep(fresh) /\ UNCHANGED upset

\* Without the name of the remote group the reconcile is requeued; a conflict ends it.
ProcessRemotePV(s) ==
  LET o == Other(s) IN
  /\ ctl[s].pc = "remote"
  /\ Ctl(s, IF ctl[s].known /\ (ctl[s].rg \/ "peer" \in fresh[o]) THEN "local" ELSE "idle")
  /\ UNCHANGED <<side, array, linked, history>>
  /\ IF ctl[s].known /\ ~ctl[s].rg THEN Update(o, "peer", [pv[o] EXCEPT !.rg = TRUE])
                                   ELSE NoWrite

ProcessLocalPV(s) ==
  /\ ctl[s].pc = "local"
  /\ Ctl(s, "idle")
  /\ UNCHANGED <<side, array, linked, history>>
  /\ IF pv[s].synced \/ pv[s].peer THEN NoWrite
     ELSE Update(s, "ctl", [pv[s] EXCEPT !.peer = TRUE, !.synced = TRUE])

\* A call fails, or the controller restarts.
ReconcileFails(s) ==
  /\ ctl[s].pc # "idle"
  /\ Ctl(s, "idle")
  /\ upset' = ~upset
  /\ UNCHANGED <<side, array, linked, policy, asked>>
  /\ NoWrite

-----------------------------------------------------------------------------
(* The csi-replicator of site s.                                             *)

\* The replica is expected to get its group from the source's controller; the source
\* gets its remote volume and its group from the driver.
SideBranch(s, c) ==
  IF ~c.rg
  THEN IF s = "tgt" THEN "idle" ELSE IF c.vol THEN "protect" ELSE "createVol"
  ELSE IF ~c.prot THEN "markProt"
       ELSE IF c.sync = "requested" THEN "deleteVol" ELSE "idle"

SideReconcile(s) ==
  /\ Present(s) /\ side[s].pc = "idle" /\ SideBranch(s, pv[s]) # "idle"
  /\ side' = [side EXCEPT ![s] = [pc |-> SideBranch(s, pv[s]), req |-> pv[s].sync = "requested"]]
  /\ UNCHANGED <<ctl, array, linked, history>>
  /\ Read(s, "side")

CreateRemoteVolume(s) ==
  /\ side[s].pc = "createVol"
  /\ array' = [array EXCEPT ![Other(s)] = IF @ = "none" THEN "live" ELSE @]
  /\ Side(s, IF "side" \in fresh[s] THEN "reread" ELSE "idle")
  /\ UNCHANGED <<ctl, linked, history>>
  /\ Update(s, "side", [pv[s] EXCEPT !.vol = TRUE])

\* The protection group and the replication group are there; the PV is read again if
\* it was updated in this reconcile, an error if it is gone.
CreateProtectionGroupAndRG(s) ==
  /\ UNCHANGED <<ctl, array, linked, history>>
  /\ \/ /\ side[s].pc = "protect"
        /\ Side(s, "annotate") /\ NoWrite
     \/ /\ side[s].pc = "reread" /\ Present(s)
        /\ Side(s, "annotate") /\ Read(s, "side")
     \/ /\ side[s].pc = "reread" /\ ~Present(s)
        /\ Side(s, "idle") /\ NoWrite

ProcessVolumeForReplicationGroup(s) ==
  /\ side[s].pc = "annotate"
  /\ Side(s, "idle")
  /\ UNCHANGED <<ctl, array, linked, history>>
  /\ Update(s, "side", [pv[s] EXCEPT !.rg = TRUE, !.prot = TRUE])

\* A failed update is only logged: the reconcile goes on to a requested deletion.
MarkProtected(s) ==
  /\ side[s].pc = "markProt"
  /\ Side(s, IF side[s].req THEN "deleteVol" ELSE "idle")
  /\ UNCHANGED <<ctl, array, linked, history>>
  /\ Update(s, "side", [pv[s] EXCEPT !.prot = TRUE])

DeleteLocalVolume(s) ==
  /\ side[s].pc = "deleteVol"
  /\ array' = [array EXCEPT ![s] = "deleted"]
  /\ Side(s, "complete")
  /\ UNCHANGED <<pv, fresh, ctl, linked, history>>

MarkComplete(s) ==
  /\ side[s].pc = "complete"
  /\ Side(s, "idle")
  /\ UNCHANGED <<ctl, array, linked, history>>
  /\ Update(s, "side", [pv[s] EXCEPT !.sync = "complete"])

\* A call of the sidecar fails, or it restarts.
SidecarFails(s) ==
  /\ side[s].pc # "idle"
  /\ Side(s, "idle")
  /\ upset' = ~upset
  /\ UNCHANGED <<ctl, array, linked, policy, asked>>
  /\ NoWrite

-----------------------------------------------------------------------------
(* The cluster and its users.                                                *)

\* The replication group is synchronised: module RGSync.
LinkGroups ==
  /\ ~linked /\ pv["src"].rg
  /\ linked' = TRUE
  /\ UNCHANGED <<pv, fresh, ctl, side, array, history>>

UserDelete(s) ==
  /\ Present(s) /\ ~pv[s].del
  /\ asked' = [asked EXCEPT ![s] = TRUE]
  /\ UNCHANGED <<ctl, side, array, linked, policy, upset>>
  /\ Put(s, [pv[s] EXCEPT !.del = TRUE], "none")

\* The API server removes an object that is being deleted once its finalizers are gone.
Finalize(s) ==
  /\ Present(s) /\ pv[s].del /\ ~pv[s].fin
  /\ UNCHANGED <<ctl, side, array, linked, history>>
  /\ Put(s, NoPV, "none")

Controller(s) ==
  \/ Reconcile(s) \/ LookupRemote(s) \/ RemoveFinalizer(s) \/ AddFinalizer(s)
  \/ DeleteOnRequest(s) \/ SyncRemote(s) \/ UpdateRemotePVDetails(s)
  \/ ProcessRemotePV(s) \/ ProcessLocalPV(s)

Sidecar(s) ==
  \/ SideReconcile(s) \/ CreateRemoteVolume(s) \/ CreateProtectionGroupAndRG(s)
  \/ ProcessVolumeForReplicationGroup(s) \/ MarkProtected(s)
  \/ DeleteLocalVolume(s) \/ MarkComplete(s)

Next ==
  \/ LinkGroups
  \/ \E s \in Sites :
       \/ Controller(s) \/ ReconcileFails(s) \/ Sidecar(s) \/ SidecarFails(s)
       \/ UserDelete(s) \/ Finalize(s)

Spec == Init /\ [][Next]_vars

\* Workers go on and retry what they have to do, the resync of the caches brings every PV
\* back to its reconcilers, and the API server removes what nothing holds.
Fairness ==
  /\ WF_vars(LinkGroups)
  /\ \A s \in Sites : WF_vars(Controller(s)) /\ WF_vars(Sidecar(s)) /\ WF_vars(Finalize(s))

LiveSpec == Spec /\ Fairness

-----------------------------------------------------------------------------
(* Properties.                                                               *)

\* Every variable has its type.
TypeOK ==
  /\ pv \in [Sites -> PV]
  /\ fresh \in [Sites -> SUBSET Clients]
  /\ ctl \in [Sites -> [pc : CtlSteps, known : BOOLEAN, rg : BOOLEAN]]
  /\ side \in [Sites -> [pc : SideSteps, req : BOOLEAN]]
  /\ array \in [Sites -> {"none", "live", "deleted"}]
  /\ policy \in Policies /\ linked \in BOOLEAN
  /\ asked \in [Sites -> BOOLEAN] /\ upset \in BOOLEAN

\* The pair of PVs as its abstract specification sees it.  A foreign PV is no object of
\* the pair, and one that is being deleted without the finalizer is as good as gone.
Held(s) == Present(s) /\ (pv[s].del => pv[s].fin)

Pair == INSTANCE PairLifecycle WITH
  obj <- [s \in Sites |-> IF ~Held(s) THEN "absent" ELSE IF pv[s].del THEN "leaving" ELSE "live"],
  tied <- [s \in Sites |-> Held(s) /\ pv[s].fin /\ pv[s].peer],
  told <- [s \in Sites |-> Held(s) /\ pv[s].dreq]

\* The reconcilers of the two clusters keep the promise of PairLifecycle: no PV is
\* deleted that no user asked for, and under "delete" a linked PV outlives its peer,
\* whatever the order of reads, writes, conflicts and restarts.
ImplementsPair == Pair!Spec

\* A backend volume is deleted by the sidecar only when the policy says "delete" and the
\* user deleted the peer's PV: the request is never stale, or meant for a PV of the same
\* name that came later.
VolumeKept == \A s \in Sites : array[s] = "deleted" => policy = "delete" /\ asked[Other(s)]

\* A PV that was told to leave loses its finalizer only after its backend volume is
\* deleted: "complete: DeleteLocalVolume has completed" (controllers/common.go).
VolumeBeforePV ==
  [][\A s \in Sites : pv[s].fin /\ pv[s].dreq /\ ~pv'[s].fin => array[s] = "deleted"]_vars

\* From some time on no call fails and no claimRef changes.
CallsSucceed == <>[][upset' = upset]_vars

\* A deletion of a linked PV ends, at both sites when the policy is "delete": the two
\* controllers, each waiting for the other's PV, never wait for each other for good.
DeletionEnds ==
  CallsSucceed =>
    /\ \A s \in Sites : []<>(~pv[s].del)
    /\ policy = "delete" /\ (\E s \in Sites : pv[s].del /\ pv[s].peer) ~>
         \A s \in Sites : ~Present(s)

=============================================================================
