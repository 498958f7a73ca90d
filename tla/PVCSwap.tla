------------------------------ MODULE PVCSwap ------------------------------
(***************************************************************************)
(* The PVC remap of the replication controller.  After a failover or a     *)
(* failback inside one cluster (remote cluster id "self") the controller   *)
(* moves every PersistentVolumeClaim of the group from its volume to the   *)
(* replica: it saves the claim as an annotation of the local PV, deletes   *)
(* it, re-creates it on the target PV and repairs both PVs (swapAllPVC,    *)
(* swapPVC in replication-controller/dellcsireplicationgroup_controller.go)*)
(*                                                                         *)
(* One claim and its two volumes are modelled.  The goroutines of          *)
(* swapAllPVC share no object; what couples them, the repetition of the    *)
(* whole swap when one of them failed, is the repetition modelled here.    *)
(* Volume p carries the label of replication group p, so PV also names the *)
(* two groups.  A worker is a reconcile of one of them.  Get followed by   *)
(* Update of the copy just read succeeds only when nothing was written in  *)
(* between, and is one step; every step may also fail (Fail).              *)
(***************************************************************************)
EXTENDS Integers

CONSTANTS
  Workers,                  \* concurrent reconciles that may swap the claim
  NoBackup,                 \* the PendingPVCSwap annotation is absent
  EnableKubevirtPVCRemap,   \* flag --enable-kubevirt-pvc-remap
  ForeignClaims,            \* other claims may bind to an unclaimed volume
  LookupErrors,             \* reads of the orphan pass may fail, which is only logged
  ClearErrors,              \* clearing a backup may fail, which is only logged
  StaleCache                \* the informer cache may lag behind the server

ASSUME FlagAssumption ==
  /\ EnableKubevirtPVCRemap \in BOOLEAN
  /\ ForeignClaims \in BOOLEAN
  /\ LookupErrors \in BOOLEAN
  /\ ClearErrors \in BOOLEAN
  /\ StaleCache \in BOOLEAN

PV == {1, 2}
Other(p) == 3 - p

Policies == {"Retain", "Delete"}
Claims == {"none", "reserved", "bound", "released", "foreign"}
Backup == [vol : PV, rem : PV, dv : BOOLEAN, lp : Policies, tp : Policies]
ASSUME NoBackupAssumption == NoBackup \notin Backup

PVObject == [claim : Claims, policy : Policies, backup : Backup \cup {NoBackup}]
PVCObject == [st : {"present", "terminating", "gone"},
              vol : PV, rem : PV, rg : PV, dv : BOOLEAN]
MemPVC == [vol : PV, rem : PV, dv : BOOLEAN]

SwapSteps == {"get", "recover", "readLocal", "readTarget", "unreserve", "save",
              "retain", "delete", "wait", "create", "claim", "verify", "clear",
              "release", "reserve", "restoreTarget", "restoreLocal"}

VARIABLES
  pvc,     \* the claim in the API server; when gone, as it was when it was deleted
  pv,      \* its two volumes in the API server
  orig,    \* history: the reclaim policies before the first swap
  past,    \* history: the mishaps there have been; a fault counts while there is no other
  cache,   \* backups of the volumes as the controller's informer last saw them
  job,     \* job[w]: the group whose swap the last action of w asks for, or 0
  pc,      \* where reconcile w is
  listed,  \* listed[w]: the claim is in swappedPVCNames
  failed,  \* failed[w]: errs is not empty
  tgt,     \* tgt[w]: argument targetPV of swapPVC
  mem,     \* mem[w]: the claim swapPVC works on, before its fields are swapped
  pol,     \* pol[w]: localPVPolicy and remotePVPolicy
  snap     \* snap[w]: the copy of the local PV that savePVCBackupToPV updates

local == <<job, listed, failed, tgt, mem, pol, snap>>
vars == <<pvc, pv, orig, past, cache, pc, local>>

NoMem == [vol |-> 1, rem |-> 2, dv |-> FALSE]
NoPol == [l |-> "Retain", t |-> "Retain"]
NoSnap == [claim |-> "none", policy |-> "Retain", backup |-> NoBackup]

(***************************************************************************)
(* The claim uses volume 1 and may be owned by a CDI DataVolume (dv); its  *)
(* replica, volume 2, was created by the controller with a reserved        *)
(* ClaimRef.                                                               *)
(***************************************************************************)
Init ==
  /\ \E owned \in BOOLEAN :
       pvc = [st |-> "present", vol |-> 1, rem |-> 2, rg |-> 1, dv |-> owned]
  /\ orig \in [PV -> Policies]
  /\ pv = [p \in PV |-> [claim  |-> IF p = 1 THEN "bound" ELSE "reserved",
                         policy |-> orig[p],
                         backup |-> NoBackup]]
  /\ past = {}
  /\ cache = [p \in PV |-> NoBackup]
  /\ job = [w \in Workers |-> 0]
  /\ pc = [w \in Workers |-> "idle"]
  /\ listed = [w \in Workers |-> FALSE]
  /\ failed = [w \in Workers |-> FALSE]
  /\ tgt = [w \in Workers |-> 2]
  /\ mem = [w \in Workers |-> NoMem]
  /\ pol = [w \in Workers |-> NoPol]
  /\ snap = [w \in Workers |-> NoSnap]

Goto(w, step) == pc' = [pc EXCEPT ![w] = step]

\* What the properties distinguish: a failed step, a crash or a foreign claim; a
\* backup that could not be cleared; an action overtaken or a backup not seen yet.
Mishaps == {"fault", "uncleared", "lost"}

Mishap(m) == IF m = "fault" /\ past # {} THEN past ELSE (past \ {"fault"}) \cup {m}

SetPV(p, obj) == pv' = [pv EXCEPT ![p] = obj]

(***************************************************************************)
(* A new action completed on the group of w: LastAction changes, and with  *)
(* it what processLastActionResult will do.  0 stands for the actions that *)
(* move no claim.                                                          *)
(***************************************************************************)
NewAction(w) ==
  /\ pc[w] = "idle"
  /\ \E r \in PV \cup {0} : job' = [job EXCEPT ![w] = r]
  /\ past' = IF job[w] # 0 THEN Mishap("lost") ELSE past
  /\ UNCHANGED <<pvc, pv, orig, cache, pc, listed, failed, tgt, mem, pol, snap>>

(***************************************************************************)
(* The event of an unprocessed action is handled: swapAllPVC lists the     *)
(* claims labelled with the group.                                         *)
(***************************************************************************)
ListClaims(w) ==
  /\ pc[w] = "idle"
  /\ job[w] # 0
  /\ LET found == pvc.st # "gone" /\ pvc.rg = job[w]
     IN  /\ listed' = [listed EXCEPT ![w] = found]
         /\ tgt' = [tgt EXCEPT ![w] = IF found THEN pvc.rem ELSE @]
         /\ Goto(w, IF found THEN "get" ELSE "orphans")
  /\ failed' = [failed EXCEPT ![w] = FALSE]
  /\ UNCHANGED <<pvc, pv, orig, past, cache, job, mem, pol, snap>>

\* swapPVC reads the claim; a claim of a DataVolume is left alone when KubeVirt
\* remap is off; a claim that is gone is looked up in the backup.
GetClaim(w) ==
  /\ pc[w] = "get"
  /\ LET read == pvc.st # "gone" /\ (pvc.dv => EnableKubevirtPVCRemap)
     IN  /\ mem' = [mem EXCEPT ![w] =
              IF read THEN [vol |-> pvc.vol, rem |-> pvc.rem, dv |-> pvc.dv] ELSE @]
         /\ Goto(w, IF read THEN "readLocal"
                    ELSE IF pvc.st = "gone" THEN "recover" ELSE "orphans")
  /\ UNCHANGED <<pvc, pv, orig, past, cache, job, listed, failed, tgt, pol, snap>>

\* A recovery that consumes the backup when it reads it.
RecoverAndConsume(w) ==
  /\ pc[w] = "recover"
  /\ LET l == Other(tgt[w])
         b == pv[l].backup
     IN  /\ b # NoBackup
         /\ mem' = [mem EXCEPT ![w] = [vol |-> b.vol, rem |-> b.rem, dv |-> b.dv]]
         /\ pol' = [pol EXCEPT ![w] = [l |-> b.lp, t |-> b.tp]]
         /\ SetPV(l, [pv[l] EXCEPT !.backup = NoBackup])
  /\ Goto(w, "create")
  /\ UNCHANGED <<pvc, orig, past, cache, job, listed, failed, tgt, snap>>

\* The local PV is found through the RemotePV annotation of the target PV.
RecoverPVCBackup(w) ==
  /\ pc[w] = "recover"
  /\ LET b == pv[Other(tgt[w])].backup
     IN  /\ b # NoBackup
         /\ mem' = [mem EXCEPT ![w] = [vol |-> b.vol, rem |-> b.rem, dv |-> b.dv]]
         /\ pol' = [pol EXCEPT ![w] = [l |-> b.lp, t |-> b.tp]]
  /\ Goto(w, "create")
  /\ UNCHANGED <<pvc, pv, orig, past, cache, job, listed, failed, tgt, snap>>

ReadLocalPV(w) ==
  /\ pc[w] = "readLocal"
  /\ snap' = [snap EXCEPT ![w] = pv[mem[w].vol]]
  /\ pol' = [pol EXCEPT ![w].l = pv[mem[w].vol].policy]
  /\ Goto(w, "readTarget")
  /\ UNCHANGED <<pvc, pv, orig, past, cache, job, listed, failed, tgt, mem>>

\* The target PV should be unclaimed: a reservation is removed, so is a ClaimRef
\* to a claim that is gone; any other ClaimRef is an error (Fail).
ReadTargetPV(w) ==
  /\ pc[w] = "readTarget"
  /\ LET t == mem[w].rem
         c == pv[t].claim
     IN  /\ pol' = [pol EXCEPT ![w].t = pv[t].policy]
         /\ \/ c = "none" /\ Goto(w, "save") /\ UNCHANGED pv
            \/ c = "reserved" /\ Goto(w, "unreserve") /\ UNCHANGED pv
            \/ /\ c \in {"bound", "released"}
               /\ pvc.st = "gone"
               /\ SetPV(t, [pv[t] EXCEPT !.claim = "none"])
               /\ Goto(w, "save")
  /\ UNCHANGED <<pvc, orig, past, cache, job, listed, failed, tgt, mem, snap>>

\* removeReservedClaimRefForTargetPV repeats until it reads no ClaimRef.
RemoveReservedClaimRef(w) ==
  /\ pc[w] = "unreserve"
  /\ LET t == mem[w].rem
     IN  \/ pv[t].claim = "none" /\ Goto(w, "save") /\ UNCHANGED pv
         \/ /\ pv[t].claim # "none"
            /\ SetPV(t, [pv[t] EXCEPT !.claim = "none"])
            /\ UNCHANGED pc
  /\ UNCHANGED <<pvc, orig, past, cache, local>>

\* SavePVCBackup that forgets to set the policy.
SaveWithoutRetain(w) ==
  /\ pc[w] = "save"
  /\ LET l == mem[w].vol
     IN  /\ pv[l] = snap[w]
         /\ SetPV(l, [snap[w] EXCEPT
              !.backup = [vol |-> mem[w].vol, rem |-> mem[w].rem, dv |-> mem[w].dv,
                          lp |-> pol[w].l, tp |-> pol[w].t]])
  /\ Goto(w, "retain")
  /\ snap' = [snap EXCEPT ![w] = NoSnap]
  /\ UNCHANGED <<pvc, orig, past, cache, job, listed, failed, tgt, mem, pol>>

\* The copy of the local PV was read before the checks of the target PV: the
\* update conflicts when the PV was written since.  The copy is not used again.
SavePVCBackup(w) ==
  /\ pc[w] = "save"
  /\ LET l == mem[w].vol
     IN  /\ pv[l] = snap[w]
         /\ SetPV(l, [snap[w] EXCEPT
              !.policy = "Retain",
              !.backup = [vol |-> mem[w].vol, rem |-> mem[w].rem, dv |-> mem[w].dv,
                          lp |-> pol[w].l, tp |-> pol[w].t]])
  /\ Goto(w, "retain")
  /\ snap' = [snap EXCEPT ![w] = NoSnap]
  /\ UNCHANGED <<pvc, orig, past, cache, job, listed, failed, tgt, mem, pol>>

RetainTargetPV(w) ==
  /\ pc[w] = "retain"
  /\ SetPV(mem[w].rem, [pv[mem[w].rem] EXCEPT !.policy = "Retain"])
  /\ Goto(w, "delete")
  /\ UNCHANGED <<pvc, orig, past, cache, local>>

\* A DataVolume that owned the claim when it was read may be deleted in its place; one
\* that belongs to a VirtualMachine is an error (Fail), one that is gone is ignored.
HandleDataVolumeDependencies(w) == EnableKubevirtPVCRemap /\ mem[w].dv

(***************************************************************************)
(* The claim is deleted by name, whatever its UID; a claim that is gone is *)
(* an error (Refused).  When its DataVolume was deleted instead, the       *)
(* garbage collector deletes the claim if the DataVolume still owns it.    *)
(***************************************************************************)
DeletePVC(w) ==
  /\ pc[w] = "delete"
  /\ \/ /\ pvc.st # "gone"
        /\ pvc' = [pvc EXCEPT !.st = "terminating"]
     \/ /\ HandleDataVolumeDependencies(w)
        /\ pvc.st = "gone" \/ ~pvc.dv
        /\ UNCHANGED pvc
  /\ Goto(w, "wait")
  /\ UNCHANGED <<pv, orig, past, cache, local>>

WaitDeleted(w) ==
  /\ pc[w] = "wait"
  /\ pvc.st = "gone"
  /\ Goto(w, "create")
  /\ UNCHANGED <<pvc, pv, orig, past, cache, local>>

\* CreatePVC that leaves the RemotePV annotation as it was.
CreateUnswapped(w) ==
  /\ pc[w] = "create"
  /\ pvc.st = "gone"
  /\ pvc' = [st |-> "present", vol |-> tgt[w], rem |-> mem[w].rem, rg |-> Other(job[w]),
             dv |-> mem[w].dv /\ ~EnableKubevirtPVCRemap]
  /\ Goto(w, "claim")
  /\ UNCHANGED <<pv, orig, past, cache, local>>

\* The claim returns with volume and annotation swapped and the labels of the
\* target group; a claim that exists already is an error (Fail).
CreatePVC(w) ==
  /\ pc[w] = "create"
  /\ pvc.st = "gone"
  /\ pvc' = [st |-> "present", vol |-> tgt[w], rem |-> mem[w].vol, rg |-> Other(job[w]),
             dv |-> mem[w].dv /\ ~EnableKubevirtPVCRemap]
  /\ Goto(w, "claim")
  /\ UNCHANGED <<pv, orig, past, cache, local>>

\* A ClaimRef that is already there is left, whoever it names.
UpdatePVClaimRef(w) ==
  /\ pc[w] = "claim"
  /\ \/ pv[tgt[w]].claim # "none" /\ UNCHANGED pv
     \/ /\ pv[tgt[w]].claim = "none"
        /\ SetPV(tgt[w], [pv[tgt[w]] EXCEPT
              !.claim = IF pvc.st = "gone" \/ pvc.vol # tgt[w] THEN "released" ELSE "bound"])
  /\ Goto(w, "verify")
  /\ UNCHANGED <<pvc, orig, past, cache, local>>

VerifyPVC(w) ==
  /\ pc[w] = "verify"
  /\ pvc.st # "gone" /\ pvc.vol = tgt[w] /\ pvc.rem = mem[w].vol
  /\ Goto(w, "clear")
  /\ UNCHANGED <<pvc, pv, orig, past, cache, local>>

\* The backup is left for SetReservedClaimRef to clear.
ClearLater(w) ==
  /\ pc[w] = "clear"
  /\ Goto(w, "release")
  /\ UNCHANGED <<pvc, pv, orig, past, cache, local>>

\* An error here is only a warning.
ClearPendingPVCSwap(w) ==
  /\ pc[w] = "clear"
  /\ \/ SetPV(mem[w].vol, [pv[mem[w].vol] EXCEPT !.backup = NoBackup]) /\ UNCHANGED past
     \/ ClearErrors /\ past' = Mishap("uncleared") /\ UNCHANGED pv
  /\ Goto(w, "release")
  /\ UNCHANGED <<pvc, orig, cache, local>>

RemovePVClaimRef(w) ==
  /\ pc[w] = "release"
  /\ LET l == mem[w].vol
     IN  \/ pv[l].claim = "none" /\ Goto(w, "reserve") /\ UNCHANGED pv
         \/ /\ pv[l].claim # "none"
            /\ SetPV(l, [pv[l] EXCEPT !.claim = "none"])
            /\ UNCHANGED pc
  /\ UNCHANGED <<pvc, orig, past, cache, local>>

\* The reservation replaces whatever ClaimRef the PV has by now.
SetReservedClaimRef(w) ==
  /\ pc[w] = "reserve"
  /\ SetPV(mem[w].vol, [pv[mem[w].vol] EXCEPT !.claim = "reserved", !.backup = NoBackup])
  /\ Goto(w, "restoreTarget")
  /\ UNCHANGED <<pvc, orig, past, cache, local>>

RestoreTargetPolicy(w) ==
  /\ pc[w] = "restoreTarget"
  /\ SetPV(tgt[w], [pv[tgt[w]] EXCEPT !.policy = pol[w].t])
  /\ Goto(w, "restoreLocal")
  /\ UNCHANGED <<pvc, orig, past, cache, local>>

\* RestoreLocalPolicy with the policy of the other volume.
RestoreWrongPolicy(w) ==
  /\ pc[w] = "restoreLocal"
  /\ SetPV(mem[w].vol, [pv[mem[w].vol] EXCEPT !.policy = pol[w].t])
  /\ Goto(w, "orphans")
  /\ UNCHANGED <<pvc, orig, past, cache, local>>

RestoreLocalPolicy(w) ==
  /\ pc[w] = "restoreLocal"
  /\ SetPV(mem[w].vol, [pv[mem[w].vol] EXCEPT !.policy = pol[w].l])
  /\ Goto(w, "orphans")
  /\ UNCHANGED <<pvc, orig, past, cache, local>>

\* No orphan pass: only claims that are still listed are swapped.
SkipOrphans(w) ==
  /\ pc[w] = "orphans"
  /\ Goto(w, "end")
  /\ UNCHANGED <<pvc, pv, orig, past, cache, local>>

(***************************************************************************)
(* The orphan pass reads the PVs of the group from the informer cache; a   *)
(* list that fails ends the pass without an error.  A claim that was       *)
(* listed is skipped; one that is already on the target PV only has its    *)
(* annotation cleared; any other, and one whose lookup failed for whatever *)
(* reason, is swapped.  It then counts as listed, so that the pass ends    *)
(* when swapPVC returns to it.                                             *)
(***************************************************************************)
RecoverOrphans(w) ==
  /\ pc[w] = "orphans"
  /\ \E b \in {pv[job[w]].backup} \cup (IF StaleCache THEN {cache[job[w]]} ELSE {}) :
     /\ past' = IF b = NoBackup /\ pv[job[w]].backup # NoBackup
               THEN Mishap("lost") ELSE past
     /\ \/ /\ b = NoBackup \/ listed[w] \/ LookupErrors
           /\ Goto(w, "end")
           /\ UNCHANGED <<tgt, listed>>
        \/ /\ b # NoBackup /\ ~listed[w]
           /\ pvc.st # "gone" /\ pvc.vol = b.rem
           /\ Goto(w, "clearStale")
           /\ UNCHANGED <<tgt, listed>>
        \/ /\ b # NoBackup /\ ~listed[w]
           /\ pvc.st = "gone" \/ pvc.vol # b.rem \/ LookupErrors
           /\ tgt' = [tgt EXCEPT ![w] = b.rem]
           /\ listed' = [listed EXCEPT ![w] = TRUE]
           /\ Goto(w, "get")
  /\ UNCHANGED <<pvc, pv, orig, cache, job, failed, mem, pol, snap>>

\* A failure to clear the annotation is only a warning.
ClearStaleBackup(w) ==
  /\ pc[w] = "clearStale"
  /\ \/ SetPV(job[w], [pv[job[w]] EXCEPT !.backup = NoBackup]) /\ UNCHANGED past
     \/ ClearErrors /\ past' = Mishap("uncleared") /\ UNCHANGED pv
  /\ Goto(w, "end")
  /\ UNCHANGED <<pvc, orig, cache, local>>

(***************************************************************************)
(* swapAllPVC returns.  Without an error the group is annotated with the   *)
(* time of the action it processed; that update may conflict, and then, as *)
(* after an error, a later event of the group repeats the swap.            *)
(***************************************************************************)
EndSwap(w) ==
  /\ pc[w] = "end"
  /\ \/ ~failed[w] /\ job' = [job EXCEPT ![w] = 0]
     \/ UNCHANGED job
  /\ Goto(w, "idle")
  /\ listed' = [listed EXCEPT ![w] = FALSE]
  /\ failed' = [failed EXCEPT ![w] = FALSE]
  /\ tgt' = [tgt EXCEPT ![w] = 2]
  /\ mem' = [mem EXCEPT ![w] = NoMem]
  /\ pol' = [pol EXCEPT ![w] = NoPol]
  /\ snap' = [snap EXCEPT ![w] = NoSnap]
  /\ UNCHANGED <<pvc, pv, orig, past, cache>>

\* swapPVC returns an error, and what it has read is gone; swapAllPVC collects the error.
ReturnError(w) ==
  /\ failed' = [failed EXCEPT ![w] = TRUE]
  /\ past' = Mishap("fault")
  /\ Goto(w, "orphans")
  /\ tgt' = [tgt EXCEPT ![w] = 2]
  /\ mem' = [mem EXCEPT ![w] = NoMem]
  /\ pol' = [pol EXCEPT ![w] = NoPol]
  /\ snap' = [snap EXCEPT ![w] = NoSnap]
  /\ UNCHANGED <<pvc, pv, orig, cache, job, listed>>

\* The errors that the state of the objects leaves no way around: no backup to
\* recover from, a claimed target, a conflict, a claim that is gone before it is
\* deleted or back before it is created, and a verification that times out.
Refused(w) ==
  \/ pc[w] = "recover" /\ pv[Other(tgt[w])].backup = NoBackup
  \/ /\ pc[w] = "readTarget"
     /\ \/ pv[mem[w].rem].claim = "foreign"
        \/ pv[mem[w].rem].claim \in {"bound", "released"} /\ pvc.st # "gone"
  \/ pc[w] = "save" /\ pv[mem[w].vol] # snap[w]
  \/ pc[w] = "delete" /\ pvc.st = "gone"
  \/ pc[w] = "create" /\ pvc.st # "gone"
  \/ /\ pc[w] = "verify"
     /\ ~(pvc.st # "gone" /\ pvc.vol = tgt[w] /\ pvc.rem = mem[w].vol)

Refuse(w) == Refused(w) /\ ReturnError(w)

\* Any other error of an API call, and the wait for the deletion timing out.
Fail(w) == pc[w] \in SwapSteps /\ ReturnError(w)

\* The controller restarts: every reconcile is lost, the cache is read afresh.
Crash ==
  /\ pc' = [w \in Workers |-> "idle"]
  /\ past' = Mishap("fault")
  /\ cache' = [p \in PV |-> pv[p].backup]
  /\ listed' = [w \in Workers |-> FALSE]
  /\ failed' = [w \in Workers |-> FALSE]
  /\ tgt' = [w \in Workers |-> 2]
  /\ mem' = [w \in Workers |-> NoMem]
  /\ pol' = [w \in Workers |-> NoPol]
  /\ snap' = [w \in Workers |-> NoSnap]
  /\ UNCHANGED <<pvc, pv, orig, job>>

SyncCache ==
  /\ StaleCache
  /\ cache' = [p \in PV |-> pv[p].backup]
  /\ UNCHANGED <<pvc, pv, orig, past, pc, local>>

(***************************************************************************)
(* Kubernetes itself (external).  A terminating claim disappears once no   *)
(* pod uses it, which leaves its volume released; an unclaimed volume is   *)
(* bound to the claim that names it, or to any other pending claim.        *)
(***************************************************************************)
ClaimRemoved ==
  /\ pvc.st = "terminating"
  /\ pvc' = [pvc EXCEPT !.st = "gone"]
  /\ pv' = [p \in PV |->
       [pv[p] EXCEPT !.claim = IF @ = "bound" THEN "released" ELSE @]]
  /\ UNCHANGED <<orig, past, cache, pc, local>>

Bind ==
  /\ pvc.st = "present"
  /\ pv[pvc.vol].claim = "none"
  /\ SetPV(pvc.vol, [pv[pvc.vol] EXCEPT !.claim = "bound"])
  /\ UNCHANGED <<pvc, orig, past, cache, pc, local>>

ForeignBind(p) ==
  /\ ForeignClaims
  /\ pv[p].claim = "none"
  /\ SetPV(p, [pv[p] EXCEPT !.claim = "foreign"])
  /\ past' = Mishap("fault")
  /\ UNCHANGED <<pvc, orig, cache, pc, local>>

Step(w) ==
  \/ ListClaims(w) \/ GetClaim(w) \/ RecoverPVCBackup(w) \/ ReadLocalPV(w)
  \/ ReadTargetPV(w) \/ RemoveReservedClaimRef(w) \/ SavePVCBackup(w)
  \/ RetainTargetPV(w) \/ DeletePVC(w) \/ WaitDeleted(w) \/ CreatePVC(w)
  \/ UpdatePVClaimRef(w) \/ VerifyPVC(w) \/ ClearPendingPVCSwap(w)
  \/ RemovePVClaimRef(w) \/ SetReservedClaimRef(w) \/ RestoreTargetPolicy(w)
  \/ RestoreLocalPolicy(w) \/ RecoverOrphans(w) \/ ClearStaleBackup(w)
  \/ EndSwap(w) \/ Refuse(w)

Next ==
  \/ \E w \in Workers : NewAction(w) \/ Step(w) \/ Fail(w)
  \/ Crash \/ SyncCache \/ ClaimRemoved \/ Bind
  \/ \E p \in PV : ForeignBind(p)

Spec == Init /\ [][Next]_vars

\* A reconcile that is not interrupted goes on, an action that was not processed
\* is retried at the next event of the group (the monitor causes them forever),
\* and a terminating claim is removed.
LiveSpec ==
  /\ Spec
  /\ \A w \in Workers : WF_vars(Step(w))
  /\ WF_vars(ClaimRemoved)

-----------------------------------------------------------------------------

\* Type invariant: the objects and what a reconcile holds keep their shapes.
TypeOK ==
  /\ pvc \in PVCObject
  /\ pv \in [PV -> PVObject]
  /\ orig \in [PV -> Policies]
  /\ past \in SUBSET Mishaps
  /\ cache \in [PV -> Backup \cup {NoBackup}]
  /\ job \in [Workers -> PV \cup {0}]
  /\ pc \in [Workers -> SwapSteps \cup {"idle", "orphans", "clearStale", "end"}]
  /\ listed \in [Workers -> BOOLEAN]
  /\ failed \in [Workers -> BOOLEAN]
  /\ tgt \in [Workers -> PV]
  /\ mem \in [Workers -> MemPVC]
  /\ pol \in [Workers -> [l : Policies, t : Policies]]
  /\ snap \in [Workers -> PVObject]

\* The claim is never lost: whenever it does not exist, a volume holds the backup
\* from which the orphan pass re-creates it, so a crash at any point is survived.
ClaimRecoverable ==
  pvc.st = "gone" =>
    \E p \in PV : pv[p].backup # NoBackup /\ pv[p].backup.vol = p /\ p = pvc.rg

\* No volume is ever released with policy Delete, the state in which Kubernetes
\* destroys the data: both policies are Retain from before the delete of the
\* claim until each volume is claimed or reserved again.  A backup that could not be
\* cleared may be taken up again later, so nothing is said once that happened.
NoVolumeReclaimed ==
  "uncleared" \notin past => \A p \in PV : ~(pv[p].claim = "released" /\ pv[p].policy = "Delete")

\* The claim, its RemotePV annotation and its group label agree, and no volume is
\* bound to it but the one it names, whichever steps failed or were repeated.
ClaimConsistent ==
  /\ pvc.rem = Other(pvc.vol) /\ pvc.rg = pvc.vol
  /\ \A p \in PV : pv[p].claim = "bound" => pvc.st # "gone" /\ pvc.vol = p

\* A swap without failures puts everything back: between swaps the claim is bound
\* to its volume, the replica is reserved, no backup is left and the reclaim
\* policies are the original ones.
CleanSwapRestores ==
  past = {} /\ (\A w \in Workers : pc[w] = "idle") =>
    \A p \in PV : pv[p] = [claim  |-> IF p = pvc.vol THEN "bound" ELSE "reserved",
                           policy |-> orig[p],
                           backup |-> NoBackup]

\* The claim is re-created from the backup of the volume it was on when it was
\* deleted: a swap that had been completed before is not processed again, unless
\* its backup could not be cleared.
CompletedSwapNotReprocessed ==
  []["uncleared" \notin past => \A w \in Workers :
       pc[w] = "recover" /\ pc'[w] = "create" => mem'[w].vol = pvc.vol]_vars

\* An error that is not Refused, and a crash while a swap is under way.
Faults ==
  \/ Crash /\ \E w \in Workers : pc[w] \notin {"idle", "end"}
  \/ \E w \in Workers : Fail(w) /\ ~Refused(w)

\* A claim that was deleted comes back once calls stop failing and the controller
\* stops crashing, however the swap was interrupted.  It may stay away if the user
\* asked for another action before the last one was processed, or if the orphan pass
\* looked for the backup in a cache that did not show it yet.
ClaimReturns ==
  <>[][~Faults]_vars =>
    (pvc.st = "gone" ~> pvc.st = "present" \/ "lost" \in past)
=============================================================================
