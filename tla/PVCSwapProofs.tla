---------------------------- MODULE PVCSwapProofs ----------------------------
(***************************************************************************)
(* Proofs about the PVC remap: its types for any number of workers, that   *)
(* the claim can always be recovered and agrees with its volumes, that no  *)
(* volume is reclaimed and no completed swap repeated, and that a swap     *)
(* without mishaps puts everything back.                                   *)
(***************************************************************************)
EXTENDS PVCSwap, TLAPS
-----------------------------------------------------------------------------
(* Types *)

\* The two volumes are each other's replica.
LEMMA OtherFacts ==
  \A p \in PV : Other(p) \in PV /\ Other(p) # p /\ Other(Other(p)) = p /\ p # 0
                /\ \A q \in PV : q = p \/ q = Other(p)
BY DEF PV, Other

\* Updates of one field keep the type of a PV object.
LEMMA PVFields ==
  ASSUME NEW o \in PVObject
  PROVE  /\ \A c \in Claims : [o EXCEPT !.claim = c] \in PVObject
         /\ \A c \in Policies : [o EXCEPT !.policy = c] \in PVObject
         /\ \A c \in Backup \cup {NoBackup} : [o EXCEPT !.backup = c] \in PVObject
BY DEF PVObject

\* A write of one volume keeps the type of the volumes.
LEMMA SetPVType ==
  ASSUME NEW p \in PV, NEW o \in PVObject, pv \in [PV -> PVObject], SetPV(p, o)
  PROVE  pv' \in [PV -> PVObject]
BY DEF SetPV

\* Another mishap in the history keeps its type.
LEMMA MishapType ==
  ASSUME past \in SUBSET Mishaps, NEW m \in Mishaps PROVE Mishap(m) \in SUBSET Mishaps
BY DEF Mishap

\* A reconcile that is under way has a group to swap.
JobSet == \A w \in Workers : pc[w] # "idle" => job[w] # 0

TypeInv == TypeOK /\ JobSet

PCType == pc \in [Workers -> SwapSteps \cup {"idle", "orphans", "clearStale", "end"}]

\* Every step keeps the types, for any number of workers.
LEMMA TypeStep == TypeInv /\ [Next]_vars => TypeInv'
<1> SUFFICES ASSUME TypeOK, JobSet, [Next]_vars PROVE TypeOK' /\ JobSet'
  BY DEF TypeInv
<1>0. \A m \in {"fault", "uncleared", "lost"} : Mishap(m) \in SUBSET Mishaps
  BY MishapType DEF TypeOK, Mishaps
<1>1. ASSUME NEW w \in Workers, NewAction(w) \/ Step(w) \/ Fail(w) PROVE TypeOK' /\ JobSet'
  <2> USE DEF JobSet
  <2>0. /\ tgt[w] \in PV /\ mem[w].vol \in PV /\ mem[w].rem \in PV
        /\ Other(tgt[w]) \in PV /\ mem[w].dv \in BOOLEAN
        /\ pol[w].l \in Policies /\ pol[w].t \in Policies /\ snap[w] \in PVObject
        /\ pvc.vol \in PV /\ pvc.rem \in PV /\ pvc.dv \in BOOLEAN
        /\ \A p \in PV : pv[p] \in PVObject
        /\ pc[w] # "idle" => job[w] \in PV /\ Other(job[w]) \in PV
    BY OtherFacts DEF TypeOK, MemPVC, PVCObject
  <2>1. CASE NewAction(w)
    BY <2>1, <1>0 DEF TypeOK, NewAction
  <2>2. CASE ListClaims(w)
    <3>1. PCType'
      BY <2>2 DEF TypeOK, PCType, ListClaims, Goto, SwapSteps
    <3> QED
      BY <2>2, <2>0, <3>1 DEF TypeOK, PCType, ListClaims, Goto, local
  <2>3. CASE GetClaim(w)
    <3>1. PCType'
      <4>1. Goto(w, "readLocal") \/ Goto(w, "orphans") \/ Goto(w, "recover")
        BY <2>3 DEF GetClaim
      <4> QED
        BY <4>1, ZenonT(60) DEF TypeOK, PCType, Goto, SwapSteps
    <3>2. mem' \in [Workers -> MemPVC]
      <4>1. [vol |-> pvc.vol, rem |-> pvc.rem, dv |-> pvc.dv] \in MemPVC
        BY <2>0 DEF MemPVC
      <4> QED
        BY <2>3, <4>1 DEF TypeOK, GetClaim
    <3> QED
      BY <2>3, <2>0, <3>1, <3>2, SMTT(60) DEF TypeOK, PCType, GetClaim, Goto, local
  <2>4. CASE RecoverPVCBackup(w)
    <3>1. PCType'
      BY <2>4, ZenonT(60) DEF TypeOK, PCType, RecoverPVCBackup, Goto, SwapSteps
    <3>2. mem' \in [Workers -> MemPVC] /\ pol' \in [Workers -> [l : Policies, t : Policies]]
      <4> DEFINE b == pv[Other(tgt[w])].backup
      <4>1. b \in Backup
        BY <2>4, <2>0, ZenonT(60) DEF RecoverPVCBackup, PVObject
      <4>2. [vol |-> b.vol, rem |-> b.rem, dv |-> b.dv] \in MemPVC
        BY <4>1, ZenonT(60) DEF Backup, MemPVC
      <4>3. [l |-> b.lp, t |-> b.tp] \in [l : Policies, t : Policies]
        BY <4>1 DEF Backup
      <4> QED
        BY <2>4, <4>2, <4>3, ZenonT(60) DEF TypeOK, RecoverPVCBackup
    <3> QED
      BY <2>4, <2>0, <3>1, <3>2, ZenonT(60) DEF TypeOK, PCType, RecoverPVCBackup, Goto, local
  <2>5. CASE ReadLocalPV(w)
    <3>1. PCType'
      BY <2>5 DEF TypeOK, PCType, ReadLocalPV, Goto, SwapSteps
    <3>2. pol' \in [Workers -> [l : Policies, t : Policies]]
      <4>1. pv[mem[w].vol].policy \in Policies
        BY <2>0 DEF PVObject
      <4>2. [pol[w] EXCEPT !.l = pv[mem[w].vol].policy] \in [l : Policies, t : Policies]
        BY <4>1, ZenonT(60) DEF TypeOK
      <4> QED
        BY <2>5, <4>2 DEF TypeOK, ReadLocalPV
    <3> QED
      BY <2>5, <2>0, <3>1, <3>2 DEF TypeOK, PCType, ReadLocalPV, Goto, local
  <2>6. CASE ReadTargetPV(w)
    <3>0. pol' \in [Workers -> [l : Policies, t : Policies]]
      <4>1. pv[mem[w].rem].policy \in Policies
        BY <2>0 DEF PVObject
      <4>2. [pol[w] EXCEPT !.t = pv[mem[w].rem].policy] \in [l : Policies, t : Policies]
        BY <4>1, ZenonT(60) DEF TypeOK
      <4> QED
        BY <2>6, <4>2 DEF TypeOK, ReadTargetPV
    <3>1. pv' \in [PV -> PVObject]
      BY <2>6, <2>0, PVFields, SetPVType, ZenonT(60) DEF TypeOK, ReadTargetPV, Claims, Policies
    <3>2. PCType'
      <4>1. Goto(w, "save") \/ Goto(w, "unreserve")
        BY <2>6 DEF ReadTargetPV
      <4> QED
        BY <4>1, ZenonT(60) DEF TypeOK, PCType, Goto, SwapSteps
    <3> QED
      BY <2>6, <3>0, <3>1, <3>2, ZenonT(60) DEF TypeOK, PCType, ReadTargetPV, Goto, local
  <2>7. CASE RemoveReservedClaimRef(w)
    <3>1. pv' \in [PV -> PVObject]
      BY <2>7, <2>0, PVFields, SetPVType, ZenonT(60)
         DEF TypeOK, RemoveReservedClaimRef, Claims, Policies
    <3>2. PCType'
      BY <2>7, ZenonT(60) DEF TypeOK, PCType, RemoveReservedClaimRef, Goto, SwapSteps
    <3> QED
      BY <2>7, <3>1, <3>2 DEF TypeOK, PCType, RemoveReservedClaimRef, Goto, local
  <2>8. CASE SavePVCBackup(w)
    <3>1. pv' \in [PV -> PVObject]
      <4> DEFINE b == [vol |-> mem[w].vol, rem |-> mem[w].rem, dv |-> mem[w].dv,
                       lp |-> pol[w].l, tp |-> pol[w].t]
      <4>1. b \in Backup
        BY <2>0 DEF Backup
      <4>2. [snap[w] EXCEPT !.policy = "Retain", !.backup = b] \in PVObject
        BY <2>0, <4>1, ZenonT(60) DEF PVObject, Policies
      <4> QED
        BY <2>8, <2>0, <4>2, SetPVType DEF TypeOK, SavePVCBackup
    <3>2. PCType'
      BY <2>8 DEF TypeOK, PCType, SavePVCBackup, Goto, SwapSteps
    <3>3. snap' \in [Workers -> PVObject]
      BY <2>8, ZenonT(60) DEF TypeOK, SavePVCBackup, NoSnap, PVObject, Policies, Claims
    <3> QED
      BY <2>8, <3>1, <3>2, <3>3 DEF TypeOK, PCType, SavePVCBackup, Goto
  <2>9. CASE RetainTargetPV(w)
    <3>1. pv' \in [PV -> PVObject]
      BY <2>9, <2>0, PVFields, SetPVType, ZenonT(60) DEF TypeOK, RetainTargetPV, Claims, Policies
    <3>2. PCType'
      BY <2>9 DEF TypeOK, PCType, RetainTargetPV, Goto, SwapSteps
    <3> QED
      BY <2>9, <3>1, <3>2 DEF TypeOK, PCType, RetainTargetPV, Goto, local
  <2>10. CASE DeletePVC(w)
    <3>1. PCType'
      BY <2>10 DEF TypeOK, PCType, DeletePVC, Goto, SwapSteps
    <3>2. pvc' \in PVCObject
      BY <2>10, ZenonT(60) DEF TypeOK, DeletePVC, PVCObject
    <3> QED
      BY <2>10, <2>0, <3>1, <3>2 DEF TypeOK, PCType, DeletePVC, Goto, local
  <2>11. CASE WaitDeleted(w)
    <3>1. PCType'
      BY <2>11 DEF TypeOK, PCType, WaitDeleted, Goto, SwapSteps
    <3> QED
      BY <2>11, <2>0, <3>1 DEF TypeOK, PCType, WaitDeleted, Goto, local
  <2>12. CASE CreatePVC(w)
    <3>1. PCType'
      BY <2>12 DEF TypeOK, PCType, CreatePVC, Goto, SwapSteps
    <3>2. pvc' \in PVCObject
      <4>1. (mem[w].dv /\ ~EnableKubevirtPVCRemap) \in BOOLEAN
        OBVIOUS
      <4> QED
        BY <2>12, <2>0, <4>1 DEF CreatePVC, PVCObject
    <3> QED
      BY <2>12, <2>0, <3>1, <3>2, ZenonT(60) DEF TypeOK, PCType, CreatePVC, Goto, local
  <2>13. CASE UpdatePVClaimRef(w)
    <3>1. pv' \in [PV -> PVObject]
      BY <2>13, <2>0, PVFields, SetPVType, ZenonT(60) DEF TypeOK, UpdatePVClaimRef, Claims, Policies
    <3>2. PCType'
      BY <2>13 DEF TypeOK, PCType, UpdatePVClaimRef, Goto, SwapSteps
    <3> QED
      BY <2>13, <3>1, <3>2 DEF TypeOK, PCType, UpdatePVClaimRef, Goto, local
  <2>14. CASE VerifyPVC(w)
    <3>1. PCType'
      BY <2>14 DEF TypeOK, PCType, VerifyPVC, Goto, SwapSteps
    <3> QED
      BY <2>14, <2>0, <3>1, ZenonT(60) DEF TypeOK, PCType, VerifyPVC, Goto, local
  <2>15. CASE ClearPendingPVCSwap(w)
    <3>1. pv' \in [PV -> PVObject]
      BY <2>15, <2>0, PVFields, SetPVType, ZenonT(60)
         DEF TypeOK, ClearPendingPVCSwap, Claims, Policies
    <3>2. PCType'
      BY <2>15 DEF TypeOK, PCType, ClearPendingPVCSwap, Goto, SwapSteps
    <3> QED
      BY <2>15, <1>0, <3>1, <3>2 DEF TypeOK, PCType, ClearPendingPVCSwap, Goto, local
  <2>16. CASE RemovePVClaimRef(w)
    <3>1. pv' \in [PV -> PVObject]
      BY <2>16, <2>0, PVFields, SetPVType, ZenonT(60) DEF TypeOK, RemovePVClaimRef, Claims, Policies
    <3>2. PCType'
      BY <2>16, ZenonT(60) DEF TypeOK, PCType, RemovePVClaimRef, Goto, SwapSteps
    <3> QED
      BY <2>16, <3>1, <3>2 DEF TypeOK, PCType, RemovePVClaimRef, Goto, local
  <2>17. CASE SetReservedClaimRef(w)
    <3>1. pv' \in [PV -> PVObject]
      <4>1. [pv[mem[w].vol] EXCEPT !.claim = "reserved", !.backup = NoBackup] \in PVObject
        BY <2>0, ZenonT(60) DEF PVObject, Claims
      <4> QED
        BY <2>17, <2>0, <4>1, SetPVType DEF TypeOK, SetReservedClaimRef
    <3>2. PCType'
      BY <2>17 DEF TypeOK, PCType, SetReservedClaimRef, Goto, SwapSteps
    <3> QED
      BY <2>17, <3>1, <3>2 DEF TypeOK, PCType, SetReservedClaimRef, Goto, local
  <2>18. CASE RestoreTargetPolicy(w)
    <3>1. pv' \in [PV -> PVObject]
      BY <2>18, <2>0, PVFields, SetPVType, ZenonT(60)
         DEF TypeOK, RestoreTargetPolicy, Claims, Policies
    <3>2. PCType'
      BY <2>18 DEF TypeOK, PCType, RestoreTargetPolicy, Goto, SwapSteps
    <3> QED
      BY <2>18, <3>1, <3>2 DEF TypeOK, PCType, RestoreTargetPolicy, Goto, local
  <2>19. CASE RestoreLocalPolicy(w)
    <3>1. pv' \in [PV -> PVObject]
      BY <2>19, <2>0, PVFields, SetPVType, ZenonT(60) DEF TypeOK, RestoreLocalPolicy, Claims, Policies
    <3>2. PCType'
      BY <2>19 DEF TypeOK, PCType, RestoreLocalPolicy, Goto, SwapSteps
    <3> QED
      BY <2>19, <3>1, <3>2 DEF TypeOK, PCType, RestoreLocalPolicy, Goto, local
  <2>20. CASE RecoverOrphans(w)
    <3>0. \E s \in {"end", "clearStale", "get"} : Goto(w, s)
      BY <2>20 DEF RecoverOrphans
    <3>1. PCType'
      BY <3>0 DEF TypeOK, PCType, Goto, SwapSteps
    <3>2. tgt' \in [Workers -> PV]
      BY <2>20, <2>0, SMTT(60) DEF TypeOK, RecoverOrphans, PVObject, Backup
    <3>3. past' \in SUBSET Mishaps
      BY <2>20, <1>0, ZenonT(60) DEF TypeOK, RecoverOrphans
    <3>4. listed' \in [Workers -> BOOLEAN]
      BY <2>20, ZenonT(60) DEF TypeOK, RecoverOrphans
    <3>5. UNCHANGED <<pvc, pv, orig, cache, job, failed, mem, pol, snap>> /\ pc[w] # "idle"
      BY <2>20, ZenonT(60) DEF RecoverOrphans
    <3>6. JobSet'
      BY <3>0, <3>5 DEF TypeOK, Goto
    <3> QED
      BY <3>1, <3>2, <3>3, <3>4, <3>5, <3>6 DEF TypeOK, PCType
  <2>21. CASE ClearStaleBackup(w)
    <3>1. pv' \in [PV -> PVObject]
      BY <2>21, <2>0, PVFields, SetPVType, ZenonT(60) DEF TypeOK, ClearStaleBackup, Claims, Policies
    <3>2. PCType'
      BY <2>21 DEF TypeOK, PCType, ClearStaleBackup, Goto, SwapSteps
    <3> QED
      BY <2>21, <1>0, <3>1, <3>2 DEF TypeOK, PCType, ClearStaleBackup, Goto, local
  <2>22. CASE EndSwap(w)
    BY <2>22, OtherFacts, ZenonT(60)
       DEF TypeOK, EndSwap, Goto, NoMem, NoPol, NoSnap, MemPVC, PVObject,
       Policies, Claims, PV
  <2>e. ASSUME ReturnError(w), pc[w] \in SwapSteps PROVE TypeOK' /\ JobSet'
    <3>1. /\ mem' \in [Workers -> MemPVC] /\ pol' \in [Workers -> [l : Policies, t : Policies]]
          /\ snap' \in [Workers -> PVObject] /\ tgt' \in [Workers -> PV]
      BY <2>e, ZenonT(60) DEF TypeOK, ReturnError, NoMem, NoPol, NoSnap, MemPVC, PVObject, Policies,
         Claims, PV
    <3>2. failed' \in [Workers -> BOOLEAN]
      BY <2>e, ZenonT(60) DEF TypeOK, ReturnError
    <3> QED
      BY <2>e, <1>0, <3>1, <3>2, SMTT(60) DEF TypeOK, ReturnError, Goto, SwapSteps
  <2>23. CASE Refuse(w)
    BY <2>23, <2>e, ZenonT(60) DEF Refuse, Refused, SwapSteps
  <2>24. CASE Fail(w)
    BY <2>24, <2>e DEF Fail
  <2> QED
    BY <1>1, <2>1, <2>2, <2>3, <2>4, <2>5, <2>6, <2>7, <2>8, <2>9, <2>10, <2>11, <2>12,
       <2>13, <2>14, <2>15, <2>16, <2>17, <2>18, <2>19, <2>20, <2>21, <2>22, <2>23, <2>24, ZenonT(60)
       DEF Step
<1>2. CASE Crash
  <2>1. \A p \in PV : pv[p].backup \in Backup \cup {NoBackup}
    BY DEF TypeOK, PVObject
  <2> QED
    BY <1>2, <1>0, <2>1, ZenonT(60) DEF TypeOK, JobSet, Crash, NoMem, NoPol, NoSnap, MemPVC, PVObject,
       Policies, Claims, PV
<1>3. CASE SyncCache
  <2>1. \A p \in PV : pv[p].backup \in Backup \cup {NoBackup}
    BY DEF TypeOK, PVObject
  <2> QED
    BY <1>3, <2>1 DEF TypeOK, JobSet, SyncCache, local
<1>4. CASE ClaimRemoved
  <2>1. pvc' \in PVCObject
    BY <1>4, ZenonT(60) DEF TypeOK, ClaimRemoved, PVCObject
  <2>2. pv' \in [PV -> PVObject]
    <3> SUFFICES ASSUME NEW p \in PV
                 PROVE  [pv[p] EXCEPT !.claim = IF @ = "bound" THEN "released" ELSE @] \in PVObject
      BY <1>4 DEF ClaimRemoved
    <3>1. pv[p] \in PVObject
      BY DEF TypeOK
    <3>2. CASE pv[p].claim = "bound"
      BY <3>1, <3>2, PVFields, ZenonT(60) DEF Claims
    <3>3. CASE pv[p].claim # "bound"
      BY <3>1, <3>3, PVFields DEF PVObject
    <3> QED
      BY <3>2, <3>3
  <2> QED
    BY <1>4, <2>1, <2>2 DEF TypeOK, JobSet, ClaimRemoved, local
<1>5. CASE Bind
  <2>1. pv' \in [PV -> PVObject]
    BY <1>5, PVFields, SetPVType, ZenonT(60) DEF TypeOK, Bind, PVCObject, Claims
  <2> QED
    BY <1>5, <2>1 DEF TypeOK, JobSet, Bind, local
<1>6. ASSUME NEW p \in PV, ForeignBind(p) PROVE TypeOK' /\ JobSet'
  <2>1. pv' \in [PV -> PVObject]
    BY <1>6, PVFields, SetPVType, ZenonT(60) DEF TypeOK, ForeignBind, Claims
  <2> QED
    BY <1>6, <1>0, <2>1 DEF TypeOK, JobSet, ForeignBind, local
<1>7. CASE UNCHANGED vars
  BY <1>7 DEF TypeOK, JobSet, vars, local
<1> QED
  BY <1>1, <1>2, <1>3, <1>4, <1>5, <1>6, <1>7 DEF Next

\* The initial state has the types, and no reconcile is under way.
LEMMA InitType == Init => TypeInv
BY SMTT(60) DEF Init, TypeInv, JobSet, TypeOK, PVObject, PVCObject, MemPVC, Policies, Claims,
   SwapSteps, NoMem, NoPol, NoSnap, PV

\* The variables keep their types, for every value of the constants.
THEOREM TypeCorrect == Spec => []TypeOK
<1>1. TypeInv => TypeOK
  BY DEF TypeInv
<1> QED
  BY <1>1, InitType, TypeStep, PTL DEF Spec

-----------------------------------------------------------------------------
(* Recovery of the claim *)

\* At most one reconcile swaps the claim.
OneWorker == \A a, b \in Workers : a = b

BackupOf(p, b) == b = NoBackup \/ (b.vol = p /\ b.rem = Other(p))

\* What holds between steps, whatever the reconcile does.
ClaimInv ==
  /\ pvc.rem = Other(pvc.vol) /\ pvc.rg = pvc.vol
  /\ \A p \in PV : pv[p].claim = "bound" => pvc.st # "gone" /\ pvc.vol = p
  /\ \A p \in PV : BackupOf(p, pv[p].backup) /\ BackupOf(p, cache[p])
  /\ pvc.st # "present" => pv[pvc.vol].backup # NoBackup

BeforeDelete == {"readLocal", "readTarget", "unreserve", "save", "retain", "delete", "wait"}
AfterCreate == {"claim", "verify", "clear", "release", "reserve",
                "restoreTarget", "restoreLocal"}

\* What the reconcile knows at each of its steps.
StepInv(w) ==
  /\ pc[w] # "idle" => job[w] # 0
  /\ pc[w] \in SwapSteps => tgt[w] = Other(job[w])
  /\ pc[w] = "get" => pvc.st = "gone" \/ pvc.vol = job[w]
  /\ pc[w] = "recover" => pvc.st = "gone"
  /\ pc[w] \in BeforeDelete \cup {"create"} \cup AfterCreate =>
       mem[w].vol = job[w] /\ mem[w].rem = Other(job[w])
  /\ pc[w] \in BeforeDelete => pvc.vol = job[w]
  /\ pc[w] \in {"retain", "delete", "wait"} => pv[job[w]].backup # NoBackup
  /\ pc[w] = "create" => pvc.st = "gone"
  /\ pc[w] \in AfterCreate => pvc.st = "present" /\ pvc.vol = Other(job[w])
  /\ pc[w] = "clearStale" => pvc.vol = Other(job[w])

RecoverInv == TypeOK /\ ClaimInv /\ \A w \in Workers : StepInv(w)

-----------------------------------------------------------------------------
\* The steps of the one reconcile keep RecoverInv when the orphan pass can read.
LEMMA RecoverStep ==
  ASSUME OneWorker, LookupErrors = FALSE, RecoverInv, TypeOK', [Next]_vars
  PROVE  RecoverInv'
<1>0. TypeOK /\ ClaimInv /\ \A w \in Workers : StepInv(w)
  BY DEF RecoverInv
<1>t. pvc.vol \in PV /\ pvc.st \in {"present", "terminating", "gone"} /\ pv \in [PV -> PVObject]
  BY <1>0 DEF TypeOK, PVCObject
<1>c. pvc.rem = Other(pvc.vol) /\ pvc.rg = pvc.vol
  BY <1>0 DEF ClaimInv
<1> SUFFICES ClaimInv' /\ \A w \in Workers : StepInv(w)'
  BY DEF RecoverInv
<1>1. ASSUME NEW w \in Workers, NewAction(w) \/ Step(w) \/ Fail(w)
      PROVE  ClaimInv' /\ \A u \in Workers : StepInv(u)'
  <2> SUFFICES ClaimInv' /\ StepInv(w)'
    BY DEF OneWorker
  <2>0. /\ StepInv(w) /\ tgt[w] \in PV /\ mem[w].vol \in PV /\ mem[w].rem \in PV
        /\ tgt \in [Workers -> PV] /\ mem \in [Workers -> MemPVC]
        /\ job[w] \in PV \cup {0}
    BY <1>0 DEF TypeOK, MemPVC
  <2>g. \A s : Goto(w, s) => pc'[w] = s
    BY <1>0, ZenonT(60) DEF TypeOK, Goto
  <2>p. job[w] # 0 => /\ job[w] \in PV /\ Other(job[w]) \in PV /\ Other(job[w]) # job[w]
                      /\ Other(Other(job[w])) = job[w]
                      /\ \A r \in PV : r = job[w] \/ r = Other(job[w])
    BY <2>0, OtherFacts
  <2>1. CASE NewAction(w)
    <3>0. UNCHANGED <<pvc, pv, cache>> /\ pc'[w] = "idle"
      BY <2>1 DEF NewAction
    <3>1. ClaimInv'
      BY <3>0, <1>0 DEF ClaimInv
    <3>2. StepInv(w)'
      BY <3>0, <2>0, ZenonT(60) DEF StepInv, SwapSteps, BeforeDelete, AfterCreate
    <3> QED
      BY <3>1, <3>2
  <2>2. CASE ListClaims(w)
    <3>0. /\ UNCHANGED <<pvc, pv, cache>> /\ UNCHANGED job /\ job[w] # 0
          /\ \/ pc'[w] = "get" /\ tgt'[w] = pvc.rem /\ pvc.rg = job[w]
             \/ pc'[w] = "orphans"
      BY <2>2, <2>0, <2>g, ZenonT(60) DEF ListClaims
    <3>1. ClaimInv'
      BY <3>0, <1>0, ZenonT(60) DEF ClaimInv
    <3>2. StepInv(w)'
      BY <3>0, <2>0, <1>c, ZenonT(60) DEF StepInv, SwapSteps, BeforeDelete, AfterCreate
    <3> QED
      BY <3>1, <3>2
  <2>3. CASE GetClaim(w)
    <3>0. /\ UNCHANGED <<pvc, pv, cache>> /\ UNCHANGED <<job, tgt>> /\ pc[w] = "get"
          /\ \/ /\ pc'[w] = "readLocal" /\ pvc.st # "gone"
                /\ mem'[w].vol = pvc.vol /\ mem'[w].rem = pvc.rem
             \/ pc'[w] = "orphans"
             \/ pc'[w] = "recover" /\ pvc.st = "gone"
      BY <2>3, <2>0, <2>g, ZenonT(60) DEF GetClaim
    <3>1. ClaimInv'
      BY <3>0, <1>0, ZenonT(60) DEF ClaimInv
    <3>2. StepInv(w)'
      BY <3>0, <2>0, <1>c, ZenonT(60) DEF StepInv, SwapSteps, BeforeDelete, AfterCreate
    <3> QED
      BY <3>1, <3>2
  <2>4. CASE RecoverPVCBackup(w)
    <3>0. /\ UNCHANGED <<pvc, pv, cache>> /\ UNCHANGED <<job, tgt>>
          /\ pc[w] = "recover" /\ pc'[w] = "create"
      BY <2>4, <2>g, ZenonT(60) DEF RecoverPVCBackup
    <3>1. mem'[w].vol = job[w] /\ mem'[w].rem = Other(job[w])
      <4>1. Other(tgt[w]) = job[w] /\ job[w] \in PV
        BY <3>0, <2>0, <2>p, ZenonT(60) DEF StepInv, SwapSteps
      <4>2. BackupOf(job[w], pv[job[w]].backup)
        BY <4>1, <1>0, ZenonT(60) DEF ClaimInv
      <4> QED
        BY <2>4, <4>1, <4>2, <2>0, ZenonT(60) DEF RecoverPVCBackup, BackupOf
    <3>2. ClaimInv'
      BY <3>0, <1>0 DEF ClaimInv
    <3>3. StepInv(w)'
      BY <3>0, <3>1, <2>0, ZenonT(60) DEF StepInv, SwapSteps, BeforeDelete, AfterCreate
    <3> QED
      BY <3>2, <3>3
  <2>5. CASE ReadLocalPV(w)
    <3>0. /\ UNCHANGED <<pvc, pv, cache>> /\ UNCHANGED <<job, tgt, mem>>
          /\ pc[w] = "readLocal" /\ pc'[w] = "readTarget"
      BY <2>5, <2>g DEF ReadLocalPV
    <3>1. ClaimInv'
      BY <3>0, <1>0, ZenonT(60) DEF ClaimInv
    <3>2. StepInv(w)'
      BY <3>0, <2>0, ZenonT(60) DEF StepInv, SwapSteps, BeforeDelete, AfterCreate
    <3> QED
      BY <3>1, <3>2
  <2>6. CASE ReadTargetPV(w)
    <3>0. /\ UNCHANGED <<pvc, cache>> /\ UNCHANGED <<job, tgt, mem>>
          /\ pc[w] = "readTarget" /\ pc'[w] \in {"save", "unreserve"}
          /\ \A p \in PV : /\ pv'[p].backup = pv[p].backup
                           /\ pv'[p].claim = "bound" => pv[p].claim = "bound"
      BY <2>6, <1>t, <2>0, <2>g DEF ReadTargetPV, SetPV, PVObject
    <3>1. ClaimInv'
      BY <3>0, <1>0, <1>t, SMTT(60) DEF ClaimInv
    <3>2. StepInv(w)'
      BY <3>0, <2>0, <2>p, ZenonT(60) DEF StepInv, SwapSteps, BeforeDelete, AfterCreate
    <3> QED
      BY <3>1, <3>2
  <2>7. CASE RemoveReservedClaimRef(w)
    <3>0. /\ UNCHANGED <<pvc, cache>> /\ UNCHANGED <<job, tgt, mem>>
          /\ pc[w] = "unreserve" /\ pc'[w] \in {"save", "unreserve"}
          /\ \A p \in PV : /\ pv'[p].backup = pv[p].backup
                           /\ pv'[p].claim = "bound" => pv[p].claim = "bound"
      BY <2>7, <1>t, <2>0, <2>g DEF RemoveReservedClaimRef, SetPV, local, PVObject
    <3>1. ClaimInv'
      BY <3>0, <1>0, <1>t, ZenonT(60) DEF ClaimInv
    <3>2. StepInv(w)'
      BY <3>0, <2>0, <2>p, ZenonT(60) DEF StepInv, SwapSteps, BeforeDelete, AfterCreate
    <3> QED
      BY <3>1, <3>2
  <2>8. CASE SavePVCBackup(w)
    <3>a. /\ pc[w] = "save" /\ pc'[w] = "retain" /\ UNCHANGED <<pvc, cache, job, tgt, mem>>
          /\ mem[w].vol = job[w] /\ mem[w].rem = Other(job[w]) /\ job[w] \in PV
      BY <2>8, <2>0, <2>g, <2>p DEF SavePVCBackup, StepInv, SwapSteps, BeforeDelete, AfterCreate,
         local
    <3>0. /\ \A p \in PV : pv'[p].claim = pv[p].claim
          /\ pv'[job[w]].backup # NoBackup /\ BackupOf(job[w], pv'[job[w]].backup)
          /\ \A p \in PV : p # job[w] => pv'[p].backup = pv[p].backup
      <4> DEFINE b == [vol |-> mem[w].vol, rem |-> mem[w].rem, dv |-> mem[w].dv,
                       lp |-> pol[w].l, tp |-> pol[w].t]
      <4>1. b \in Backup
        BY <1>0, ZenonT(60) DEF TypeOK, MemPVC, Backup
      <4>2. b # NoBackup /\ BackupOf(job[w], b)
        BY <4>1, <3>a, NoBackupAssumption, ZenonT(60) DEF BackupOf
      <4>3. SetPV(job[w], [pv[job[w]] EXCEPT !.policy = "Retain", !.backup = b])
        BY <2>8, <3>a, ZenonT(60) DEF SavePVCBackup
      <4> HIDE DEF b
      <4>4. /\ pv'[job[w]].backup = b /\ pv'[job[w]].claim = pv[job[w]].claim
            /\ \A p \in PV : p # job[w] => pv'[p] = pv[p]
        BY <4>3, <3>a, <1>t DEF SetPV, PVObject
      <4> QED
        BY <4>2, <4>4, ZenonT(60)
    <3>1. ClaimInv'
      BY <3>0, <3>a, <1>0, <1>t, ZenonT(60) DEF ClaimInv
    <3>2. StepInv(w)'
      BY <3>0, <3>a, <2>0, ZenonT(60) DEF StepInv, SwapSteps, BeforeDelete, AfterCreate
    <3> QED
      BY <3>1, <3>2
  <2>9. CASE RetainTargetPV(w)
    <3>0. /\ UNCHANGED <<pvc, cache>> /\ UNCHANGED <<job, tgt, mem>>
          /\ pc[w] = "retain" /\ pc'[w] = "delete"
          /\ \A p \in PV : /\ pv'[p].backup = pv[p].backup
                           /\ pv'[p].claim = "bound" => pv[p].claim = "bound"
      BY <2>9, <1>t, <2>0, <2>g DEF RetainTargetPV, SetPV, local, PVObject
    <3>1. ClaimInv'
      BY <3>0, <1>0, <1>t, ZenonT(60) DEF ClaimInv
    <3>2. StepInv(w)'
      BY <3>0, <2>0, <2>p, ZenonT(60) DEF StepInv, SwapSteps, BeforeDelete, AfterCreate
    <3> QED
      BY <3>1, <3>2
  <2>10. CASE DeletePVC(w)
    <3>0. /\ UNCHANGED <<pv, cache, job, tgt, mem>> /\ pc[w] = "delete" /\ pc'[w] = "wait"
          /\ pvc'.vol = pvc.vol /\ pvc'.rem = pvc.rem /\ pvc'.rg = pvc.rg
          /\ pvc'.st = pvc.st \/ (pvc.st # "gone" /\ pvc'.st = "terminating")
      BY <2>10, <1>0, <2>g DEF DeletePVC, TypeOK, PVCObject, local
    <3>b. pvc.vol = job[w] /\ pv[job[w]].backup # NoBackup
      BY <3>0, <2>0, ZenonT(60) DEF StepInv, SwapSteps, BeforeDelete, AfterCreate
    <3>1. ClaimInv'
      BY <3>0, <3>b, <1>0, ZenonT(60) DEF ClaimInv
    <3>2. StepInv(w)'
      BY <3>0, <2>0, ZenonT(60) DEF StepInv, SwapSteps, BeforeDelete, AfterCreate
    <3> QED
      BY <3>1, <3>2
  <2>11. CASE WaitDeleted(w)
    <3>0. /\ UNCHANGED <<pvc, pv, cache>> /\ UNCHANGED <<job, tgt, mem>>
          /\ pc[w] = "wait" /\ pc'[w] = "create" /\ pvc.st = "gone"
      BY <2>11, <2>g, ZenonT(60) DEF WaitDeleted, local
    <3>1. ClaimInv'
      BY <3>0, <1>0, ZenonT(60) DEF ClaimInv
    <3>2. StepInv(w)'
      BY <3>0, <2>0, ZenonT(60) DEF StepInv, SwapSteps, BeforeDelete, AfterCreate
    <3> QED
      BY <3>1, <3>2
  <2>12. CASE CreatePVC(w)
    <3>0. /\ UNCHANGED <<pv, cache, job, tgt, mem>> /\ pc[w] = "create" /\ pc'[w] = "claim"
          /\ pvc'.st = "present" /\ pvc'.vol = tgt[w] /\ pvc'.rem = mem[w].vol
          /\ pvc'.rg = Other(job[w]) /\ pvc.st = "gone"
      BY <2>12, <2>g, ZenonT(60) DEF CreatePVC, local
    <3>b. tgt[w] = Other(job[w]) /\ mem[w].vol = job[w] /\ Other(tgt[w]) = job[w]
      BY <3>0, <2>0, <2>p, ZenonT(60) DEF StepInv, SwapSteps, BeforeDelete, AfterCreate
    <3>1. ClaimInv'
      BY <3>0, <3>b, <1>0, ZenonT(60) DEF ClaimInv
    <3>2. StepInv(w)'
      BY <3>0, <3>b, <2>0, ZenonT(60) DEF StepInv, SwapSteps, BeforeDelete, AfterCreate
    <3> QED
      BY <3>1, <3>2
  <2>13. CASE UpdatePVClaimRef(w)
    <3>0. /\ UNCHANGED <<pvc, cache, job, tgt, mem>> /\ pc[w] = "claim" /\ pc'[w] = "verify"
          /\ \A p \in PV : pv'[p].backup = pv[p].backup
          /\ \A p \in PV : pv'[p].claim = "bound" =>
               pv[p].claim = "bound" \/ (pvc.st # "gone" /\ pvc.vol = p)
      <4>1. /\ UNCHANGED <<pvc, cache, job, tgt, mem>> /\ pc[w] = "claim" /\ pc'[w] = "verify"
        BY <2>13, <2>g, ZenonT(60) DEF UpdatePVClaimRef, local
      <4>2. CASE UNCHANGED pv
        BY <4>1, <4>2, ZenonT(60)
      <4>3. CASE SetPV(tgt[w], [pv[tgt[w]] EXCEPT
                   !.claim = IF pvc.st = "gone" \/ pvc.vol # tgt[w] THEN "released" ELSE "bound"])
        <5>1. \A p \in PV : p # tgt[w] => pv'[p] = pv[p]
          BY <4>3, <1>t DEF SetPV
        <5>2. /\ pv'[tgt[w]].backup = pv[tgt[w]].backup
              /\ pv'[tgt[w]].claim = "bound" => pvc.st # "gone" /\ pvc.vol = tgt[w]
          BY <4>3, <1>t, <2>0 DEF SetPV, PVObject
        <5> QED
          BY <4>1, <5>1, <5>2, ZenonT(60)
      <4> QED
        BY <2>13, <4>2, <4>3, ZenonT(60) DEF UpdatePVClaimRef
    <3>1. ClaimInv'
      BY <3>0, <1>0, <1>t, ZenonT(60) DEF ClaimInv
    <3>2. StepInv(w)'
      BY <3>0, <2>0, ZenonT(60) DEF StepInv, SwapSteps, BeforeDelete, AfterCreate
    <3> QED
      BY <3>1, <3>2
  <2>14. CASE VerifyPVC(w)
    <3>0. /\ UNCHANGED <<pvc, pv, cache>> /\ UNCHANGED <<job, tgt, mem>>
          /\ pc[w] = "verify" /\ pc'[w] = "clear"
      BY <2>14, <2>g, ZenonT(60) DEF VerifyPVC, local
    <3>1. ClaimInv'
      BY <3>0, <1>0, ZenonT(60) DEF ClaimInv
    <3>2. StepInv(w)'
      BY <3>0, <2>0, ZenonT(60) DEF StepInv, SwapSteps, BeforeDelete, AfterCreate
    <3> QED
      BY <3>1, <3>2
  <2>15. CASE ClearPendingPVCSwap(w)
    <3>m. /\ job[w] \in PV
          /\ pvc.st = "present" \/ pvc.vol # job[w]
          /\ mem[w].vol = job[w]
      BY <2>15, <2>0, <2>p DEF ClearPendingPVCSwap, StepInv, SwapSteps, BeforeDelete, AfterCreate
    <3>0. /\ UNCHANGED <<pvc, cache>> /\ UNCHANGED <<job, tgt, mem>>
          /\ pc[w] = "clear" /\ pc'[w] = "release"
          /\ \A p \in PV : /\ pv'[p].claim = "bound" => pv[p].claim = "bound"
                           /\ \/ pv'[p].backup = pv[p].backup
                              \/ p = job[w] /\ pv'[p].backup = NoBackup
      BY <2>15, <3>m, <1>t, <2>0, <2>g, <2>p DEF ClearPendingPVCSwap, SetPV, local, PVObject
    <3>n. \A p \in PV : BackupOf(p, NoBackup)
      BY DEF BackupOf
    <3>1. ClaimInv'
      BY <3>0, <3>m, <3>n, <1>0, <1>t, ZenonT(60) DEF ClaimInv
    <3>2. StepInv(w)'
      BY <3>0, <3>m, <2>0, ZenonT(60) DEF StepInv, SwapSteps, BeforeDelete, AfterCreate
    <3> QED
      BY <3>1, <3>2
  <2>16. CASE RemovePVClaimRef(w)
    <3>0. /\ UNCHANGED <<pvc, cache>> /\ UNCHANGED <<job, tgt, mem>>
          /\ pc[w] = "release" /\ pc'[w] \in {"release", "reserve"}
          /\ \A p \in PV : /\ pv'[p].backup = pv[p].backup
                           /\ pv'[p].claim = "bound" => pv[p].claim = "bound"
      BY <2>16, <1>t, <2>0, <2>g DEF RemovePVClaimRef, SetPV, local, PVObject
    <3>1. ClaimInv'
      BY <3>0, <1>0, <1>t, ZenonT(60) DEF ClaimInv
    <3>2. StepInv(w)'
      BY <3>0, <2>0, <2>p, ZenonT(60) DEF StepInv, SwapSteps, BeforeDelete, AfterCreate
    <3> QED
      BY <3>1, <3>2
  <2>17. CASE SetReservedClaimRef(w)
    <3>m. /\ job[w] \in PV
          /\ pvc.st = "present" \/ pvc.vol # job[w]
          /\ mem[w].vol = job[w]
      BY <2>17, <2>0, <2>p DEF SetReservedClaimRef, StepInv, SwapSteps, BeforeDelete, AfterCreate
    <3>0. /\ UNCHANGED <<pvc, cache>> /\ UNCHANGED <<job, tgt, mem>>
          /\ pc[w] = "reserve" /\ pc'[w] = "restoreTarget"
          /\ \A p \in PV : /\ pv'[p].claim = "bound" => pv[p].claim = "bound"
                           /\ \/ pv'[p].backup = pv[p].backup
                              \/ p = job[w] /\ pv'[p].backup = NoBackup
      BY <2>17, <3>m, <1>t, <2>0, <2>g, <2>p DEF SetReservedClaimRef, SetPV, local, PVObject
    <3>n. \A p \in PV : BackupOf(p, NoBackup)
      BY DEF BackupOf
    <3>1. ClaimInv'
      BY <3>0, <3>m, <3>n, <1>0, <1>t, ZenonT(60) DEF ClaimInv
    <3>2. StepInv(w)'
      BY <3>0, <3>m, <2>0, ZenonT(60) DEF StepInv, SwapSteps, BeforeDelete, AfterCreate
    <3> QED
      BY <3>1, <3>2
  <2>18. CASE RestoreTargetPolicy(w)
    <3>0. /\ UNCHANGED <<pvc, cache>> /\ UNCHANGED <<job, tgt, mem>>
          /\ pc[w] = "restoreTarget" /\ pc'[w] = "restoreLocal"
          /\ \A p \in PV : /\ pv'[p].backup = pv[p].backup
                           /\ pv'[p].claim = "bound" => pv[p].claim = "bound"
      BY <2>18, <1>t, <2>0, <2>g DEF RestoreTargetPolicy, SetPV, local, PVObject
    <3>1. ClaimInv'
      BY <3>0, <1>0, <1>t, ZenonT(60) DEF ClaimInv
    <3>2. StepInv(w)'
      BY <3>0, <2>0, <2>p, ZenonT(60) DEF StepInv, SwapSteps, BeforeDelete, AfterCreate
    <3> QED
      BY <3>1, <3>2
  <2>19. CASE RestoreLocalPolicy(w)
    <3>0. /\ UNCHANGED <<pvc, cache>> /\ UNCHANGED <<job, tgt, mem>>
          /\ pc[w] = "restoreLocal" /\ pc'[w] = "orphans"
          /\ \A p \in PV : /\ pv'[p].backup = pv[p].backup
                           /\ pv'[p].claim = "bound" => pv[p].claim = "bound"
      BY <2>19, <1>t, <2>0, <2>g DEF RestoreLocalPolicy, SetPV, local, PVObject
    <3>1. ClaimInv'
      BY <3>0, <1>0, <1>t, ZenonT(60) DEF ClaimInv
    <3>2. StepInv(w)'
      BY <3>0, <2>0, <2>p, ZenonT(60) DEF StepInv, SwapSteps, BeforeDelete, AfterCreate
    <3> QED
      BY <3>1, <3>2
  <2>20. CASE RecoverOrphans(w)
    <3>0. UNCHANGED <<pvc, pv, cache>> /\ UNCHANGED <<job, mem>> /\ job[w] \in PV
      BY <2>20, <2>0, <2>p, ZenonT(60) DEF RecoverOrphans, StepInv
    <3>a. \/ pc'[w] = "end"
          \/ pc'[w] = "clearStale" /\ pvc.vol = Other(job[w])
          \/ /\ pc'[w] = "get" /\ tgt'[w] = Other(job[w])
             /\ pvc.st = "gone" \/ pvc.vol # Other(job[w])
      <4>1. PICK b \in {pv[job[w]].backup, cache[job[w]]} :
              \/ Goto(w, "end")
              \/ b # NoBackup /\ pvc.vol = b.rem /\ Goto(w, "clearStale")
              \/ /\ b # NoBackup
                 /\ pvc.st = "gone" \/ pvc.vol # b.rem
                 /\ tgt' = [tgt EXCEPT ![w] = b.rem] /\ Goto(w, "get")
        BY <2>20, ZenonT(60) DEF RecoverOrphans
      <4>2. BackupOf(job[w], b)
        BY <4>1, <3>0, <1>0, ZenonT(60) DEF ClaimInv
      <4>3. b # NoBackup => b.rem = Other(job[w])
        BY <4>2 DEF BackupOf
      <4> QED
        BY <4>1, <4>3, <2>0, <2>g, ZenonT(60)
    <3>1. ClaimInv'
      BY <3>0, <1>0, ZenonT(60) DEF ClaimInv
    <3>2. StepInv(w)'
      BY <3>0, <3>a, <2>0, <2>p, <1>t, OtherFacts, ZenonT(60)
         DEF StepInv, SwapSteps, BeforeDelete, AfterCreate
    <3> QED
      BY <3>1, <3>2
  <2>21. CASE ClearStaleBackup(w)
    <3>m. /\ job[w] \in PV
          /\ pvc.st = "present" \/ pvc.vol # job[w]
      BY <2>21, <2>0, <2>p DEF ClearStaleBackup, StepInv, SwapSteps, BeforeDelete, AfterCreate
    <3>0. /\ UNCHANGED <<pvc, cache>> /\ UNCHANGED <<job, tgt, mem>>
          /\ pc[w] = "clearStale" /\ pc'[w] = "end"
          /\ \A p \in PV : /\ pv'[p].claim = "bound" => pv[p].claim = "bound"
                           /\ \/ pv'[p].backup = pv[p].backup
                              \/ p = job[w] /\ pv'[p].backup = NoBackup
      BY <2>21, <3>m, <1>t, <2>0, <2>g, <2>p DEF ClearStaleBackup, SetPV, local, PVObject
    <3>n. \A p \in PV : BackupOf(p, NoBackup)
      BY DEF BackupOf
    <3>1. ClaimInv'
      BY <3>0, <3>m, <3>n, <1>0, <1>t, ZenonT(60) DEF ClaimInv
    <3>2. StepInv(w)'
      BY <3>0, <3>m, <2>0, ZenonT(60) DEF StepInv, SwapSteps, BeforeDelete, AfterCreate
    <3> QED
      BY <3>1, <3>2
  <2>22. CASE EndSwap(w)
    <3>0. UNCHANGED <<pvc, pv, cache>> /\ pc'[w] = "idle"
      BY <2>22, <2>g, ZenonT(60) DEF EndSwap
    <3>1. ClaimInv'
      BY <3>0, <1>0 DEF ClaimInv
    <3>2. StepInv(w)'
      BY <3>0, <2>0, ZenonT(60) DEF StepInv, SwapSteps, BeforeDelete, AfterCreate
    <3> QED
      BY <3>1, <3>2
  <2>23. CASE Refuse(w)
    <3>0. UNCHANGED <<pvc, pv, cache>> /\ UNCHANGED job /\ pc[w] # "idle" /\ pc'[w] = "orphans"
      BY <2>23, <2>g, ZenonT(60) DEF Refuse, Refused, ReturnError
    <3>1. ClaimInv'
      BY <3>0, <1>0, ZenonT(60) DEF ClaimInv
    <3>2. StepInv(w)'
      BY <3>0, <2>0, ZenonT(60) DEF StepInv, SwapSteps, BeforeDelete, AfterCreate
    <3> QED
      BY <3>1, <3>2
  <2>24. CASE Fail(w)
    <3>0. UNCHANGED <<pvc, pv, cache>> /\ UNCHANGED job /\ pc[w] # "idle" /\ pc'[w] = "orphans"
      BY <2>24, <2>g, ZenonT(60) DEF Fail, ReturnError, SwapSteps
    <3>1. ClaimInv'
      BY <3>0, <1>0, ZenonT(60) DEF ClaimInv
    <3>2. StepInv(w)'
      BY <3>0, <2>0, ZenonT(60) DEF StepInv, SwapSteps, BeforeDelete, AfterCreate
    <3> QED
      BY <3>1, <3>2
  <2> QED
    BY <1>1, <2>1, <2>2, <2>3, <2>4, <2>5, <2>6, <2>7, <2>8, <2>9, <2>10, <2>11, <2>12,
       <2>13, <2>14, <2>15, <2>16, <2>17, <2>18, <2>19, <2>20, <2>21, <2>22, <2>23, <2>24, ZenonT(60)
       DEF Step
<1>2. CASE Crash
  <2>1. ClaimInv'
    BY <1>2, <1>0, ZenonT(60) DEF Crash, ClaimInv
  <2>2. \A w \in Workers : StepInv(w)'
    BY <1>2, ZenonT(60) DEF Crash, StepInv, SwapSteps, BeforeDelete, AfterCreate
  <2> QED
    BY <2>1, <2>2
<1>3. CASE SyncCache
  <2>1. ClaimInv'
    BY <1>3, <1>0, ZenonT(60) DEF SyncCache, ClaimInv
  <2>2. \A w \in Workers : StepInv(w)'
    BY <1>3, <1>0, ZenonT(60) DEF SyncCache, StepInv, local
  <2> QED
    BY <2>1, <2>2
<1>4. CASE ClaimRemoved
  <2>0. /\ pvc'.st = "gone" /\ pvc'.vol = pvc.vol /\ pvc'.rem = pvc.rem /\ pvc'.rg = pvc.rg
        /\ pvc.st = "terminating" /\ UNCHANGED <<cache, pc, job, tgt, mem>>
        /\ \A p \in PV : pv'[p].backup = pv[p].backup /\ pv'[p].claim # "bound"
    BY <1>4, <1>0, <1>t DEF ClaimRemoved, TypeOK, PVCObject, PVObject, local
  <2>1. ClaimInv'
    BY <2>0, <1>0, <1>t, ZenonT(60) DEF ClaimInv
  <2>3. ASSUME NEW w \in Workers PROVE StepInv(w)'
    <3>1. StepInv(w) /\ (job[w] = 0 \/ job[w] \in PV)
      BY <1>0, ZenonT(60) DEF TypeOK
    <3> QED
      BY <2>0, <3>1, ZenonT(60) DEF StepInv, SwapSteps, BeforeDelete, AfterCreate
  <2> QED
    BY <2>1, <2>3
<1>5. CASE Bind
  <2>0. /\ UNCHANGED <<pvc, cache, pc, job, tgt, mem>> /\ pvc.st = "present"
        /\ \A p \in PV : pv'[p].backup = pv[p].backup
        /\ \A p \in PV : pv'[p].claim = "bound" => pv[p].claim = "bound" \/ pvc.vol = p
    BY <1>5, <1>t DEF Bind, SetPV, PVObject, local
  <2>1. ClaimInv'
    BY <2>0, <1>0, <1>t, ZenonT(60) DEF ClaimInv
  <2>3. ASSUME NEW w \in Workers PROVE StepInv(w)'
    <3>1. StepInv(w) /\ (job[w] = 0 \/ job[w] \in PV)
      BY <1>0 DEF TypeOK
    <3> QED
      BY <2>0, <3>1, ZenonT(60) DEF StepInv, SwapSteps, BeforeDelete, AfterCreate
  <2> QED
    BY <2>1, <2>3
<1>6. ASSUME NEW p \in PV, ForeignBind(p)
      PROVE  ClaimInv' /\ \A w \in Workers : StepInv(w)'
  <2>0. /\ UNCHANGED <<pvc, cache, pc, job, tgt, mem>>
        /\ \A q \in PV : pv'[q].backup = pv[q].backup
        /\ \A q \in PV : pv'[q].claim = "bound" => pv[q].claim = "bound"
    BY <1>6, <1>t DEF ForeignBind, SetPV, PVObject, local
  <2>1. ClaimInv'
    BY <2>0, <1>0, <1>t, ZenonT(60) DEF ClaimInv
  <2>3. ASSUME NEW w \in Workers PROVE StepInv(w)'
    <3>1. StepInv(w) /\ (job[w] = 0 \/ job[w] \in PV)
      BY <1>0, ZenonT(60) DEF TypeOK
    <3> QED
      BY <2>0, <3>1, ZenonT(60) DEF StepInv, SwapSteps, BeforeDelete, AfterCreate
  <2> QED
    BY <2>1, <2>3
<1>7. CASE UNCHANGED vars
  BY <1>7, <1>0, ZenonT(60) DEF ClaimInv, StepInv, vars, local
<1> QED
  BY <1>1, <1>2, <1>3, <1>4, <1>5, <1>6, <1>7 DEF Next

\* Initially the claim is bound to its volume and there are no backups.
LEMMA InitRecover == Init => RecoverInv
<1> SUFFICES ASSUME Init PROVE ClaimInv /\ \A w \in Workers : StepInv(w)
  BY InitType DEF RecoverInv, TypeInv
<1> QED
  BY SMTT(60) DEF Init, ClaimInv, BackupOf, StepInv, SwapSteps, BeforeDelete, AfterCreate, PV, Other

\* RecoverInv is inductive for one worker.
LEMMA RecoverInvariant ==
  ASSUME OneWorker, LookupErrors = FALSE
  PROVE  Spec => []RecoverInv
<1>1. RecoverInv /\ TypeOK' /\ [Next]_vars => RecoverInv'
  BY RecoverStep, ZenonT(60)
<1> QED
  BY <1>1, InitRecover, TypeCorrect, PTL DEF Spec

\* The claim survives every crash and every failure of a swap: as long as one
\* reconcile swaps it at a time and the reads of the orphan pass succeed, a claim
\* that does not exist has its backup on the volume it was deleted from.
THEOREM Recoverable ==
  ASSUME OneWorker, LookupErrors = FALSE
  PROVE  Spec => []ClaimRecoverable
<1>1. RecoverInv => ClaimRecoverable
  BY ZenonT(60) DEF RecoverInv, ClaimInv, BackupOf, ClaimRecoverable, TypeOK, PVCObject
<1> QED
  BY <1>1, RecoverInvariant, PTL

\* Under the same assumptions the claim, its annotation, its label and the
\* ClaimRefs of the volumes agree in every state.
THEOREM Consistent ==
  ASSUME OneWorker, LookupErrors = FALSE
  PROVE  Spec => []ClaimConsistent
<1>1. RecoverInv => ClaimConsistent
  BY ZenonT(60) DEF RecoverInv, ClaimInv, ClaimConsistent
<1> QED
  BY <1>1, RecoverInvariant, PTL

-----------------------------------------------------------------------------
(* Retention of the volumes *)

\* No failure to clear a backup has been passed over so far.
Cleared == "uncleared" \notin past

\* The two volumes, as long as no failure to clear a backup was passed over.
VolumeInv ==
  LET here == pv[pvc.vol]
      there == pv[Other(pvc.vol)]
  IN  /\ pvc.st = "present" => here.claim \in {"none", "bound", "foreign"}
      /\ pvc.st = "terminating" => here.claim \in {"bound", "foreign"}
      /\ pvc.st = "gone" => here.claim \in {"released", "foreign"}
      /\ pvc.st # "present" => /\ there.claim \in {"none", "foreign"}
                               /\ here.policy = "Retain" /\ there.policy = "Retain"
      /\ there.backup # NoBackup =>
           pvc.st = "present" /\ there.claim \in {"released", "foreign"}
      /\ pvc.st = "present" /\ there.claim \in {"none", "reserved"} =>
           here.claim \in {"bound", "foreign"}
      /\ here.claim = "released" => here.policy = "Retain"
      /\ there.claim = "released" => there.policy = "Retain"

VolumeStepInv(w) ==
  LET here == pv[job[w]]
      there == pv[Other(job[w])]
  IN  /\ pc[w] \in {"unreserve", "save", "retain", "delete", "wait"} =>
           /\ here.claim \in {"bound", "released", "foreign"}
           /\ there.claim \in {"none", "reserved", "foreign"}
           /\ there.backup = NoBackup
      /\ pc[w] \in {"save", "retain", "delete", "wait"} => there.claim # "reserved"
      /\ pc[w] \in {"retain", "delete", "wait"} => here.policy = "Retain"
      /\ pc[w] \in {"delete", "wait"} => there.policy = "Retain"
      /\ pc[w] = "create" => pvc.vol = job[w]
      /\ pc[w] \in AfterCreate => there.claim \in {"none", "bound", "foreign"}
      /\ pc[w] \in AfterCreate \ {"claim"} => there.claim \in {"bound", "foreign"}
      /\ pc[w] \in {"claim", "verify", "clear", "release"} =>
           here.claim \in {"released", "foreign", "none"}
      /\ pc[w] \in {"claim", "verify", "clear"} => here.claim # "none"
      /\ pc[w] \in {"release", "reserve", "restoreTarget", "restoreLocal"} =>
           here.backup = NoBackup
      /\ pc[w] = "reserve" => here.claim \in {"none", "foreign"}
      /\ pc[w] \in {"restoreTarget", "restoreLocal"} => here.claim = "reserved"

RetainInv ==
  RecoverInv /\ (Cleared => VolumeInv /\ \A w \in Workers : VolumeStepInv(w))

-----------------------------------------------------------------------------
\* A step leaves the history of mishaps alone or adds one to it.
LEMMA MishapsKept == [Next]_vars => UNCHANGED past \/ \E m : past' = Mishap(m)
<1>1. ASSUME NEW w \in Workers, NewAction(w) \/ Step(w) \/ Fail(w)
      PROVE  UNCHANGED past \/ \E m : past' = Mishap(m)
  <2>1. CASE NewAction(w) \/ RecoverOrphans(w)
    BY <2>1, ZenonT(60) DEF NewAction, RecoverOrphans
  <2>2. CASE ClearPendingPVCSwap(w) \/ ClearStaleBackup(w) \/ Refuse(w) \/ Fail(w)
    BY <2>2, ZenonT(60) DEF ClearPendingPVCSwap, ClearStaleBackup, Refuse, Fail, ReturnError
  <2>3. CASE \/ ListClaims(w) \/ GetClaim(w) \/ RecoverPVCBackup(w) \/ ReadLocalPV(w)
             \/ ReadTargetPV(w) \/ RemoveReservedClaimRef(w) \/ SavePVCBackup(w)
             \/ RetainTargetPV(w) \/ DeletePVC(w) \/ WaitDeleted(w) \/ CreatePVC(w)
             \/ UpdatePVClaimRef(w) \/ VerifyPVC(w) \/ RemovePVClaimRef(w)
             \/ SetReservedClaimRef(w) \/ RestoreTargetPolicy(w) \/ RestoreLocalPolicy(w)
             \/ EndSwap(w)
    BY <2>3, ZenonT(60) DEF ListClaims, GetClaim, RecoverPVCBackup, ReadLocalPV, ReadTargetPV,
       RemoveReservedClaimRef, SavePVCBackup, RetainTargetPV, DeletePVC, WaitDeleted,
       CreatePVC, UpdatePVClaimRef, VerifyPVC, RemovePVClaimRef, SetReservedClaimRef,
       RestoreTargetPolicy, RestoreLocalPolicy, EndSwap
  <2> QED
    BY <1>1, <2>1, <2>2, <2>3, ZenonT(60) DEF Step
<1> QED
  BY <1>1, ZenonT(60) DEF Next, Crash, SyncCache, ClaimRemoved, Bind, ForeignBind, vars

\* That a backup could not be cleared is never forgotten, and it is recorded at once.
LEMMA ClearedBefore ==
  /\ "uncleared" \in Mishap("uncleared")
  /\ [Next]_vars => (Cleared' => Cleared)
<1>1. \A m : "uncleared" \in past => "uncleared" \in Mishap(m)
  BY DEF Mishap
<1>2. "uncleared" \in Mishap("uncleared")
  BY DEF Mishap
<1> QED
  BY <1>1, <1>2, MishapsKept, ZenonT(60) DEF Cleared

\* The steps keep RetainInv; a clearing that fails and is passed over ends what it says.
LEMMA RetainStep ==
  ASSUME OneWorker, LookupErrors = FALSE, RetainInv, RecoverInv', [Next]_vars
  PROVE  RetainInv'
<1> SUFFICES ASSUME Cleared' PROVE VolumeInv' /\ \A w \in Workers : VolumeStepInv(w)'
  BY DEF RetainInv
<1>0. /\ TypeOK /\ ClaimInv /\ VolumeInv
      /\ \A w \in Workers : StepInv(w) /\ VolumeStepInv(w)
  BY ClearedBefore DEF RetainInv, RecoverInv
<1>u. past' # Mishap("uncleared")
  BY ClearedBefore DEF Cleared
<1>t. /\ pvc.vol \in PV /\ pvc.st \in {"present", "terminating", "gone"}
      /\ pv \in [PV -> PVObject]
  BY <1>0 DEF TypeOK, PVCObject
<1>v. VolumeInv
  BY <1>0
<1>1. ASSUME NEW w \in Workers, NewAction(w) \/ Step(w) \/ Fail(w)
      PROVE  VolumeInv' /\ \A u \in Workers : VolumeStepInv(u)'
  <2> SUFFICES VolumeInv' /\ VolumeStepInv(w)'
    BY DEF OneWorker
  <2>0. /\ StepInv(w) /\ VolumeStepInv(w) /\ tgt[w] \in PV /\ job[w] \in PV \cup {0}
    BY <1>0, SMTT(60) DEF TypeOK
  <2>g. \A s : Goto(w, s) => pc'[w] = s
    BY <1>0, ZenonT(60) DEF TypeOK, Goto
  <2>p. job[w] # 0 => /\ job[w] \in PV /\ Other(job[w]) \in PV /\ Other(job[w]) # job[w]
                      /\ Other(Other(job[w])) = job[w]
    BY <2>0, OtherFacts, ZenonT(60)
  <2>1. CASE NewAction(w)
    <3>0. UNCHANGED <<pvc, pv>> /\ pc'[w] \in {"idle"}
      BY <2>1 DEF NewAction
    <3>1. VolumeInv'
      BY <3>0, <1>v, ZenonT(60) DEF VolumeInv
    <3>2. VolumeStepInv(w)'
      BY <3>0, ZenonT(60) DEF VolumeStepInv, AfterCreate
    <3> QED
      BY <3>1, <3>2
  <2>2. CASE ListClaims(w)
    <3>0. UNCHANGED <<pvc, pv>> /\ pc'[w] \in {"get", "orphans"}
      BY <2>2, <2>g, ZenonT(60) DEF ListClaims
    <3>1. VolumeInv'
      BY <3>0, <1>v, ZenonT(60) DEF VolumeInv
    <3>2. VolumeStepInv(w)'
      BY <3>0, ZenonT(60) DEF VolumeStepInv, AfterCreate
    <3> QED
      BY <3>1, <3>2
  <2>3. CASE GetClaim(w)
    <3>0. UNCHANGED <<pvc, pv>> /\ pc'[w] \in {"readLocal", "orphans", "recover"}
      BY <2>3, <2>g, ZenonT(60) DEF GetClaim
    <3>1. VolumeInv'
      BY <3>0, <1>v, ZenonT(60) DEF VolumeInv
    <3>2. VolumeStepInv(w)'
      BY <3>0, ZenonT(60) DEF VolumeStepInv, AfterCreate
    <3> QED
      BY <3>1, <3>2
  <2>4. CASE RecoverPVCBackup(w)
    <3>0. UNCHANGED <<pvc, pv, job>> /\ pc'[w] = "create"
      BY <2>4, <2>g, ZenonT(60) DEF RecoverPVCBackup, local
    <3>1. VolumeInv'
      BY <3>0, <1>v, ZenonT(60) DEF VolumeInv
    <3>2. pvc.vol = job[w]
      <4>1. /\ pc[w] = "recover" /\ job[w] # 0 /\ Other(tgt[w]) = job[w]
            /\ pvc.st = "gone" /\ pv[Other(tgt[w])].backup # NoBackup
        BY <2>4, <2>0, <2>p, ZenonT(60) DEF RecoverPVCBackup, StepInv, SwapSteps
      <4>2. pv[Other(pvc.vol)].backup = NoBackup
        BY <4>1, <1>v, ZenonT(60) DEF VolumeInv
      <4> QED
        BY <4>1, <4>2, <1>t, <2>0, OtherFacts, ZenonT(60)
    <3>3. VolumeStepInv(w)'
      BY <3>0, <3>2, ZenonT(60) DEF VolumeStepInv, AfterCreate
    <3> QED
      BY <3>1, <3>3
  <2>5. CASE ReadLocalPV(w)
    <3>0. UNCHANGED <<pvc, pv>> /\ pc'[w] \in {"readTarget"}
      BY <2>5, <2>g DEF ReadLocalPV
    <3>1. VolumeInv'
      BY <3>0, <1>v, ZenonT(60) DEF VolumeInv
    <3>2. VolumeStepInv(w)'
      BY <3>0, ZenonT(60) DEF VolumeStepInv, AfterCreate
    <3> QED
      BY <3>1, <3>2
  <2>6. CASE ReadTargetPV(w)
    <3>a. /\ pc[w] = "readTarget" /\ UNCHANGED <<pvc, job>> /\ job[w] # 0
          /\ mem[w].rem = Other(job[w]) /\ pvc.vol = job[w]
      BY <2>6, <2>0, ZenonT(60) DEF ReadTargetPV, StepInv, SwapSteps, BeforeDelete, AfterCreate
    <3>b. ~(pvc.st = "gone" /\ pv[Other(job[w])].claim \in {"bound", "released"})
      BY <3>a, <1>v, ZenonT(60) DEF VolumeInv
    <3>0. /\ UNCHANGED pv
          /\ \/ pc'[w] = "save" /\ pv[Other(job[w])].claim = "none"
             \/ pc'[w] = "unreserve" /\ pv[Other(job[w])].claim = "reserved"
      BY <2>6, <3>a, <3>b, <2>g DEF ReadTargetPV
    <3>1. VolumeInv'
      BY <3>0, <3>a, <1>v, ZenonT(60) DEF VolumeInv
    <3>2. VolumeStepInv(w)'
      BY <3>0, <3>a, <1>v, <1>t, ZenonT(60) DEF VolumeInv, VolumeStepInv, AfterCreate
    <3> QED
      BY <3>1, <3>2
  <2>7. CASE RemoveReservedClaimRef(w)
    <3>a. /\ pc[w] = "unreserve" /\ UNCHANGED job /\ job[w] # 0
          /\ tgt[w] = Other(job[w]) /\ mem[w].vol = job[w] /\ mem[w].rem = Other(job[w])
          /\ pvc.vol = job[w]
      BY <2>7, <2>0 DEF RemoveReservedClaimRef, local, StepInv, SwapSteps, BeforeDelete, AfterCreate
    <3>0. /\ UNCHANGED pvc /\ pc'[w] \in {"unreserve", "save"}
          /\ pv'[job[w]] = pv[job[w]] /\ pv'[Other(job[w])].claim = "none"
          /\ pv'[Other(job[w])].policy = pv[Other(job[w])].policy
          /\ pv'[Other(job[w])].backup = pv[Other(job[w])].backup
      BY <2>7, <3>a, <1>t, <2>g, <2>p DEF RemoveReservedClaimRef, SetPV, PVObject
    <3>b. /\ pv[job[w]].claim \in {"bound", "released", "foreign"}
          /\ pv[Other(job[w])].backup = NoBackup
      BY <3>a, <2>0, ZenonT(60) DEF VolumeStepInv, AfterCreate
    <3>1. VolumeInv'
      BY <3>0, <3>a, <3>b, <1>v, <2>p, ZenonT(60) DEF VolumeInv
    <3>2. VolumeStepInv(w)'
      BY <3>0, <3>a, <2>0, ZenonT(60) DEF VolumeStepInv, AfterCreate
    <3> QED
      BY <3>1, <3>2
  <2>8. CASE SavePVCBackup(w)
    <3>a. /\ pc[w] = "save" /\ UNCHANGED job /\ job[w] # 0
          /\ tgt[w] = Other(job[w]) /\ mem[w].vol = job[w] /\ mem[w].rem = Other(job[w])
          /\ pvc.vol = job[w]
      BY <2>8, <2>0 DEF SavePVCBackup, local, StepInv, SwapSteps, BeforeDelete, AfterCreate
    <3>0. /\ UNCHANGED pvc /\ pc'[w] = "retain"
          /\ pv'[Other(job[w])] = pv[Other(job[w])]
          /\ pv'[job[w]].claim = pv[job[w]].claim /\ pv'[job[w]].policy = "Retain"
      BY <2>8, <3>a, <1>t, <2>g, <2>p DEF SavePVCBackup, SetPV, PVObject
    <3>b. /\ pv[job[w]].claim \in {"bound", "released", "foreign"}
          /\ pv[Other(job[w])].backup = NoBackup
      BY <3>a, <2>0, ZenonT(60) DEF VolumeStepInv, AfterCreate
    <3>1. VolumeInv'
      BY <3>0, <3>a, <3>b, <1>v, <2>p, ZenonT(60) DEF VolumeInv
    <3>2. VolumeStepInv(w)'
      BY <3>0, <3>a, <2>0, ZenonT(60) DEF VolumeStepInv, AfterCreate
    <3> QED
      BY <3>1, <3>2
  <2>9. CASE RetainTargetPV(w)
    <3>a. /\ pc[w] = "retain" /\ UNCHANGED job /\ job[w] # 0
          /\ tgt[w] = Other(job[w]) /\ mem[w].vol = job[w] /\ mem[w].rem = Other(job[w])
          /\ pvc.vol = job[w]
      BY <2>9, <2>0 DEF RetainTargetPV, local, StepInv, SwapSteps, BeforeDelete, AfterCreate
    <3>0. /\ UNCHANGED pvc /\ pc'[w] = "delete"
          /\ pv'[job[w]] = pv[job[w]] /\ pv'[Other(job[w])].policy = "Retain"
          /\ pv'[Other(job[w])].claim = pv[Other(job[w])].claim
          /\ pv'[Other(job[w])].backup = pv[Other(job[w])].backup
      BY <2>9, <3>a, <1>t, <2>g, <2>p DEF RetainTargetPV, SetPV, PVObject
    <3>b. /\ pv[job[w]].claim \in {"bound", "released", "foreign"}
          /\ pv[job[w]].policy = "Retain"
          /\ pv[Other(job[w])].backup = NoBackup
      BY <3>a, <2>0, ZenonT(60) DEF VolumeStepInv, AfterCreate
    <3>1. VolumeInv'
      BY <3>0, <3>a, <3>b, <1>v, <2>p, ZenonT(60) DEF VolumeInv
    <3>2. VolumeStepInv(w)'
      BY <3>0, <3>a, <2>0, ZenonT(60) DEF VolumeStepInv, AfterCreate
    <3> QED
      BY <3>1, <3>2
  <2>10. CASE DeletePVC(w)
    <3>a. /\ pc[w] = "delete" /\ UNCHANGED job /\ job[w] # 0
          /\ tgt[w] = Other(job[w]) /\ mem[w].vol = job[w] /\ mem[w].rem = Other(job[w])
          /\ pvc.vol = job[w]
      BY <2>10, <2>0 DEF DeletePVC, local, StepInv, SwapSteps, BeforeDelete, AfterCreate
    <3>0. /\ pc'[w] = "wait"
          /\ UNCHANGED pv /\ pvc'.vol = pvc.vol
          /\ \/ pvc'.st = pvc.st
             \/ pvc.st # "gone" /\ pvc'.st = "terminating"
      BY <2>10, <1>0, <2>g DEF DeletePVC, TypeOK, PVCObject
    <3>b. /\ pv[job[w]].claim \in {"bound", "released", "foreign"}
          /\ pv[Other(job[w])].claim \in {"none", "foreign"}
          /\ pv[job[w]].policy = "Retain" /\ pv[Other(job[w])].policy = "Retain"
          /\ pv[Other(job[w])].backup = NoBackup
      BY <3>a, <2>0, ZenonT(60) DEF VolumeStepInv, AfterCreate
    <3>1. VolumeInv'
      BY <3>0, <3>a, <3>b, <1>v, <1>t, <2>p, ZenonT(60) DEF VolumeInv
    <3>2. VolumeStepInv(w)'
      BY <3>0, <3>a, <2>0, ZenonT(60) DEF VolumeStepInv, AfterCreate
    <3> QED
      BY <3>1, <3>2
  <2>11. CASE WaitDeleted(w)
    <3>0. UNCHANGED <<pvc, pv, job>> /\ pc'[w] = "create"
      BY <2>11, <2>g, ZenonT(60) DEF WaitDeleted, local
    <3>1. VolumeInv'
      BY <3>0, <1>v, ZenonT(60) DEF VolumeInv
    <3>2. pvc.vol = job[w]
      BY <2>11, <2>0, ZenonT(60) DEF WaitDeleted, StepInv, BeforeDelete
    <3>3. VolumeStepInv(w)'
      BY <3>0, <3>2, ZenonT(60) DEF VolumeStepInv, AfterCreate
    <3> QED
      BY <3>1, <3>3
  <2>12. CASE CreatePVC(w)
    <3>a. /\ pc[w] = "create" /\ UNCHANGED <<pv, job>> /\ job[w] # 0
          /\ tgt[w] = Other(job[w]) /\ pvc.st = "gone" /\ pvc.vol = job[w]
      BY <2>12, <2>0, ZenonT(60) DEF CreatePVC, local, VolumeStepInv, StepInv, SwapSteps
    <3>0. pvc'.st = "present" /\ pvc'.vol = Other(job[w]) /\ pc'[w] = "claim"
      BY <2>12, <3>a, <2>g, ZenonT(60) DEF CreatePVC
    <3>1. VolumeInv'
      BY <3>0, <3>a, <1>v, <2>p, ZenonT(60) DEF VolumeInv
    <3>2. VolumeStepInv(w)'
      BY <3>0, <3>a, <1>v, ZenonT(60) DEF VolumeInv, VolumeStepInv, AfterCreate
    <3> QED
      BY <3>1, <3>2
  <2>13. CASE UpdatePVClaimRef(w)
    <3>a. /\ pc[w] = "claim" /\ UNCHANGED job /\ job[w] # 0
          /\ tgt[w] = Other(job[w]) /\ mem[w].vol = job[w] /\ mem[w].rem = Other(job[w])
          /\ pvc.st = "present" /\ pvc.vol = Other(job[w])
      BY <2>13, <2>0 DEF UpdatePVClaimRef, local, StepInv, SwapSteps, BeforeDelete, AfterCreate
    <3>0. /\ UNCHANGED pvc /\ pc'[w] = "verify"
          /\ pv'[job[w]] = pv[job[w]]
          /\ pv'[Other(job[w])].policy = pv[Other(job[w])].policy
          /\ pv'[Other(job[w])].backup = pv[Other(job[w])].backup
          /\ IF pv[Other(job[w])].claim = "none"
             THEN pv'[Other(job[w])].claim = "bound"
             ELSE pv'[Other(job[w])].claim = pv[Other(job[w])].claim
      BY <2>13, <3>a, <1>t, <2>g, <2>p DEF UpdatePVClaimRef, SetPV, PVObject
    <3>b. /\ pv[Other(job[w])].claim \in {"none", "bound", "foreign"}
          /\ pv[job[w]].claim \in {"released", "foreign"}
      BY <3>a, <2>0, ZenonT(60) DEF VolumeStepInv, AfterCreate
    <3>1. VolumeInv'
      BY <3>0, <3>a, <3>b, <1>v, <2>p, ZenonT(60) DEF VolumeInv
    <3>2. VolumeStepInv(w)'
      BY <3>0, <3>a, <2>0, ZenonT(60) DEF VolumeStepInv, AfterCreate
    <3> QED
      BY <3>1, <3>2
  <2>14. CASE VerifyPVC(w)
    <3>0. UNCHANGED <<pvc, pv, job>> /\ pc[w] = "verify" /\ pc'[w] = "clear"
      BY <2>14, <2>g, ZenonT(60) DEF VerifyPVC, local
    <3>1. VolumeInv'
      BY <3>0, <1>v, ZenonT(60) DEF VolumeInv
    <3>2. VolumeStepInv(w)'
      BY <3>0, <2>0, ZenonT(60) DEF VolumeStepInv, AfterCreate
    <3> QED
      BY <3>1, <3>2
  <2>15. CASE ClearPendingPVCSwap(w)
    <3>a. /\ pc[w] = "clear" /\ UNCHANGED job /\ job[w] # 0
          /\ tgt[w] = Other(job[w]) /\ mem[w].vol = job[w] /\ mem[w].rem = Other(job[w])
          /\ pvc.st = "present" /\ pvc.vol = Other(job[w])
      BY <2>15, <2>0 DEF ClearPendingPVCSwap, local, StepInv, SwapSteps, BeforeDelete, AfterCreate
    <3>0. /\ UNCHANGED pvc /\ pc'[w] = "release"
          /\ pv'[Other(job[w])] = pv[Other(job[w])] /\ pv'[job[w]].backup = NoBackup
          /\ pv'[job[w]].policy = pv[job[w]].policy /\ pv'[job[w]].claim = pv[job[w]].claim
      BY <2>15, <3>a, <1>t, <1>u, <2>g, <2>p DEF ClearPendingPVCSwap, SetPV, PVObject
    <3>b. /\ pv[Other(job[w])].claim \in {"bound", "foreign"}
          /\ pv[job[w]].claim \in {"released", "foreign"}
      BY <3>a, <2>0, ZenonT(60) DEF VolumeStepInv, AfterCreate
    <3>1. VolumeInv'
      BY <3>0, <3>a, <3>b, <1>v, <2>p, ZenonT(60) DEF VolumeInv
    <3>2. VolumeStepInv(w)'
      BY <3>0, <3>a, <2>0, ZenonT(60) DEF VolumeStepInv, AfterCreate
    <3> QED
      BY <3>1, <3>2
  <2>16. CASE RemovePVClaimRef(w)
    <3>a. /\ pc[w] = "release" /\ UNCHANGED job /\ job[w] # 0
          /\ tgt[w] = Other(job[w]) /\ mem[w].vol = job[w] /\ mem[w].rem = Other(job[w])
          /\ pvc.st = "present" /\ pvc.vol = Other(job[w])
      BY <2>16, <2>0 DEF RemovePVClaimRef, local, StepInv, SwapSteps, BeforeDelete, AfterCreate
    <3>0. /\ UNCHANGED pvc /\ pc'[w] \in {"release", "reserve"}
          /\ pv'[Other(job[w])] = pv[Other(job[w])] /\ pv'[job[w]].claim = "none"
          /\ pv'[job[w]].policy = pv[job[w]].policy /\ pv'[job[w]].backup = pv[job[w]].backup
      BY <2>16, <3>a, <1>t, <2>g, <2>p DEF RemovePVClaimRef, SetPV, PVObject
    <3>b. /\ pv[Other(job[w])].claim \in {"bound", "foreign"}
          /\ pv[job[w]].backup = NoBackup
      BY <3>a, <2>0, ZenonT(60) DEF VolumeStepInv, AfterCreate
    <3>1. VolumeInv'
      BY <3>0, <3>a, <3>b, <1>v, <2>p, ZenonT(60) DEF VolumeInv
    <3>2. VolumeStepInv(w)'
      BY <3>0, <3>a, <2>0, ZenonT(60) DEF VolumeStepInv, AfterCreate
    <3> QED
      BY <3>1, <3>2
  <2>17. CASE SetReservedClaimRef(w)
    <3>a. /\ pc[w] = "reserve" /\ UNCHANGED job /\ job[w] # 0
          /\ tgt[w] = Other(job[w]) /\ mem[w].vol = job[w] /\ mem[w].rem = Other(job[w])
          /\ pvc.st = "present" /\ pvc.vol = Other(job[w])
      BY <2>17, <2>0 DEF SetReservedClaimRef, local, StepInv, SwapSteps, BeforeDelete, AfterCreate
    <3>0. /\ UNCHANGED pvc /\ pc'[w] = "restoreTarget"
          /\ pv'[Other(job[w])] = pv[Other(job[w])] /\ pv'[job[w]].claim = "reserved"
          /\ pv'[job[w]].backup = NoBackup /\ pv'[job[w]].policy = pv[job[w]].policy
      BY <2>17, <3>a, <1>t, <2>g, <2>p DEF SetReservedClaimRef, SetPV, PVObject
    <3>b. pv[Other(job[w])].claim \in {"bound", "foreign"}
      BY <3>a, <2>0, ZenonT(60) DEF VolumeStepInv, AfterCreate
    <3>1. VolumeInv'
      BY <3>0, <3>a, <3>b, <1>v, <2>p, ZenonT(60) DEF VolumeInv
    <3>2. VolumeStepInv(w)'
      BY <3>0, <3>a, <2>0, ZenonT(60) DEF VolumeStepInv, AfterCreate
    <3> QED
      BY <3>1, <3>2
  <2>18. CASE RestoreTargetPolicy(w)
    <3>a. /\ pc[w] = "restoreTarget" /\ UNCHANGED job /\ job[w] # 0
          /\ tgt[w] = Other(job[w]) /\ mem[w].vol = job[w] /\ mem[w].rem = Other(job[w])
          /\ pvc.st = "present" /\ pvc.vol = Other(job[w])
      BY <2>18, <2>0 DEF RestoreTargetPolicy, local, StepInv, SwapSteps, BeforeDelete, AfterCreate
    <3>0. /\ UNCHANGED pvc /\ pc'[w] = "restoreLocal"
          /\ pv'[job[w]] = pv[job[w]]
          /\ pv'[Other(job[w])].claim = pv[Other(job[w])].claim
          /\ pv'[Other(job[w])].backup = pv[Other(job[w])].backup
      BY <2>18, <3>a, <1>t, <2>g, <2>p DEF RestoreTargetPolicy, SetPV, PVObject
    <3>b. pv[Other(job[w])].claim \in {"bound", "foreign"}
      BY <3>a, <2>0, ZenonT(60) DEF VolumeStepInv, AfterCreate
    <3>1. VolumeInv'
      BY <3>0, <3>a, <3>b, <1>v, <2>p, ZenonT(60) DEF VolumeInv
    <3>2. VolumeStepInv(w)'
      BY <3>0, <3>a, <2>0, ZenonT(60) DEF VolumeStepInv, AfterCreate
    <3> QED
      BY <3>1, <3>2
  <2>19. CASE RestoreLocalPolicy(w)
    <3>a. /\ pc[w] = "restoreLocal" /\ UNCHANGED job /\ job[w] # 0
          /\ tgt[w] = Other(job[w]) /\ mem[w].vol = job[w] /\ mem[w].rem = Other(job[w])
          /\ pvc.st = "present" /\ pvc.vol = Other(job[w])
      BY <2>19, <2>0 DEF RestoreLocalPolicy, local, StepInv, SwapSteps, BeforeDelete, AfterCreate
    <3>0. /\ UNCHANGED pvc /\ pc'[w] = "orphans"
          /\ pv'[Other(job[w])] = pv[Other(job[w])]
          /\ pv'[job[w]].claim = pv[job[w]].claim /\ pv'[job[w]].backup = pv[job[w]].backup
      BY <2>19, <3>a, <1>t, <2>g, <2>p DEF RestoreLocalPolicy, SetPV, PVObject
    <3>b. pv[job[w]].claim = "reserved"
      BY <3>a, <2>0, ZenonT(60) DEF VolumeStepInv, AfterCreate
    <3>1. VolumeInv'
      BY <3>0, <3>a, <3>b, <1>v, <2>p, ZenonT(60) DEF VolumeInv
    <3>2. VolumeStepInv(w)'
      BY <3>0, <3>a, <2>0, ZenonT(60) DEF VolumeStepInv, AfterCreate
    <3> QED
      BY <3>1, <3>2
  <2>20. CASE RecoverOrphans(w)
    <3>0. UNCHANGED <<pvc, pv>> /\ pc'[w] \in {"end", "clearStale", "get"}
      BY <2>20, <2>g, ZenonT(60) DEF RecoverOrphans
    <3>1. VolumeInv'
      BY <3>0, <1>v, ZenonT(60) DEF VolumeInv
    <3>2. VolumeStepInv(w)'
      BY <3>0, ZenonT(60) DEF VolumeStepInv, AfterCreate
    <3> QED
      BY <3>1, <3>2
  <2>21. CASE ClearStaleBackup(w)
    <3>a. /\ pc[w] = "clearStale" /\ job[w] # 0 /\ pvc.vol = Other(job[w])
      BY <2>21, <2>0 DEF ClearStaleBackup, StepInv
    <3>0. /\ UNCHANGED pvc /\ pc'[w] = "end"
          /\ pv'[Other(job[w])] = pv[Other(job[w])] /\ pv'[job[w]].backup = NoBackup
          /\ pv'[job[w]].policy = pv[job[w]].policy /\ pv'[job[w]].claim = pv[job[w]].claim
      BY <2>21, <3>a, <1>t, <1>u, <2>g, <2>p DEF ClearStaleBackup, SetPV, PVObject
    <3>1. VolumeInv'
      BY <3>0, <3>a, <1>v, <2>p, ZenonT(60) DEF VolumeInv
    <3>2. VolumeStepInv(w)'
      BY <3>0, ZenonT(60) DEF VolumeStepInv, AfterCreate
    <3> QED
      BY <3>1, <3>2
  <2>22. CASE EndSwap(w)
    <3>0. UNCHANGED <<pvc, pv>> /\ pc'[w] \in {"idle"}
      BY <2>22, <2>g, ZenonT(60) DEF EndSwap
    <3>1. VolumeInv'
      BY <3>0, <1>v, ZenonT(60) DEF VolumeInv
    <3>2. VolumeStepInv(w)'
      BY <3>0, ZenonT(60) DEF VolumeStepInv, AfterCreate
    <3> QED
      BY <3>1, <3>2
  <2>23. CASE Refuse(w)
    <3>0. UNCHANGED <<pvc, pv>> /\ pc'[w] \in {"orphans"}
      BY <2>23, <2>g DEF Refuse, ReturnError
    <3>1. VolumeInv'
      BY <3>0, <1>v, ZenonT(60) DEF VolumeInv
    <3>2. VolumeStepInv(w)'
      BY <3>0, ZenonT(60) DEF VolumeStepInv, AfterCreate
    <3> QED
      BY <3>1, <3>2
  <2>24. CASE Fail(w)
    <3>0. UNCHANGED <<pvc, pv>> /\ pc'[w] \in {"orphans"}
      BY <2>24, <2>g, ZenonT(60) DEF Fail, ReturnError
    <3>1. VolumeInv'
      BY <3>0, <1>v, ZenonT(60) DEF VolumeInv
    <3>2. VolumeStepInv(w)'
      BY <3>0, ZenonT(60) DEF VolumeStepInv, AfterCreate
    <3> QED
      BY <3>1, <3>2
  <2> QED
    BY <1>1, <2>1, <2>2, <2>3, <2>4, <2>5, <2>6, <2>7, <2>8, <2>9, <2>10, <2>11, <2>12,
       <2>13, <2>14, <2>15, <2>16, <2>17, <2>18, <2>19, <2>20, <2>21, <2>22, <2>23, <2>24, ZenonT(60)
       DEF Step
<1>2. CASE Crash
  <2>1. VolumeInv'
    BY <1>2, <1>v, ZenonT(60) DEF Crash, VolumeInv
  <2>2. \A w \in Workers : VolumeStepInv(w)'
    BY <1>2, ZenonT(60) DEF Crash, VolumeStepInv, AfterCreate
  <2> QED
    BY <2>1, <2>2
<1>3. CASE SyncCache
  <2>1. VolumeInv'
    BY <1>3, <1>v, ZenonT(60) DEF SyncCache, VolumeInv
  <2>2. ASSUME NEW w \in Workers PROVE VolumeStepInv(w)'
    <3>1. VolumeStepInv(w) /\ UNCHANGED <<pvc, pv, pc, job>>
      BY <1>3, <1>0 DEF SyncCache, local
    <3> QED
      BY <3>1, ZenonT(60) DEF VolumeStepInv
  <2> QED
    BY <2>1, <2>2
<1>4. CASE ClaimRemoved
  <2>0. /\ pvc'.st = "gone" /\ pvc'.vol = pvc.vol /\ pvc.st = "terminating"
        /\ UNCHANGED <<pc, job>>
        /\ \A p \in PV : /\ pv'[p].policy = pv[p].policy /\ pv'[p].backup = pv[p].backup
                         /\ pv'[p].claim = IF pv[p].claim = "bound" THEN "released"
                                                                  ELSE pv[p].claim
    BY <1>4, <1>0, <1>t DEF ClaimRemoved, TypeOK, PVCObject, PVObject, local
  <2>b. pvc.vol \in PV /\ Other(pvc.vol) \in PV
    BY <1>t, OtherFacts
  <2>1. VolumeInv'
    BY <2>0, <2>b, <1>v, ZenonT(60) DEF VolumeInv
  <2>2. ASSUME NEW w \in Workers PROVE VolumeStepInv(w)'
    <3>1. StepInv(w) /\ VolumeStepInv(w) /\ (job[w] = 0 \/ job[w] \in PV)
      BY <1>0, SMTT(60) DEF TypeOK
    <3>2. job[w] # 0 => Other(job[w]) \in PV
      BY <3>1, OtherFacts
    <3>3. pc[w] \notin AfterCreate
      BY <3>1, <2>0, ZenonT(60) DEF StepInv
    <3>4. pc[w] # "idle" => job[w] # 0
      BY <3>1, ZenonT(60) DEF StepInv
    <3> QED
      BY <3>1, <3>2, <3>3, <3>4, <2>0, ZenonT(60) DEF VolumeStepInv, AfterCreate
  <2> QED
    BY <2>1, <2>2
<1>5. CASE Bind
  <2>b. pvc.vol \in PV /\ Other(pvc.vol) \in PV /\ Other(pvc.vol) # pvc.vol
    BY <1>t, OtherFacts
  <2>0. /\ UNCHANGED <<pvc, pc, job>> /\ pvc.st = "present"
        /\ pv[pvc.vol].claim = "none" /\ pv'[pvc.vol].claim = "bound"
        /\ pv'[pvc.vol].policy = pv[pvc.vol].policy /\ pv'[pvc.vol].backup = pv[pvc.vol].backup
        /\ pv'[Other(pvc.vol)] = pv[Other(pvc.vol)]
    BY <1>5, <1>t, <2>b DEF Bind, SetPV, PVObject, local
  <2>1. VolumeInv'
    BY <2>0, <1>v, ZenonT(60) DEF VolumeInv
  <2>2. ASSUME NEW w \in Workers PROVE VolumeStepInv(w)'
    <3>1. StepInv(w) /\ VolumeStepInv(w) /\ (job[w] = 0 \/ job[w] \in PV)
      BY <1>0 DEF TypeOK
    <3>2. CASE pc[w] \in BeforeDelete
      <4>1. pvc.vol = job[w]
        BY <3>1, <3>2, ZenonT(60) DEF StepInv
      <4> QED
        BY <3>1, <3>2, <4>1, <2>0, ZenonT(60) DEF VolumeStepInv, AfterCreate, BeforeDelete
    <3>3. CASE pc[w] \in AfterCreate
      <4>1. pvc.vol = Other(job[w]) /\ Other(pvc.vol) = job[w]
        BY <3>1, <3>3, OtherFacts, ZenonT(60) DEF StepInv, AfterCreate
      <4> QED
        BY <3>1, <3>3, <4>1, <2>0, ZenonT(60) DEF VolumeStepInv, AfterCreate
    <3> QED
      BY <3>1, <3>2, <3>3, <2>0, ZenonT(60) DEF VolumeStepInv, AfterCreate, BeforeDelete
  <2> QED
    BY <2>1, <2>2
<1>6. ASSUME NEW p \in PV, ForeignBind(p)
      PROVE  VolumeInv' /\ \A w \in Workers : VolumeStepInv(w)'
  <2>0. /\ UNCHANGED <<pvc, pc, job>>
        /\ \A r \in PV : \/ pv'[r] = pv[r]
                         \/ /\ pv[r].claim = "none" /\ pv'[r].claim = "foreign"
                            /\ pv'[r].policy = pv[r].policy /\ pv'[r].backup = pv[r].backup
    BY <1>6, <1>t DEF ForeignBind, SetPV, PVObject, local
  <2>1. VolumeInv'
    <3>1. pvc.vol \in PV /\ Other(pvc.vol) \in PV
      BY <1>t, OtherFacts
    <3> QED
      BY <2>0, <3>1, <1>v, ZenonT(60) DEF VolumeInv
  <2>2. ASSUME NEW w \in Workers PROVE VolumeStepInv(w)'
    <3>1. StepInv(w) /\ VolumeStepInv(w) /\ (job[w] = 0 \/ job[w] \in PV)
      BY <1>0 DEF TypeOK
    <3>2. CASE pc[w] = "idle"
      BY <3>2, <2>0, ZenonT(60) DEF VolumeStepInv, AfterCreate
    <3>3. CASE pc[w] # "idle"
      <4>1. job[w] \in PV /\ Other(job[w]) \in PV
        BY <3>1, <3>3, OtherFacts, ZenonT(60) DEF StepInv
      <4> QED
        BY <2>0, <3>1, <4>1, ZenonT(60) DEF VolumeStepInv, AfterCreate
    <3> QED
      BY <3>2, <3>3
  <2> QED
    BY <2>1, <2>2
<1>7. CASE UNCHANGED vars
  <2>1. UNCHANGED <<pvc, pv, pc, job>>
    BY <1>7, ZenonT(60) DEF vars, local
  <2>2. VolumeInv'
    BY <2>1, <1>v, ZenonT(60) DEF VolumeInv
  <2>3. \A w \in Workers : VolumeStepInv(w)'
    BY <2>1, <1>0, ZenonT(60) DEF VolumeStepInv
  <2> QED
    BY <2>2, <2>3
<1> QED
  BY <1>1, <1>2, <1>3, <1>4, <1>5, <1>6, <1>7 DEF Next

\* RetainInv is inductive for one worker.
LEMMA RetainInvariant ==
  ASSUME OneWorker, LookupErrors = FALSE
  PROVE  Spec => []RetainInv
<1>1. Init => RetainInv
  <2> SUFFICES ASSUME Init PROVE VolumeInv /\ \A w \in Workers : VolumeStepInv(w)
    BY InitRecover DEF RetainInv
  <2>1. /\ pvc.st = "present" /\ pvc.vol = 1 /\ Other(1) = 2 /\ NoBackup = pv[2].backup
        /\ pv[1].claim = "bound" /\ pv[2].claim = "reserved"
    BY SMTT(60) DEF Init, PV, Other
  <2>2. VolumeInv
    BY <2>1, ZenonT(60) DEF VolumeInv
  <2>3. \A w \in Workers : VolumeStepInv(w)
    BY ZenonT(60) DEF Init, VolumeStepInv, AfterCreate
  <2> QED
    BY <2>2, <2>3
<1>2. RetainInv /\ RecoverInv' /\ [Next]_vars => RetainInv'
  BY RetainStep, ZenonT(60)
<1> QED
  BY <1>1, <1>2, RecoverInvariant, PTL DEF Spec

\* No data is destroyed: no volume is ever released with policy Delete, wherever
\* swaps fail or the controller crashes, as long as one reconcile swaps the claim
\* at a time, the orphan pass can read and no backup of a finished swap was left.
THEOREM NothingReclaimed ==
  ASSUME OneWorker, LookupErrors = FALSE
  PROVE  Spec => []NoVolumeReclaimed
<1>1. RetainInv => NoVolumeReclaimed
  <2> SUFFICES ASSUME RetainInv PROVE NoVolumeReclaimed
    OBVIOUS
  <2>1. pvc.vol \in PV /\ (Cleared => VolumeInv)
    BY ZenonT(60) DEF RetainInv, RecoverInv, TypeOK, PVCObject
  <2>2. \A p \in PV : p = pvc.vol \/ p = Other(pvc.vol)
    BY <2>1, OtherFacts
  <2> QED
    BY <2>1, <2>2, ZenonT(60) DEF VolumeInv, NoVolumeReclaimed, Cleared
<1> QED
  BY <1>1, RetainInvariant, PTL

\* Under the same assumptions a recovery only ever repeats the swap that was
\* interrupted, never one that had been completed.
THEOREM OnlyInterruptedSwapsRepeated ==
  ASSUME OneWorker, LookupErrors = FALSE
  PROVE  Spec => CompletedSwapNotReprocessed
<1> DEFINE A == Cleared => \A w \in Workers :
                  pc[w] = "recover" /\ pc'[w] = "create" => mem'[w].vol = pvc.vol
<1>1. RetainInv /\ RetainInv' /\ [Next]_vars => [A]_vars
  <2> SUFFICES ASSUME RetainInv, RetainInv', [Next]_vars, Cleared, NEW w \in Workers,
                      pc[w] = "recover", pc'[w] = "create"
               PROVE  mem'[w].vol = pvc.vol
    BY ZenonT(60)
  <2>1. pc \in [Workers -> SwapSteps \cup {"idle", "orphans", "clearStale", "end"}]
    BY ZenonT(60) DEF RetainInv, RecoverInv, TypeOK
  <2>2. RecoverPVCBackup(w)
    <3>1. ASSUME NewAction(w) \/ Step(w) \/ Fail(w) PROVE RecoverPVCBackup(w)
      BY <2>1, <3>1, ZenonT(60) DEF NewAction, Step, Fail, ReturnError, Goto, ListClaims, GetClaim,
         ReadLocalPV, ReadTargetPV, RemoveReservedClaimRef, SavePVCBackup,
         RetainTargetPV, DeletePVC, WaitDeleted, CreatePVC, UpdatePVClaimRef, VerifyPVC,
         ClearPendingPVCSwap, RemovePVClaimRef, SetReservedClaimRef, RestoreTargetPolicy,
         RestoreLocalPolicy, RecoverOrphans, ClearStaleBackup, EndSwap, Refuse
    <3>2. ~Crash
      BY DEF Crash
    <3>3. UNCHANGED pc => FALSE
      OBVIOUS
    <3> QED
      BY <3>1, <3>2, <3>3, ZenonT(60)
      DEF OneWorker, Next, SyncCache, ClaimRemoved, Bind, ForeignBind, vars
  <2>3. UNCHANGED pvc /\ Cleared'
    BY <2>2, ZenonT(60) DEF RecoverPVCBackup, Cleared
  <2>4. mem'[w].vol = job'[w] /\ pvc'.vol = job'[w]
    BY <2>3, ZenonT(60) DEF RetainInv, RecoverInv, StepInv, VolumeStepInv, BeforeDelete, AfterCreate
  <2> QED
    BY <2>3, <2>4
<1> QED
  BY <1>1, RetainInvariant, PTL DEF Spec, CompletedSwapNotReprocessed, Cleared

-----------------------------------------------------------------------------
(* Swaps without mishaps *)

\* What volume p holds.
Holds(p, claims, policy) == pv[p].claim \in claims /\ pv[p].policy = policy

Settled == {"idle", "get", "readLocal", "readTarget", "orphans", "clearStale", "end"}

\* Nothing is under way: the claim is bound, its replica reserved, both as at the start.
Restored ==
  /\ pvc.st = "present"
  /\ Holds(pvc.vol, {"bound"}, orig[pvc.vol])
  /\ Holds(Other(pvc.vol), {"reserved"}, orig[Other(pvc.vol)])
  /\ \A p \in PV : pv[p].backup = NoBackup

\* How far the swap has come, at each step of the reconcile that makes it.
ProgressInv(w) ==
  LET here == job[w]
      there == Other(job[w])
  IN  /\ pc[w] # "recover"
      /\ pc[w] \in Settled => Restored
      /\ pc[w] \in (BeforeDelete \ {"readLocal"}) \cup {"create"} \cup AfterCreate =>
           pol[w].l = orig[here]
      /\ pc[w] \in (BeforeDelete \ {"readLocal", "readTarget"}) \cup {"create"} \cup AfterCreate =>
           pol[w].t = orig[there] /\ pv[there].backup = NoBackup
      /\ pc[w] \in {"unreserve", "save", "retain", "delete"} => pvc.st = "present"
      /\ pc[w] \in {"unreserve", "save"} =>
           Holds(here, {"bound"}, orig[here]) /\ pv[here].backup = NoBackup
      /\ pc[w] = "unreserve" => Holds(there, {"reserved", "none"}, orig[there])
      /\ pc[w] \in {"save", "retain"} => Holds(there, {"none"}, orig[there])
      /\ pc[w] \in {"retain", "delete", "wait"} =>
           Holds(here, {IF pvc.st = "gone" THEN "released" ELSE "bound"}, "Retain")
      /\ pc[w] \in {"delete", "wait", "create"} => Holds(there, {"none"}, "Retain")
      /\ pc[w] \in {"create", "claim", "verify", "clear"} => Holds(here, {"released"}, "Retain")
      /\ pc[w] = "claim" => Holds(there, {"none", "bound"}, "Retain")
      /\ pc[w] \in {"verify", "clear", "release", "reserve", "restoreTarget"} =>
           Holds(there, {"bound"}, "Retain")
      /\ pc[w] = "release" => Holds(here, {"released", "none"}, "Retain")
      /\ pc[w] = "reserve" => Holds(here, {"none"}, "Retain")
      /\ pc[w] \in {"restoreTarget", "restoreLocal"} => Holds(here, {"reserved"}, "Retain")
      /\ pc[w] \in {"release", "reserve", "restoreTarget", "restoreLocal"} =>
           pv[here].backup = NoBackup
      /\ pc[w] = "restoreLocal" => Holds(there, {"bound"}, orig[there])

\* For a controller without reconciles there is only what holds when all are idle.
CleanInv ==
  past = {} => /\ \A w \in Workers : ProgressInv(w)
               /\ Workers = {} => Restored

-----------------------------------------------------------------------------
\* One more mishap is some mishap.
LEMMA MishapHappened == \A m : Mishap(m) # {}
BY DEF Mishap

\* The steps keep CleanInv; every failure, crash or foreign claim is a mishap.
LEMMA CleanStep ==
  ASSUME OneWorker, RecoverInv, CleanInv, RecoverInv', [Next]_vars
  PROVE  CleanInv'
<1> SUFFICES ASSUME past' = {}
             PROVE  (\A w \in Workers : ProgressInv(w)') /\ (Workers = {} => Restored')
  BY DEF CleanInv
<1>m. \A m : past' # Mishap(m)
  BY MishapHappened, ZenonT(60)
<1>p. UNCHANGED past
  BY <1>m, MishapsKept, ZenonT(60)
<1>0. /\ TypeOK /\ ClaimInv
      /\ \A w \in Workers : StepInv(w) /\ StepInv(w)' /\ ProgressInv(w)
      /\ Workers = {} => Restored
  BY <1>p DEF CleanInv, RecoverInv
<1>t. /\ pvc.vol \in PV /\ Other(pvc.vol) \in PV /\ Other(pvc.vol) # pvc.vol
      /\ \A p \in PV : p = pvc.vol \/ p = Other(pvc.vol)
      /\ pv \in [PV -> PVObject] /\ pv' \in [PV -> PVObject]
      /\ pvc.st \in {"present", "terminating", "gone"} /\ pvc \in PVCObject
  BY <1>0, OtherFacts, ZenonT(60) DEF RecoverInv, TypeOK, PVCObject
<1>1. ASSUME NEW w \in Workers, NewAction(w) \/ Step(w) \/ Fail(w)
      PROVE  (\A u \in Workers : ProgressInv(u)') /\ Workers # {}
  <2> SUFFICES ProgressInv(w)'
    BY DEF OneWorker
  <2>0. /\ StepInv(w) /\ StepInv(w)' /\ ProgressInv(w)
        /\ job[w] \in PV \cup {0} /\ pol \in [Workers -> [l : Policies, t : Policies]]
    BY <1>0, ZenonT(60) DEF TypeOK
  <2>g. \A s : Goto(w, s) => pc'[w] = s
    BY <1>0, ZenonT(60) DEF TypeOK, Goto
  <2>p. job[w] # 0 => /\ job[w] \in PV /\ Other(job[w]) \in PV /\ Other(job[w]) # job[w]
                      /\ Other(Other(job[w])) = job[w]
                      /\ \A r \in PV : r = job[w] \/ r = Other(job[w])
    BY <2>0, OtherFacts, ZenonT(60)
  <2>1. CASE NewAction(w)
    <3>0. /\ UNCHANGED <<pvc, pv, orig>> /\ pc[w] \in {"idle"} /\ pc'[w] \in {"idle"}
      BY <2>1, <2>g, ZenonT(60) DEF NewAction
    <3>1. Restored
      BY <3>0, <2>0, ZenonT(60) DEF ProgressInv, Settled
    <3>2. Restored'
      BY <3>0, <3>1, ZenonT(60) DEF Restored, Holds
    <3> QED
      BY <3>0, <3>2, ZenonT(60) DEF ProgressInv, Settled, BeforeDelete, AfterCreate
  <2>2. CASE ListClaims(w)
    <3>0. /\ UNCHANGED <<pvc, pv, orig>> /\ pc[w] \in {"idle"} /\ pc'[w] \in {"get", "orphans"}
      BY <2>2, <2>g, ZenonT(60) DEF ListClaims
    <3>1. Restored
      BY <3>0, <2>0, ZenonT(60) DEF ProgressInv, Settled
    <3>2. Restored'
      BY <3>0, <3>1, ZenonT(60) DEF Restored, Holds
    <3> QED
      BY <3>0, <3>2, ZenonT(60) DEF ProgressInv, Settled, BeforeDelete, AfterCreate
  <2>3. CASE GetClaim(w)
    <3>a. pc[w] = "get" /\ UNCHANGED <<pvc, pv, orig>>
      BY <2>3, ZenonT(60) DEF GetClaim
    <3>1. Restored
      BY <3>a, <2>0, ZenonT(60) DEF ProgressInv, Settled
    <3>0. pc'[w] \in {"readLocal", "orphans"}
      BY <2>3, <3>1, <2>g, ZenonT(60) DEF GetClaim, Restored
    <3>2. Restored'
      BY <3>a, <3>1, ZenonT(60) DEF Restored, Holds
    <3> QED
      BY <3>0, <3>2, ZenonT(60) DEF ProgressInv, Settled, BeforeDelete, AfterCreate
  <2>4. CASE RecoverPVCBackup(w)
    BY <2>4, <2>0, ZenonT(60) DEF RecoverPVCBackup, ProgressInv
  <2>5. CASE ReadLocalPV(w)
    <3>a. /\ pc[w] = "readLocal" /\ UNCHANGED <<orig, job, mem, tgt, pvc, pv>> /\ job[w] # 0
          /\ tgt[w] = Other(job[w]) /\ mem[w].vol = job[w] /\ mem[w].rem = Other(job[w])
          /\ pvc.vol = job[w]
      BY <2>5, <2>0 DEF ReadLocalPV, local, StepInv, SwapSteps, BeforeDelete, AfterCreate
    <3>1. Restored
      BY <3>a, <2>0, ZenonT(60) DEF ProgressInv, Settled
    <3>0. pc'[w] = "readTarget" /\ pol'[w].l = orig[job[w]]
      BY <2>5, <3>a, <3>1, <2>0, <2>g DEF ReadLocalPV, Restored, Holds
    <3>2. Restored'
      BY <3>a, <3>1, ZenonT(60) DEF Restored, Holds
    <3> QED
      BY <3>a, <3>0, <3>2, ZenonT(60) DEF ProgressInv, Settled, BeforeDelete, AfterCreate
  <2>6. CASE ReadTargetPV(w)
    <3>a. /\ pc[w] = "readTarget" /\ UNCHANGED <<orig, job, mem, tgt, pvc>> /\ job[w] # 0
          /\ tgt[w] = Other(job[w]) /\ mem[w].vol = job[w] /\ mem[w].rem = Other(job[w])
          /\ pvc.vol = job[w]
      BY <2>6, <2>0, ZenonT(60) DEF ReadTargetPV, local, StepInv, SwapSteps, BeforeDelete, AfterCreate
    <3>b. Restored /\ pol[w].l = orig[job[w]]
      BY <3>a, <2>0, ZenonT(60) DEF ProgressInv, Settled, BeforeDelete
    <3>c. /\ pvc.st = "present" /\ Holds(job[w], {"bound"}, orig[job[w]])
          /\ Holds(Other(job[w]), {"reserved"}, orig[Other(job[w])])
          /\ pv[job[w]].backup = NoBackup /\ pv[Other(job[w])].backup = NoBackup
      BY <3>a, <3>b, <2>p, ZenonT(60) DEF Restored
    <3>0. /\ pc'[w] = "unreserve" /\ UNCHANGED pv
          /\ pol'[w].l = orig[job[w]] /\ pol'[w].t = orig[Other(job[w])]
      BY <2>6, <3>a, <3>b, <3>c, <2>0, <2>g, ZenonT(60) DEF ReadTargetPV, Holds
    <3> QED
      BY <3>0, <3>a, <3>c, ZenonT(60) DEF ProgressInv, Holds, Settled, BeforeDelete, AfterCreate
  <2>7. CASE RemoveReservedClaimRef(w)
    <3>a. /\ pc[w] = "unreserve" /\ UNCHANGED <<orig, job, mem, tgt, pol>> /\ job[w] # 0
          /\ tgt[w] = Other(job[w]) /\ mem[w].vol = job[w] /\ mem[w].rem = Other(job[w])
          /\ pvc.vol = job[w]
      BY <2>7, <2>0, ZenonT(60)
         DEF RemoveReservedClaimRef, local, StepInv, SwapSteps, BeforeDelete, AfterCreate
    <3>b. pol[w].l = orig[job[w]] /\ pol[w].t = orig[Other(job[w])]
          /\ pvc.st = "present" /\ Holds(job[w], {"bound"}, orig[job[w]])
          /\ Holds(Other(job[w]), {"reserved", "none"}, orig[Other(job[w])])
          /\ pv[job[w]].backup = NoBackup /\ pv[Other(job[w])].backup = NoBackup
      BY <3>a, <2>0, ZenonT(60) DEF ProgressInv, Holds, Settled, BeforeDelete, AfterCreate
    <3>0. /\ UNCHANGED pvc /\ pc'[w] \in {"unreserve", "save"}
          /\ pv'[job[w]] = pv[job[w]] /\ pv'[Other(job[w])].claim = "none"
          /\ pv'[Other(job[w])].policy = pv[Other(job[w])].policy
          /\ pv'[Other(job[w])].backup = pv[Other(job[w])].backup
      BY <2>7, <3>a, <1>t, <2>g, <2>p DEF RemoveReservedClaimRef, SetPV, PVObject
    <3> QED
      BY <3>0, <3>a, <3>b, <2>p, ZenonT(60) DEF ProgressInv, Holds, Settled, BeforeDelete, AfterCreate
  <2>8. CASE SavePVCBackup(w)
    <3>a. /\ pc[w] = "save" /\ UNCHANGED <<orig, job, mem, tgt, pol>> /\ job[w] # 0
          /\ tgt[w] = Other(job[w]) /\ mem[w].vol = job[w] /\ mem[w].rem = Other(job[w])
          /\ pvc.vol = job[w]
      BY <2>8, <2>0, ZenonT(60)
         DEF SavePVCBackup, local, StepInv, SwapSteps, BeforeDelete, AfterCreate
    <3>b. pol[w].l = orig[job[w]] /\ pol[w].t = orig[Other(job[w])]
          /\ pvc.st = "present" /\ Holds(job[w], {"bound"}, orig[job[w]])
          /\ Holds(Other(job[w]), {"none"}, orig[Other(job[w])])
          /\ pv[Other(job[w])].backup = NoBackup
      BY <3>a, <2>0, ZenonT(60) DEF ProgressInv, Holds, Settled, BeforeDelete, AfterCreate
    <3>0. /\ UNCHANGED pvc /\ pc'[w] = "retain"
          /\ pv'[Other(job[w])] = pv[Other(job[w])]
          /\ pv'[job[w]].claim = pv[job[w]].claim /\ pv'[job[w]].policy = "Retain"
      BY <2>8, <3>a, <1>t, <2>g, <2>p DEF SavePVCBackup, SetPV, PVObject
    <3> QED
      BY <3>0, <3>a, <3>b, <2>p, ZenonT(60) DEF ProgressInv, Holds, Settled, BeforeDelete, AfterCreate
  <2>9. CASE RetainTargetPV(w)
    <3>a. /\ pc[w] = "retain" /\ UNCHANGED <<orig, job, mem, tgt, pol>> /\ job[w] # 0
          /\ tgt[w] = Other(job[w]) /\ mem[w].vol = job[w] /\ mem[w].rem = Other(job[w])
          /\ pvc.vol = job[w]
      BY <2>9, <2>0 DEF RetainTargetPV, local, StepInv, SwapSteps, BeforeDelete, AfterCreate
    <3>b. pol[w].l = orig[job[w]] /\ pol[w].t = orig[Other(job[w])]
          /\ pvc.st = "present" /\ Holds(job[w], {"bound"}, "Retain")
          /\ Holds(Other(job[w]), {"none"}, orig[Other(job[w])])
          /\ pv[Other(job[w])].backup = NoBackup
      BY <3>a, <2>0, ZenonT(60) DEF ProgressInv, Holds, Settled, BeforeDelete, AfterCreate
    <3>0. /\ UNCHANGED pvc /\ pc'[w] = "delete"
          /\ pv'[job[w]] = pv[job[w]] /\ pv'[Other(job[w])].policy = "Retain"
          /\ pv'[Other(job[w])].claim = pv[Other(job[w])].claim
          /\ pv'[Other(job[w])].backup = pv[Other(job[w])].backup
      BY <2>9, <3>a, <1>t, <2>g, <2>p DEF RetainTargetPV, SetPV, PVObject
    <3> QED
      BY <3>0, <3>a, <3>b, <2>p, ZenonT(60) DEF ProgressInv, Holds, Settled, BeforeDelete, AfterCreate
  <2>10. CASE DeletePVC(w)
    <3>a. /\ pc[w] = "delete" /\ UNCHANGED <<orig, job, mem, tgt, pol>> /\ job[w] # 0
          /\ tgt[w] = Other(job[w]) /\ mem[w].vol = job[w] /\ mem[w].rem = Other(job[w])
          /\ pvc.vol = job[w]
      BY <2>10, <2>0 DEF DeletePVC, local, StepInv, SwapSteps, BeforeDelete, AfterCreate
    <3>b. pol[w].l = orig[job[w]] /\ pol[w].t = orig[Other(job[w])]
          /\ pvc.st = "present" /\ Holds(job[w], {"bound"}, "Retain")
          /\ Holds(Other(job[w]), {"none"}, "Retain")
          /\ pv[Other(job[w])].backup = NoBackup
      BY <3>a, <2>0, ZenonT(60) DEF ProgressInv, Holds, Settled, BeforeDelete, AfterCreate
    <3>0. /\ pc'[w] = "wait" /\ UNCHANGED pv /\ pvc'.st # "gone"
      BY <2>10, <3>b, <1>t, <2>g DEF DeletePVC, PVCObject
    <3> QED
      BY <3>0, <3>a, <3>b, <2>p, ZenonT(60) DEF ProgressInv, Holds, Settled, BeforeDelete, AfterCreate
  <2>11. CASE WaitDeleted(w)
    <3>a. /\ pc[w] = "wait" /\ UNCHANGED <<orig, job, mem, tgt, pol>> /\ job[w] # 0
          /\ tgt[w] = Other(job[w]) /\ mem[w].vol = job[w] /\ mem[w].rem = Other(job[w])
          /\ pvc.vol = job[w]
      BY <2>11, <2>0, ZenonT(60) DEF WaitDeleted, local, StepInv, SwapSteps, BeforeDelete, AfterCreate
    <3>b. pol[w].l = orig[job[w]] /\ pol[w].t = orig[Other(job[w])]
          /\ pv[Other(job[w])].backup = NoBackup
          /\ Holds(job[w], {IF pvc.st = "gone" THEN "released" ELSE "bound"}, "Retain")
          /\ Holds(Other(job[w]), {"none"}, "Retain")
      BY <3>a, <2>0, ZenonT(60) DEF ProgressInv, Holds, Settled, BeforeDelete, AfterCreate
    <3>0. pc'[w] = "create" /\ UNCHANGED pv /\ pvc.st = "gone"
      BY <2>11, <2>g, ZenonT(60) DEF WaitDeleted
    <3> QED
      BY <3>0, <3>a, <3>b, <2>p, ZenonT(60) DEF ProgressInv, Holds, Settled, BeforeDelete, AfterCreate
  <2>12. CASE CreatePVC(w)
    <3>a. /\ pc[w] = "create" /\ UNCHANGED <<orig, job, mem, tgt, pol>> /\ job[w] # 0
          /\ tgt[w] = Other(job[w]) /\ mem[w].vol = job[w] /\ mem[w].rem = Other(job[w])
          /\ pvc.st = "gone"
      BY <2>12, <2>0, ZenonT(60) DEF CreatePVC, local, StepInv, SwapSteps, BeforeDelete, AfterCreate
    <3>b. pol[w].l = orig[job[w]] /\ pol[w].t = orig[Other(job[w])]
          /\ pv[Other(job[w])].backup = NoBackup
          /\ Holds(job[w], {"released"}, "Retain") /\ Holds(Other(job[w]), {"none"}, "Retain")
      BY <3>a, <2>0, ZenonT(60) DEF ProgressInv, Holds, Settled, BeforeDelete, AfterCreate
    <3>0. pc'[w] = "claim" /\ UNCHANGED pv
      BY <2>12, <2>g, ZenonT(60) DEF CreatePVC
    <3> QED
      BY <3>0, <3>a, <3>b, <2>p, ZenonT(60) DEF ProgressInv, Holds, Settled, BeforeDelete, AfterCreate
  <2>13. CASE UpdatePVClaimRef(w)
    <3>a. /\ pc[w] = "claim" /\ UNCHANGED <<orig, job, mem, tgt, pol>> /\ job[w] # 0
          /\ tgt[w] = Other(job[w]) /\ mem[w].vol = job[w] /\ mem[w].rem = Other(job[w])
          /\ pvc.st = "present" /\ pvc.vol = Other(job[w])
      BY <2>13, <2>0, ZenonT(60)
         DEF UpdatePVClaimRef, local, StepInv, SwapSteps, BeforeDelete, AfterCreate
    <3>b. pol[w].l = orig[job[w]] /\ pol[w].t = orig[Other(job[w])]
          /\ pv[Other(job[w])].backup = NoBackup
          /\ Holds(job[w], {"released"}, "Retain")
          /\ Holds(Other(job[w]), {"none", "bound"}, "Retain")
      BY <3>a, <2>0, ZenonT(60) DEF ProgressInv, Holds, Settled, BeforeDelete, AfterCreate
    <3>0. /\ pc'[w] = "verify" /\ pv'[job[w]] = pv[job[w]]
          /\ pv'[Other(job[w])].policy = pv[Other(job[w])].policy
          /\ pv'[Other(job[w])].backup = pv[Other(job[w])].backup
          /\ pv'[Other(job[w])].claim = "bound"
      BY <2>13, <3>a, <3>b, <1>t, <2>g, <2>p DEF UpdatePVClaimRef, SetPV, PVObject, Holds
    <3> QED
      BY <3>0, <3>a, <3>b, <2>p, ZenonT(60) DEF ProgressInv, Holds, Settled, BeforeDelete, AfterCreate
  <2>14. CASE VerifyPVC(w)
    <3>a. /\ pc[w] = "verify" /\ UNCHANGED <<orig, job, mem, tgt, pol>> /\ job[w] # 0
          /\ tgt[w] = Other(job[w]) /\ mem[w].vol = job[w] /\ mem[w].rem = Other(job[w])
          /\ pvc.st = "present" /\ pvc.vol = Other(job[w])
      BY <2>14, <2>0, ZenonT(60) DEF VerifyPVC, local, StepInv, SwapSteps, BeforeDelete, AfterCreate
    <3>b. pol[w].l = orig[job[w]] /\ pol[w].t = orig[Other(job[w])]
          /\ pv[Other(job[w])].backup = NoBackup
          /\ Holds(job[w], {"released"}, "Retain") /\ Holds(Other(job[w]), {"bound"}, "Retain")
      BY <3>a, <2>0, ZenonT(60) DEF ProgressInv, Holds, Settled, BeforeDelete, AfterCreate
    <3>0. pc'[w] = "clear" /\ UNCHANGED pv
      BY <2>14, <2>g, ZenonT(60) DEF VerifyPVC
    <3> QED
      BY <3>0, <3>a, <3>b, <2>p, ZenonT(60) DEF ProgressInv, Holds, Settled, BeforeDelete, AfterCreate
  <2>15. CASE ClearPendingPVCSwap(w)
    <3>a. /\ pc[w] = "clear" /\ UNCHANGED <<orig, job, mem, tgt, pol>> /\ job[w] # 0
          /\ tgt[w] = Other(job[w]) /\ mem[w].vol = job[w] /\ mem[w].rem = Other(job[w])
          /\ pvc.st = "present" /\ pvc.vol = Other(job[w])
      BY <2>15, <2>0 DEF ClearPendingPVCSwap, local, StepInv, SwapSteps, BeforeDelete, AfterCreate
    <3>b. pol[w].l = orig[job[w]] /\ pol[w].t = orig[Other(job[w])]
          /\ pv[Other(job[w])].backup = NoBackup
          /\ Holds(job[w], {"released"}, "Retain") /\ Holds(Other(job[w]), {"bound"}, "Retain")
      BY <3>a, <2>0, ZenonT(60) DEF ProgressInv, Holds, Settled, BeforeDelete, AfterCreate
    <3>0. /\ pc'[w] = "release"
          /\ pv'[Other(job[w])] = pv[Other(job[w])] /\ pv'[job[w]].backup = NoBackup
          /\ pv'[job[w]].policy = pv[job[w]].policy /\ pv'[job[w]].claim = pv[job[w]].claim
      BY <2>15, <3>a, <1>t, <1>m, <2>g, <2>p DEF ClearPendingPVCSwap, SetPV, PVObject
    <3> QED
      BY <3>0, <3>a, <3>b, <2>p, ZenonT(60) DEF ProgressInv, Holds, Settled, BeforeDelete, AfterCreate
  <2>16. CASE RemovePVClaimRef(w)
    <3>a. /\ pc[w] = "release" /\ UNCHANGED <<orig, job, mem, tgt, pol>> /\ job[w] # 0
          /\ tgt[w] = Other(job[w]) /\ mem[w].vol = job[w] /\ mem[w].rem = Other(job[w])
          /\ pvc.st = "present" /\ pvc.vol = Other(job[w])
      BY <2>16, <2>0, ZenonT(60)
         DEF RemovePVClaimRef, local, StepInv, SwapSteps, BeforeDelete, AfterCreate
    <3>b. pol[w].l = orig[job[w]] /\ pol[w].t = orig[Other(job[w])]
          /\ pv[Other(job[w])].backup = NoBackup /\ pv[job[w]].backup = NoBackup
          /\ Holds(job[w], {"released", "none"}, "Retain")
          /\ Holds(Other(job[w]), {"bound"}, "Retain")
      BY <3>a, <2>0, ZenonT(60) DEF ProgressInv, Holds, Settled, BeforeDelete, AfterCreate
    <3>0. /\ pc'[w] \in {"release", "reserve"}
          /\ pv'[Other(job[w])] = pv[Other(job[w])] /\ pv'[job[w]].claim = "none"
          /\ pv'[job[w]].policy = pv[job[w]].policy /\ pv'[job[w]].backup = pv[job[w]].backup
      BY <2>16, <3>a, <1>t, <2>g, <2>p DEF RemovePVClaimRef, SetPV, PVObject
    <3> QED
      BY <3>0, <3>a, <3>b, <2>p, ZenonT(60) DEF ProgressInv, Holds, Settled, BeforeDelete, AfterCreate
  <2>17. CASE SetReservedClaimRef(w)
    <3>a. /\ pc[w] = "reserve" /\ UNCHANGED <<orig, job, mem, tgt, pol>> /\ job[w] # 0
          /\ tgt[w] = Other(job[w]) /\ mem[w].vol = job[w] /\ mem[w].rem = Other(job[w])
          /\ pvc.st = "present" /\ pvc.vol = Other(job[w])
      BY <2>17, <2>0, ZenonT(60)
         DEF SetReservedClaimRef, local, StepInv, SwapSteps, BeforeDelete, AfterCreate
    <3>b. pol[w].l = orig[job[w]] /\ pol[w].t = orig[Other(job[w])]
          /\ pv[Other(job[w])].backup = NoBackup
          /\ Holds(job[w], {"none"}, "Retain") /\ Holds(Other(job[w]), {"bound"}, "Retain")
      BY <3>a, <2>0, ZenonT(60) DEF ProgressInv, Holds, Settled, BeforeDelete, AfterCreate
    <3>0. /\ pc'[w] = "restoreTarget"
          /\ pv'[Other(job[w])] = pv[Other(job[w])] /\ pv'[job[w]].claim = "reserved"
          /\ pv'[job[w]].backup = NoBackup /\ pv'[job[w]].policy = pv[job[w]].policy
      BY <2>17, <3>a, <1>t, <2>g, <2>p DEF SetReservedClaimRef, SetPV, PVObject
    <3> QED
      BY <3>0, <3>a, <3>b, <2>p, ZenonT(60) DEF ProgressInv, Holds, Settled, BeforeDelete, AfterCreate
  <2>18. CASE RestoreTargetPolicy(w)
    <3>a. /\ pc[w] = "restoreTarget" /\ UNCHANGED <<orig, job, mem, tgt, pol>> /\ job[w] # 0
          /\ tgt[w] = Other(job[w]) /\ mem[w].vol = job[w] /\ mem[w].rem = Other(job[w])
          /\ pvc.st = "present" /\ pvc.vol = Other(job[w])
      BY <2>18, <2>0 DEF RestoreTargetPolicy, local, StepInv, SwapSteps, BeforeDelete, AfterCreate
    <3>b. pol[w].l = orig[job[w]] /\ pol[w].t = orig[Other(job[w])]
          /\ pv[Other(job[w])].backup = NoBackup /\ pv[job[w]].backup = NoBackup
          /\ Holds(job[w], {"reserved"}, "Retain") /\ Holds(Other(job[w]), {"bound"}, "Retain")
      BY <3>a, <2>0, ZenonT(60) DEF ProgressInv, Holds, Settled, BeforeDelete, AfterCreate
    <3>0. /\ pc'[w] = "restoreLocal" /\ pv'[job[w]] = pv[job[w]]
          /\ pv'[Other(job[w])].policy = pol[w].t
          /\ pv'[Other(job[w])].claim = pv[Other(job[w])].claim
          /\ pv'[Other(job[w])].backup = pv[Other(job[w])].backup
      BY <2>18, <3>a, <1>t, <2>g, <2>p DEF RestoreTargetPolicy, SetPV, PVObject
    <3> QED
      BY <3>0, <3>a, <3>b, <2>p, ZenonT(60) DEF ProgressInv, Holds, Settled, BeforeDelete, AfterCreate
  <2>19. CASE RestoreLocalPolicy(w)
    <3>a. /\ pc[w] = "restoreLocal" /\ UNCHANGED <<orig, job, mem, tgt, pol>> /\ job[w] # 0
          /\ tgt[w] = Other(job[w]) /\ mem[w].vol = job[w] /\ mem[w].rem = Other(job[w])
          /\ pvc.st = "present" /\ pvc.vol = Other(job[w])
      BY <2>19, <2>0, ZenonT(60)
         DEF RestoreLocalPolicy, local, StepInv, SwapSteps, BeforeDelete, AfterCreate
    <3>b. pol[w].l = orig[job[w]] /\ pol[w].t = orig[Other(job[w])]
          /\ pv[Other(job[w])].backup = NoBackup /\ pv[job[w]].backup = NoBackup
          /\ Holds(job[w], {"reserved"}, "Retain")
          /\ Holds(Other(job[w]), {"bound"}, orig[Other(job[w])])
      BY <3>a, <2>0, ZenonT(60) DEF ProgressInv, Holds, Settled, BeforeDelete, AfterCreate
    <3>0. /\ pc'[w] = "orphans" /\ UNCHANGED pvc
          /\ pv'[Other(job[w])] = pv[Other(job[w])] /\ pv'[job[w]].policy = pol[w].l
          /\ pv'[job[w]].claim = pv[job[w]].claim /\ pv'[job[w]].backup = pv[job[w]].backup
      BY <2>19, <3>a, <1>t, <2>g, <2>p DEF RestoreLocalPolicy, SetPV, PVObject
    <3>1. Restored'
      BY <3>0, <3>a, <3>b, <2>p, ZenonT(60) DEF Restored, Holds
    <3> QED
      BY <3>0, <3>1, ZenonT(60) DEF ProgressInv, Settled, BeforeDelete, AfterCreate
  <2>20. CASE RecoverOrphans(w)
    <3>0. /\ UNCHANGED <<pvc, pv, orig>> /\ pc[w] \in {"orphans"}
          /\ pc'[w] \in {"end", "clearStale", "get"}
      BY <2>20, <2>g, ZenonT(60) DEF RecoverOrphans
    <3>1. Restored
      BY <3>0, <2>0, ZenonT(60) DEF ProgressInv, Settled
    <3>2. Restored'
      BY <3>0, <3>1, ZenonT(60) DEF Restored, Holds
    <3> QED
      BY <3>0, <3>2, ZenonT(60) DEF ProgressInv, Settled, BeforeDelete, AfterCreate
  <2>21. CASE ClearStaleBackup(w)
    <3>a. pc[w] = "clearStale" /\ job[w] # 0 /\ UNCHANGED <<pvc, orig>>
      BY <2>21, <2>0 DEF ClearStaleBackup, StepInv
    <3>b. Restored
      BY <3>a, <2>0, ZenonT(60) DEF ProgressInv, Settled
    <3>0. /\ pc'[w] = "end"
          /\ \A p \in PV : /\ pv'[p].claim = pv[p].claim /\ pv'[p].policy = pv[p].policy
                           /\ pv'[p].backup \in {pv[p].backup, NoBackup}
      BY <2>21, <3>a, <1>t, <1>m, <2>g, <2>p DEF ClearStaleBackup, SetPV, PVObject
    <3>1. Restored'
      BY <3>0, <3>a, <3>b, <1>t, ZenonT(60) DEF Restored, Holds
    <3> QED
      BY <3>0, <3>1, ZenonT(60) DEF ProgressInv, Settled, BeforeDelete, AfterCreate
  <2>22. CASE EndSwap(w)
    <3>0. /\ UNCHANGED <<pvc, pv, orig>> /\ pc[w] \in {"end"} /\ pc'[w] \in {"idle"}
      BY <2>22, <2>g, ZenonT(60) DEF EndSwap
    <3>1. Restored
      BY <3>0, <2>0, ZenonT(60) DEF ProgressInv, Settled
    <3>2. Restored'
      BY <3>0, <3>1, ZenonT(60) DEF Restored, Holds
    <3> QED
      BY <3>0, <3>2, ZenonT(60) DEF ProgressInv, Settled, BeforeDelete, AfterCreate
  <2>23. CASE Refuse(w) \/ Fail(w)
    BY <2>23, <1>m, ZenonT(60) DEF Refuse, Fail, ReturnError
  <2> QED
    BY <1>1, <2>1, <2>2, <2>3, <2>4, <2>5, <2>6, <2>7, <2>8, <2>9, <2>10, <2>11, <2>12,
       <2>13, <2>14, <2>15, <2>16, <2>17, <2>18, <2>19, <2>20, <2>21, <2>22, <2>23, ZenonT(60)
       DEF Step
<1>2. CASE Crash \/ \E p \in PV : ForeignBind(p)
  BY <1>2, <1>m, ZenonT(60) DEF Crash, ForeignBind
<1>3. CASE SyncCache \/ UNCHANGED vars
  <2>0. UNCHANGED <<pvc, pv, orig, pc, job, pol>>
    BY <1>3, ZenonT(60) DEF SyncCache, vars, local
  <2>h. \A p, claims, policy : Holds(p, claims, policy) => Holds(p, claims, policy)'
    BY <2>0 DEF Holds
  <2>1. Restored => Restored'
    BY <2>0, <2>h, ZenonT(60) DEF Restored
  <2>2. ASSUME NEW w \in Workers PROVE ProgressInv(w)'
    <3>1. ProgressInv(w)
      BY <1>0
    <3>2. \/ pc[w] \in Settled \/ pc[w] \in BeforeDelete
          \/ pc[w] \in {"create", "recover"} \cup AfterCreate
      BY <1>0, ZenonT(60) DEF TypeOK, SwapSteps, Settled, BeforeDelete, AfterCreate
    <3>3. CASE pc[w] \in Settled
      BY <2>0, <2>1, <3>1, <3>3, ZenonT(60) DEF ProgressInv, Settled, BeforeDelete, AfterCreate
    <3>4. CASE pc[w] \in BeforeDelete
      BY <2>0, <2>1, <2>h, <3>1, <3>4, ZenonT(60) DEF ProgressInv, Settled, BeforeDelete, AfterCreate
    <3>5. CASE pc[w] \in {"create", "recover"} \cup AfterCreate
      BY <2>0, <2>1, <2>h, <3>1, <3>5, ZenonT(60) DEF ProgressInv, Settled, BeforeDelete, AfterCreate
    <3> QED
      BY <3>2, <3>3, <3>4, <3>5
  <2> QED
    BY <1>0, <2>1, <2>2
<1>4. CASE ClaimRemoved
  <2>0. /\ pvc'.st = "gone" /\ pvc'.vol = pvc.vol /\ pvc.st = "terminating"
        /\ UNCHANGED <<pc, job, orig, pol>>
        /\ \A p \in PV : /\ pv'[p].policy = pv[p].policy /\ pv'[p].backup = pv[p].backup
                         /\ pv'[p].claim = IF pv[p].claim = "bound" THEN "released"
                                                                  ELSE pv[p].claim
    BY <1>4, <1>t DEF ClaimRemoved, PVCObject, PVObject, local
  <2>1. ASSUME NEW w \in Workers PROVE ProgressInv(w)'
    <3>1. /\ StepInv(w) /\ ProgressInv(w)
          /\ pc[w] \in SwapSteps \cup {"idle", "orphans", "clearStale", "end"}
          /\ job[w] = 0 \/ job[w] \in PV
      BY <1>0, ZenonT(60) DEF TypeOK
    <3>2. pc[w] = "wait"
      <4>1. pc[w] \notin Settled \cup {"recover"}
        BY <2>0, <3>1, ZenonT(60) DEF ProgressInv, Restored
      <4>2. pc[w] \notin AfterCreate \cup {"create"}
        BY <2>0, <3>1, ZenonT(60) DEF StepInv
      <4>3. pc[w] \notin {"unreserve", "save", "retain", "delete"}
        BY <2>0, <3>1, ZenonT(60) DEF ProgressInv
      <4> QED
        BY <3>1, <4>1, <4>2, <4>3, ZenonT(60) DEF SwapSteps, Settled, AfterCreate
    <3>3. job[w] \in PV /\ Other(job[w]) \in PV
      BY <3>1, <3>2, OtherFacts, ZenonT(60) DEF StepInv
    <3>4. /\ pol[w].l = orig[job[w]] /\ pol[w].t = orig[Other(job[w])]
          /\ pv[Other(job[w])].backup = NoBackup
          /\ Holds(job[w], {"bound"}, "Retain") /\ Holds(Other(job[w]), {"none"}, "Retain")
      BY <3>1, <3>2, <2>0, ZenonT(60) DEF ProgressInv, BeforeDelete
    <3> QED
      BY <2>0, <3>2, <3>3, <3>4, ZenonT(60) DEF ProgressInv, Holds, Settled, BeforeDelete, AfterCreate
  <2>2. Workers # {}
    BY <1>0, <2>0, ZenonT(60) DEF Restored
  <2> QED
    BY <2>1, <2>2
<1>5. CASE Bind
  <2>0. /\ UNCHANGED <<pvc, pc, job, orig, pol>> /\ pvc.st = "present"
        /\ pv[pvc.vol].claim = "none" /\ pv'[pvc.vol].claim = "bound"
        /\ pv'[pvc.vol].policy = pv[pvc.vol].policy /\ pv'[pvc.vol].backup = pv[pvc.vol].backup
        /\ pv'[Other(pvc.vol)] = pv[Other(pvc.vol)]
    BY <1>5, <1>t DEF Bind, SetPV, PVObject, local
  <2>r. ~Restored
    BY <2>0, ZenonT(60) DEF Restored, Holds
  <2>1. ASSUME NEW w \in Workers PROVE ProgressInv(w)'
    <3>1. /\ StepInv(w) /\ ProgressInv(w)
          /\ pc[w] \in SwapSteps \cup {"idle", "orphans", "clearStale", "end"}
          /\ job[w] = 0 \/ job[w] \in PV
      BY <1>0 DEF TypeOK
    <3>2. pc[w] = "claim"
      <4>1. pc[w] \notin Settled \cup {"recover"}
        BY <2>r, <3>1, ZenonT(60) DEF ProgressInv
      <4>2. pc[w] \notin BeforeDelete
        BY <2>0, <3>1, <4>1, ZenonT(60) DEF StepInv, ProgressInv, Holds, BeforeDelete, Settled
      <4>3. pc[w] # "create"
        BY <2>0, <3>1, ZenonT(60) DEF StepInv
      <4>4. pc[w] \in AfterCreate => pc[w] = "claim"
        BY <2>0, <3>1, ZenonT(60) DEF StepInv, ProgressInv, Holds, AfterCreate
      <4> QED
        BY <3>1, <4>1, <4>2, <4>3, <4>4, ZenonT(60) DEF SwapSteps, Settled, BeforeDelete, AfterCreate
    <3>3. /\ job[w] \in PV /\ pvc.vol = Other(job[w]) /\ Other(pvc.vol) = job[w]
      BY <3>1, <3>2, OtherFacts, ZenonT(60) DEF StepInv, AfterCreate
    <3>4. /\ pol[w].l = orig[job[w]] /\ pol[w].t = orig[Other(job[w])]
          /\ pv[Other(job[w])].backup = NoBackup
          /\ Holds(job[w], {"released"}, "Retain")
          /\ Holds(Other(job[w]), {"none", "bound"}, "Retain")
      BY <3>1, <3>2, ZenonT(60) DEF ProgressInv, AfterCreate
    <3> QED
      BY <2>0, <3>2, <3>3, <3>4, ZenonT(60) DEF ProgressInv, Holds, Settled, BeforeDelete, AfterCreate
  <2> QED
    BY <1>0, <2>r, <2>1
<1> QED
  BY <1>0, <1>1, <1>2, <1>3, <1>4, <1>5, ZenonT(60) DEF Next

\* A swap that meets no failure, crash or foreign claim puts everything back, as long as
\* one reconcile swaps the claim at a time: whenever no swap is under way the claim is
\* bound, its replica reserved, both policies are the original ones and no backup is left.
THEOREM Restores ==
  ASSUME OneWorker, LookupErrors = FALSE
  PROVE  Spec => []CleanSwapRestores
<1>1. Init => CleanInv
  <2> SUFFICES ASSUME Init PROVE Restored /\ \A w \in Workers : pc[w] = "idle"
    BY ZenonT(60) DEF CleanInv, ProgressInv, Settled, BeforeDelete, AfterCreate
  <2> QED
    BY SMTT(60) DEF Init, Restored, Holds, PV, Other
<1>2. RecoverInv /\ CleanInv /\ RecoverInv' /\ [Next]_vars => CleanInv'
  BY CleanStep, ZenonT(60)
<1>3. RecoverInv /\ CleanInv => CleanSwapRestores
  <2> SUFFICES ASSUME RecoverInv, CleanInv, past = {}, \A w \in Workers : pc[w] = "idle",
                      NEW p \in PV
               PROVE  pv[p] = [claim  |-> IF p = pvc.vol THEN "bound" ELSE "reserved",
                               policy |-> orig[p],
                               backup |-> NoBackup]
    BY ZenonT(60) DEF CleanSwapRestores
  <2>1. Restored
    BY ZenonT(60) DEF CleanInv, ProgressInv, Settled
  <2>2. pv[p] \in PVObject /\ pvc.vol \in PV
    BY ZenonT(60) DEF RecoverInv, TypeOK, PVCObject
  <2>3. p = pvc.vol \/ (p # pvc.vol /\ p = Other(pvc.vol))
    BY <2>2, OtherFacts, ZenonT(60)
  <2>4. /\ pv[p].claim = IF p = pvc.vol THEN "bound" ELSE "reserved"
        /\ pv[p].policy = orig[p] /\ pv[p].backup = NoBackup
    BY <2>1, <2>3, ZenonT(60) DEF Restored, Holds
  <2> QED
    BY <2>2, <2>4, ZenonT(60) DEF PVObject
<1> QED
  BY <1>1, <1>2, <1>3, RecoverInvariant, PTL DEF Spec
=============================================================================
