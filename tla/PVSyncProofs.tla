---------------------------- MODULE PVSyncProofs ----------------------------
(***************************************************************************)
(* Proofs about PVSync, for every set of retention policies and whether or *)
(* not the target holds a foreign PV or the claimRefs differ: a backend    *)
(* volume is deleted only on request, before its PV loses the finalizer,   *)
(* and the reconcilers of the two clusters implement PairLifecycle.        *)
(***************************************************************************)
EXTENDS PVSync, TLAPS

\* The two sites are each other's peer.
LEMMA OtherFacts ==
  \A s \in Sites : Other(s) \in Sites /\ Other(s) # s /\ Other(Other(s)) = s
BY DEF Sites, Other

\* The end of a reconcile only takes copies away.
LEMMA KeepFacts ==
  ASSUME NEW f \in [Sites -> SUBSET Clients], Keep(f)
  PROVE  fresh' \in [Sites -> SUBSET Clients] /\ \A s \in Sites : fresh'[s] \subseteq f[s]
BY DEF Keep

\* What a write of the PV at s leaves: the other PV, and of the copies of s that of its client.
LEMMA PutFacts ==
  ASSUME TypeOK, NEW s \in Sites, NEW o \in PV, NEW client, Put(s, o, client)
  PROVE  /\ pv' \in [Sites -> PV] /\ fresh' \in [Sites -> SUBSET Clients]
         /\ pv'[s] = o /\ fresh'[s] \subseteq {client}
         /\ \A t \in Sites : t # s => pv'[t] = pv[t] /\ fresh'[t] \subseteq fresh[t]
<1> DEFINE f == [fresh EXCEPT ![s] = {client} \cap Clients]
<1>1. f \in [Sites -> SUBSET Clients] /\ Keep(f)
  BY DEF TypeOK, Put
<1>2. /\ fresh' \in [Sites -> SUBSET Clients]
      /\ \A t \in Sites : fresh'[t] \subseteq f[t]
  BY <1>1, KeepFacts, ZenonT(60)
<1>3. /\ pv' \in [Sites -> PV] /\ pv'[s] = o
      /\ \A t \in Sites : t # s => pv'[t] = pv[t]
  BY DEF TypeOK, Put
<1>4. f[s] \subseteq {client} /\ \A t \in Sites : t # s => f[t] = fresh[t]
  BY DEF TypeOK
<1> QED
  BY <1>2, <1>3, <1>4

\* A step without a write keeps the PVs and may lose copies.
LEMMA NoWriteFacts ==
  ASSUME TypeOK, NoWrite
  PROVE  /\ pv' \in [Sites -> PV] /\ fresh' \in [Sites -> SUBSET Clients]
         /\ \A t \in Sites : pv'[t] = pv[t] /\ fresh'[t] \subseteq fresh[t]
BY KeepFacts DEF TypeOK, NoWrite

\* A read gives one client a copy.
LEMMA ReadFacts ==
  ASSUME TypeOK, NEW s \in Sites, NEW client \in Clients, Read(s, client)
  PROVE  /\ pv' \in [Sites -> PV] /\ fresh' \in [Sites -> SUBSET Clients]
         /\ fresh'[s] \subseteq fresh[s] \cup {client}
         /\ \A t \in Sites : pv'[t] = pv[t] /\ (t # s => fresh'[t] \subseteq fresh[t])
<1> DEFINE f == [fresh EXCEPT ![s] = @ \cup {client}]
<1>1. f \in [Sites -> SUBSET Clients] /\ Keep(f)
  BY DEF TypeOK, Read
<1>2. f[s] = fresh[s] \cup {client} /\ \A t \in Sites : t # s => f[t] = fresh[t]
  BY DEF TypeOK
<1> QED
  BY <1>1, <1>2, KeepFacts, ZenonT(60) DEF TypeOK, Read

\* An update writes the PV or, on an old copy, does nothing.
LEMMA UpdateFacts ==
  ASSUME TypeOK, NEW s \in Sites, NEW o \in PV, NEW client \in Clients, Update(s, client, o)
  PROVE  /\ pv' \in [Sites -> PV] /\ fresh' \in [Sites -> SUBSET Clients]
         /\ fresh'[s] \subseteq IF client \in fresh[s] THEN {client} ELSE fresh[s]
         /\ pv'[s] = IF client \in fresh[s] THEN o ELSE pv[s]
         /\ \A t \in Sites : t # s => pv'[t] = pv[t] /\ fresh'[t] \subseteq fresh[t]
<1>1. CASE client \in fresh[s]
  BY <1>1, PutFacts, ZenonT(60) DEF Update
<1>2. CASE client \notin fresh[s]
  BY <1>2, NoWriteFacts, ZenonT(60) DEF Update
<1> QED
  BY <1>1, <1>2

\* The values that the reconcilers write are PVs.
LEMMA WrittenPVs ==
  ASSUME NEW c \in PV
  PROVE  /\ \A b \in BOOLEAN : [c EXCEPT !.fin = b] \in PV /\ Replica(b) \in PV
         /\ [c EXCEPT !.del = TRUE] \in PV
         /\ [c EXCEPT !.dreq = TRUE, !.sync = "requested"] \in PV
         /\ [c EXCEPT !.peer = TRUE, !.synced = TRUE] \in PV
         /\ [c EXCEPT !.vol = TRUE] \in PV /\ [c EXCEPT !.prot = TRUE] \in PV
         /\ [c EXCEPT !.rg = TRUE] \in PV /\ [c EXCEPT !.rg = TRUE, !.prot = TRUE] \in PV
         /\ [c EXCEPT !.sync = "complete"] \in PV /\ NoPV \in PV
BY ZenonT(60) DEF PV, Replica, NoPV

\* The step of one replication-controller.
LEMMA CtlFacts ==
  ASSUME TypeOK, NEW s \in Sites, NEW step \in CtlSteps, Ctl(s, step)
  PROVE  /\ ctl' \in [Sites -> [pc : CtlSteps, known : BOOLEAN, rg : BOOLEAN]]
         /\ ctl'[s].pc = step
         /\ \A t \in Sites : t # s => ctl'[t] = ctl[t]
BY ZenonT(60) DEF TypeOK, Ctl, CtlSteps

\* The step of one sidecar; a request it read is only forgotten.
LEMMA SideFacts ==
  ASSUME TypeOK, NEW s \in Sites, NEW step \in SideSteps, Side(s, step)
  PROVE  /\ side' \in [Sites -> [pc : SideSteps, req : BOOLEAN]]
         /\ side'[s].pc = step /\ (side'[s].req => side[s].req)
         /\ \A t \in Sites : t # s => side'[t] = side[t]
BY DEF TypeOK, Side, SideSteps

-----------------------------------------------------------------------------
(* The inductive invariant.                                                  *)

\* The sidecar of s may delete its volume: the user of the peer deleted under "delete".
Requested(s) == policy = "delete" /\ asked[Other(s)]

\* The marks of a deletion on a PV and on the array mean what the readers take them for.
DeletionInv ==
  \A s \in Sites :
    /\ pv[s].del => asked[s] \/ pv[s].dreq
    /\ pv[s].dreq => pv[s].sync # "none"
    /\ pv[s].sync # "none" => Requested(s)
    /\ pv[s].sync = "complete" => array[s] = "deleted"
    /\ array[s] = "deleted" => Requested(s)

\* What a controller read still justifies the call it is about to make: a deletion by
\* name because the user asked or nothing has happened since, an update because its copy
\* is current.
Justified(s) ==
  /\ ctl[s].pc = "lookup" => asked[s]
  /\ ctl[s].pc = "delete" => asked[s] \/ (Present(s) /\ pv[s].dreq /\ ~pv[s].del)
  /\ ctl[s].pc = "addFin" /\ "ctl" \in fresh[s] => ~pv[s].del
  /\ ctl[s].pc \in {"lookup", "removeFin"} /\ "ctl" \in fresh[s] => pv[s].del
  /\ ctl[s].pc = "removeFin" /\ "ctl" \in fresh[s] =>
       /\ pv[s].sync # "requested"
       /\ policy = "delete" /\ pv[s].peer /\ ~pv[s].dreq => ~Held(Other(s))

ReconcileInv == \A s \in Sites : Justified(s)

SidecarInv ==
  \A s \in Sites :
    /\ side[s].pc = "deleteVol" \/ side[s].req => Requested(s)
    /\ side[s].pc = "complete" => array[s] = "deleted"

IInv == TypeOK /\ DeletionInv /\ ReconcileInv /\ SidecarInv

\* The step of VolumeBeforePV, and of PairLifecycle with its stuttering.
VolumeStep ==
  \A s \in Sites : pv[s].fin /\ pv[s].dreq /\ ~pv'[s].fin => array[s] = "deleted"
PairStep == [Pair!Next]_(Pair!vars)
Good == IInv' /\ VolumeStep /\ PairStep

\* The PV at s keeps what the deletions are about.
Same(s) ==
  /\ pv'[s].st = pv[s].st /\ pv'[s].fin = pv[s].fin /\ pv'[s].del = pv[s].del
  /\ pv'[s].dreq = pv[s].dreq /\ pv'[s].peer = pv[s].peer /\ pv'[s].sync = pv[s].sync

\* The pair does not change when its PVs stay the same.
LEMMA PairStutters ==
  ASSUME \A s \in Sites : Same(s), asked' = asked, policy' = policy
  PROVE  PairStep
<1>1. \A s \in Sites : Held(s)' = Held(s)
  BY DEF Same, Held, Present
<1> QED
  BY <1>1 DEF PairStep, Pair!vars, Same

\* A controller goes on to no call that needs a justification, or keeps the one it had.
CtlQuiet(s) ==
  \/ ctl'[s].pc \notin {"lookup", "delete", "addFin", "removeFin"}
  \/ ctl'[s].pc = ctl[s].pc /\ ("ctl" \in fresh'[s] => "ctl" \in fresh[s])

\* Then it stays justified while the PVs stay the same.
LEMMA CtlRests ==
  ASSUME NEW s \in Sites, Justified(s), CtlQuiet(s), \A t \in Sites : Same(t),
         asked' = asked, policy' = policy
  PROVE  Justified(s)'
<1>1. \A t \in Sites : Held(t)' = Held(t) /\ Present(t)' = Present(t)
  BY DEF Same, Held, Present
<1> QED
  BY <1>1, OtherFacts, ZenonT(60) DEF Same, Justified, CtlQuiet

\* What a sidecar goes on to is justified before the step.
SideQuiet(s) ==
  /\ side'[s].pc = "deleteVol" \/ side'[s].req => Requested(s)
  /\ side'[s].pc = "complete" => array[s] = "deleted"

\* A step that keeps the marks and the justifications does no harm.
LEMMA QuietStep ==
  ASSUME IInv, TypeOK', asked' = asked, policy' = policy,
         \A s \in Sites : Same(s) /\ CtlQuiet(s) /\ SideQuiet(s),
         \A s \in Sites : array'[s] = "deleted" <=> array[s] = "deleted"
  PROVE  Good
<1>1. \A s \in Sites : Held(s)' = Held(s) /\ Present(s)' = Present(s)
  BY DEF Same, Held, Present
<1>2. \A s \in Sites : Requested(s)' = Requested(s)
  BY DEF Requested
<1>3. DeletionInv'
  BY <1>2 DEF IInv, DeletionInv, Same
<1>4. ReconcileInv'
  BY CtlRests DEF IInv, ReconcileInv
<1>5. SidecarInv'
  BY <1>2 DEF IInv, SidecarInv, SideQuiet
<1>6. VolumeStep
  BY DEF VolumeStep, Same
<1> QED
  BY <1>3, <1>4, <1>5, <1>6, PairStutters DEF Good, IInv

\* A sidecar that does not move is justified as before.
LEMMA SideRests ==
  ASSUME IInv, NEW s \in Sites, side'[s] = side[s]
  PROVE  SideQuiet(s)
BY DEF IInv, SidecarInv, SideQuiet

-----------------------------------------------------------------------------
(* The steps that no deletion depends on.                                    *)

\* The group of the pair becomes known.
LEMMA LinkGroupsStep == ASSUME IInv, LinkGroups PROVE Good
<1>1. TypeOK'
  BY DEF IInv, TypeOK, LinkGroups, history
<1>2. \A s \in Sites : Same(s) /\ CtlQuiet(s) /\ SideQuiet(s)
  BY SideRests DEF LinkGroups, Same, CtlQuiet
<1> QED
  BY <1>1, <1>2, QuietStep DEF LinkGroups, history

\* A failing reconcile only forgets.
LEMMA ReconcileFailsStep == ASSUME IInv, NEW s \in Sites, ReconcileFails(s) PROVE Good
<1>1. /\ pv' \in [Sites -> PV] /\ fresh' \in [Sites -> SUBSET Clients]
      /\ \A t \in Sites : pv'[t] = pv[t] /\ fresh'[t] \subseteq fresh[t]
  BY NoWriteFacts DEF IInv, ReconcileFails
<1>2. /\ ctl' \in [Sites -> [pc : CtlSteps, known : BOOLEAN, rg : BOOLEAN]]
      /\ ctl'[s].pc = "idle" /\ \A t \in Sites : t # s => ctl'[t] = ctl[t]
  BY CtlFacts DEF IInv, ReconcileFails, CtlSteps
<1>3. TypeOK'
  BY <1>1, <1>2 DEF IInv, TypeOK, ReconcileFails
<1>4. \A t \in Sites : Same(t) /\ CtlQuiet(t) /\ SideQuiet(t)
  BY <1>1, <1>2, SideRests DEF ReconcileFails, Same, CtlQuiet
<1> QED
  BY <1>3, <1>4, QuietStep DEF ReconcileFails

\* So does a failing sidecar.
LEMMA SidecarFailsStep == ASSUME IInv, NEW s \in Sites, SidecarFails(s) PROVE Good
<1>1. /\ pv' \in [Sites -> PV] /\ fresh' \in [Sites -> SUBSET Clients]
      /\ \A t \in Sites : pv'[t] = pv[t] /\ fresh'[t] \subseteq fresh[t]
  BY NoWriteFacts DEF IInv, SidecarFails
<1>2. /\ side' \in [Sites -> [pc : SideSteps, req : BOOLEAN]]
      /\ side'[s].pc = "idle" /\ (side'[s].req => side[s].req)
      /\ \A t \in Sites : t # s => side'[t] = side[t]
  BY SideFacts DEF IInv, SidecarFails, SideSteps
<1>3. TypeOK'
  BY <1>1, <1>2 DEF IInv, TypeOK, SidecarFails
<1>4. \A t \in Sites : Same(t) /\ CtlQuiet(t)
  BY <1>1 DEF SidecarFails, Same, CtlQuiet
<1>5. \A t \in Sites : SideQuiet(t)
  BY <1>2, SideRests DEF IInv, SidecarInv, SideQuiet
<1> QED
  BY <1>3, <1>4, <1>5, QuietStep DEF SidecarFails

\* The peer's claimRef may be copied; the local PV is read again.
LEMMA DetailsStep == ASSUME IInv, NEW s \in Sites, UpdateRemotePVDetails(s) PROVE Good
<1> USE OtherFacts
<1>1. fresh' \in [Sites -> SUBSET Clients]
  <2>1. PICK f \in [Sites -> SUBSET Clients] : Keep(f)
    <3>1. /\ fresh \in [Sites -> SUBSET Clients]
          /\ [fresh EXCEPT ![s] = @ \cup {"ctl"}] \in [Sites -> SUBSET Clients]
          /\ [fresh EXCEPT ![Other(s)] = {"peer"}, ![s] = @ \cup {"ctl"}]
                \in [Sites -> SUBSET Clients]
      BY ZenonT(60) DEF IInv, TypeOK, Clients
    <3> QED
      BY <3>1, ZenonT(60) DEF UpdateRemotePVDetails
  <2> QED
    BY <2>1, KeepFacts
<1>2. /\ ctl' \in [Sites -> [pc : CtlSteps, known : BOOLEAN, rg : BOOLEAN]]
      /\ ctl'[s].pc \in {"remote", "idle"}
      /\ \A t \in Sites : t # s => ctl'[t] = ctl[t]
  BY CtlFacts DEF IInv, UpdateRemotePVDetails, CtlSteps
<1>3. "ctl" \in fresh'[Other(s)] => "ctl" \in fresh[Other(s)]
  BY DEF IInv, TypeOK, UpdateRemotePVDetails, Keep
<1>4. TypeOK'
  BY <1>1, <1>2, ZenonT(60) DEF IInv, TypeOK, UpdateRemotePVDetails
<1>5. \A t \in Sites : t = s \/ t = Other(s)
  BY DEF Sites, Other
<1>6. \A t \in Sites : Same(t) /\ CtlQuiet(t) /\ SideQuiet(t)
  BY <1>2, <1>3, <1>5, SideRests DEF UpdateRemotePVDetails, Same, CtlQuiet
<1> QED
  BY <1>4, <1>6, QuietStep DEF UpdateRemotePVDetails

\* The peer learns its group.
LEMMA ProcessRemoteStep == ASSUME IInv, NEW s \in Sites, ProcessRemotePV(s) PROVE Good
<1> DEFINE o == Other(s)
           c == [pv[o] EXCEPT !.rg = TRUE]
<1> USE OtherFacts
<1>1. c \in PV /\ pv[o] \in PV
  BY WrittenPVs, ZenonT(60) DEF IInv, TypeOK
<1>2. /\ pv' \in [Sites -> PV] /\ fresh' \in [Sites -> SUBSET Clients]
      /\ pv'[o] \in {pv[o], c} /\ ("ctl" \in fresh'[o] => "ctl" \in fresh[o])
      /\ \A t \in Sites : t # o => pv'[t] = pv[t] /\ fresh'[t] \subseteq fresh[t]
  <2>1. CASE NoWrite
    BY <2>1, NoWriteFacts DEF IInv
  <2>2. CASE Update(o, "peer", c)
    BY <2>2, <1>1, UpdateFacts DEF IInv, Clients
  <2> QED
    BY <2>1, <2>2 DEF ProcessRemotePV
<1>3. /\ ctl' \in [Sites -> [pc : CtlSteps, known : BOOLEAN, rg : BOOLEAN]]
      /\ ctl'[s].pc \in {"local", "idle"}
      /\ \A t \in Sites : t # s => ctl'[t] = ctl[t]
  BY CtlFacts DEF IInv, ProcessRemotePV, CtlSteps
<1>4. TypeOK'
  BY <1>2, <1>3 DEF IInv, TypeOK, ProcessRemotePV, history
<1>5. \A t \in Sites : Same(t)
  BY <1>1, <1>2 DEF Same, PV
<1>6. \A t \in Sites : CtlQuiet(t) /\ SideQuiet(t)
  BY <1>2, <1>3, SideRests DEF ProcessRemotePV, CtlQuiet
<1> QED
  BY <1>4, <1>5, <1>6, QuietStep DEF ProcessRemotePV, history

\* A sidecar that reads a requested deletion is justified by the mark.
LEMMA SideReconcileStep == ASSUME IInv, NEW s \in Sites, SideReconcile(s) PROVE Good
<1>1. /\ pv' \in [Sites -> PV] /\ fresh' \in [Sites -> SUBSET Clients]
      /\ \A t \in Sites : pv'[t] = pv[t]
      /\ \A t \in Sites : "ctl" \in fresh'[t] => "ctl" \in fresh[t]
  BY ReadFacts DEF IInv, SideReconcile, Clients
<1>2. /\ SideBranch(s, pv[s]) \in SideSteps \ {"complete"}
      /\ SideBranch(s, pv[s]) = "deleteVol" => pv[s].sync = "requested"
  BY DEF SideBranch, SideSteps
<1>3. /\ side' \in [Sites -> [pc : SideSteps, req : BOOLEAN]]
      /\ side'[s].pc = SideBranch(s, pv[s]) /\ (side'[s].req => pv[s].sync = "requested")
      /\ \A t \in Sites : t # s => side'[t] = side[t]
  BY <1>2, ZenonT(60) DEF IInv, TypeOK, SideReconcile
<1>4. TypeOK'
  BY <1>1, <1>3 DEF IInv, TypeOK, SideReconcile, history
<1>5. \A t \in Sites : Same(t) /\ CtlQuiet(t)
  BY <1>1 DEF SideReconcile, Same, CtlQuiet
<1>6. \A t \in Sites : SideQuiet(t)
  BY <1>2, <1>3, SideRests, ZenonT(60) DEF IInv, DeletionInv, SideQuiet
<1> QED
  BY <1>4, <1>5, <1>6, QuietStep DEF SideReconcile, history

\* The driver creates the remote volume once; one that was deleted stays deleted.
LEMMA CreateVolumeStep == ASSUME IInv, NEW s \in Sites, CreateRemoteVolume(s) PROVE Good
<1> DEFINE c == [pv[s] EXCEPT !.vol = TRUE]
<1>1. c \in PV /\ pv[s] \in PV
  BY WrittenPVs, ZenonT(60) DEF IInv, TypeOK
<1>2. Update(s, "side", c)
  BY DEF CreateRemoteVolume
<1>3. /\ pv' \in [Sites -> PV] /\ fresh' \in [Sites -> SUBSET Clients]
      /\ pv'[s] \in {pv[s], c}
      /\ \A t \in Sites : t # s => pv'[t] = pv[t]
      /\ \A t \in Sites : "ctl" \in fresh'[t] => "ctl" \in fresh[t]
  BY <1>1, <1>2, UpdateFacts DEF IInv, Clients
<1>4. /\ side' \in [Sites -> [pc : SideSteps, req : BOOLEAN]]
      /\ side'[s].pc \in {"reread", "idle"} /\ (side'[s].req => side[s].req)
      /\ \A t \in Sites : t # s => side'[t] = side[t]
  BY SideFacts DEF IInv, CreateRemoteVolume, SideSteps
<1>a. /\ array' \in [Sites -> {"none", "live", "deleted"}]
      /\ \A t \in Sites : array'[t] = "deleted" <=> array[t] = "deleted"
  BY OtherFacts DEF IInv, TypeOK, CreateRemoteVolume
<1>5. TypeOK'
  BY <1>a, <1>3, <1>4 DEF IInv, TypeOK, CreateRemoteVolume, history
<1>6. \A t \in Sites : Same(t) /\ CtlQuiet(t)
  BY <1>1, <1>3 DEF CreateRemoteVolume, Same, CtlQuiet, PV
<1>7. \A t \in Sites : SideQuiet(t)
  BY <1>4, SideRests, ZenonT(60) DEF IInv, SidecarInv, SideQuiet
<1> QED
  BY <1>a, <1>5, <1>6, <1>7, QuietStep DEF CreateRemoteVolume, history

\* The PV may be read again before it gets its group.
LEMMA ProtectionGroupStep == ASSUME IInv, NEW s \in Sites, CreateProtectionGroupAndRG(s) PROVE Good
<1>1. /\ pv' \in [Sites -> PV] /\ fresh' \in [Sites -> SUBSET Clients]
      /\ \A t \in Sites : pv'[t] = pv[t]
      /\ \A t \in Sites : "ctl" \in fresh'[t] => "ctl" \in fresh[t]
  <2>1. CASE NoWrite
    BY <2>1, NoWriteFacts DEF IInv
  <2>2. CASE Read(s, "side")
    BY <2>2, ReadFacts DEF IInv, Clients
  <2> QED
    BY <2>1, <2>2 DEF CreateProtectionGroupAndRG
<1>2. /\ side' \in [Sites -> [pc : SideSteps, req : BOOLEAN]]
      /\ side'[s].pc \in {"annotate", "idle"} /\ (side'[s].req => side[s].req)
      /\ \A t \in Sites : t # s => side'[t] = side[t]
  BY SideFacts DEF IInv, CreateProtectionGroupAndRG, SideSteps
<1>3. TypeOK'
  BY <1>1, <1>2 DEF IInv, TypeOK, CreateProtectionGroupAndRG, history
<1>4. \A t \in Sites : Same(t) /\ CtlQuiet(t)
  BY <1>1 DEF CreateProtectionGroupAndRG, Same, CtlQuiet
<1>5. \A t \in Sites : SideQuiet(t)
  BY <1>2, SideRests DEF IInv, SidecarInv, SideQuiet
<1> QED
  BY <1>3, <1>4, <1>5, QuietStep DEF CreateProtectionGroupAndRG, history

\* The PV gets its group.
LEMMA ProcessVolumeStep ==
  ASSUME IInv, NEW s \in Sites, ProcessVolumeForReplicationGroup(s)
  PROVE  Good
<1> DEFINE c == [pv[s] EXCEPT !.rg = TRUE, !.prot = TRUE]
<1>1. c \in PV /\ pv[s] \in PV
  BY WrittenPVs, ZenonT(60) DEF IInv, TypeOK
<1>2. Update(s, "side", c)
  BY DEF ProcessVolumeForReplicationGroup
<1>3. /\ pv' \in [Sites -> PV] /\ fresh' \in [Sites -> SUBSET Clients]
      /\ pv'[s] \in {pv[s], c}
      /\ \A t \in Sites : t # s => pv'[t] = pv[t]
      /\ \A t \in Sites : "ctl" \in fresh'[t] => "ctl" \in fresh[t]
  BY <1>1, <1>2, UpdateFacts DEF IInv, Clients
<1>4. /\ side' \in [Sites -> [pc : SideSteps, req : BOOLEAN]]
      /\ side'[s].pc \in {"idle"} /\ (side'[s].req => side[s].req)
      /\ \A t \in Sites : t # s => side'[t] = side[t]
  BY SideFacts, ZenonT(60) DEF IInv, ProcessVolumeForReplicationGroup, SideSteps
<1>5. TypeOK'
  BY <1>3, <1>4 DEF IInv, TypeOK, ProcessVolumeForReplicationGroup, history
<1>6. \A t \in Sites : Same(t) /\ CtlQuiet(t)
  <2>1. /\ c.st = pv[s].st /\ c.fin = pv[s].fin /\ c.del = pv[s].del /\ c.dreq = pv[s].dreq
        /\ c.peer = pv[s].peer /\ c.sync = pv[s].sync
    BY <1>1 DEF PV
  <2>2. \A t \in Sites : Same(t)
    BY <1>3, <2>1, ZenonT(60) DEF Same
  <2> QED
    BY <1>3, <2>2 DEF ProcessVolumeForReplicationGroup, CtlQuiet
<1>7. \A t \in Sites : SideQuiet(t)
  BY <1>4, SideRests DEF IInv, SidecarInv, SideQuiet
<1> QED
  BY <1>5, <1>6, <1>7, QuietStep DEF ProcessVolumeForReplicationGroup, history

\* The sidecar goes on to a deletion only if it read the request for it.
LEMMA MarkProtectedStep == ASSUME IInv, NEW s \in Sites, MarkProtected(s) PROVE Good
<1> DEFINE c == [pv[s] EXCEPT !.prot = TRUE]
<1>1. c \in PV /\ pv[s] \in PV
  BY WrittenPVs, ZenonT(60) DEF IInv, TypeOK
<1>2. Update(s, "side", c)
  BY DEF MarkProtected
<1>3. /\ pv' \in [Sites -> PV] /\ fresh' \in [Sites -> SUBSET Clients]
      /\ pv'[s] \in {pv[s], c}
      /\ \A t \in Sites : t # s => pv'[t] = pv[t]
      /\ \A t \in Sites : "ctl" \in fresh'[t] => "ctl" \in fresh[t]
  BY <1>1, <1>2, UpdateFacts DEF IInv, Clients
<1>4. /\ side' \in [Sites -> [pc : SideSteps, req : BOOLEAN]]
      /\ side'[s].pc \in {"deleteVol", "idle"} /\ (side'[s].req => side[s].req)
      /\ side'[s].pc = "deleteVol" => side[s].req
      /\ \A t \in Sites : t # s => side'[t] = side[t]
  BY SideFacts DEF IInv, MarkProtected, SideSteps
<1>5. TypeOK'
  BY <1>3, <1>4 DEF IInv, TypeOK, MarkProtected, history
<1>6. \A t \in Sites : Same(t) /\ CtlQuiet(t)
  BY <1>1, <1>3 DEF MarkProtected, Same, CtlQuiet, PV
<1>7. \A t \in Sites : SideQuiet(t)
  BY <1>4, SideRests DEF IInv, SidecarInv, SideQuiet
<1> QED
  BY <1>5, <1>6, <1>7, QuietStep DEF MarkProtected, history

-----------------------------------------------------------------------------
(* The steps of the pair.                                                    *)

\* What the refinement mapping makes of the PV at s.
ObjOf(s) == IF ~Held(s) THEN "absent" ELSE IF pv[s].del THEN "leaving" ELSE "live"
TiedOf(s) == Held(s) /\ pv[s].fin /\ pv[s].peer
ToldOf(s) == Held(s) /\ pv[s].dreq

\* The steps at s as the pair sees them: the PV is tied, told to leave, made, on its way
\* or gone.
Ties(s) ==
  /\ ObjOf(s)' = ObjOf(s) /\ ToldOf(s)' = ToldOf(s) /\ asked' = asked
  /\ TiedOf(s)' = TiedOf(s) \/ (ObjOf(s) # "absent" /\ TiedOf(s)' = TRUE)
Tells(s) ==
  /\ ObjOf(s)' = ObjOf(s) /\ TiedOf(s)' = TiedOf(s) /\ asked' = asked
  /\ \/ ToldOf(s)' = ToldOf(s)
     \/ ObjOf(s) # "absent" /\ policy = "delete" /\ asked[Other(s)] /\ ToldOf(s)' = TRUE
Makes(s) ==
  /\ ObjOf(s) = "absent" /\ ObjOf(s)' = "live" /\ ToldOf(s)' = ToldOf(s)
  /\ asked' = asked /\ TiedOf(s)' \in BOOLEAN
Leaves(s) ==
  /\ ObjOf(s) = "live"
  /\ asked' = [asked EXCEPT ![s] = TRUE] \/ (ToldOf(s) /\ asked' = asked)
  /\ \/ ObjOf(s)' = "leaving" /\ TiedOf(s)' = TiedOf(s) /\ ToldOf(s)' = ToldOf(s)
     \/ ~TiedOf(s) /\ ObjOf(s)' = "absent" /\ TiedOf(s)' = FALSE /\ ToldOf(s)' = FALSE
Goes(s) ==
  /\ ObjOf(s) = "leaving" /\ ObjOf(s)' = "absent" /\ TiedOf(s)' = FALSE /\ ToldOf(s)' = FALSE
  /\ asked' = asked
  /\ policy = "delete" /\ TiedOf(s) /\ ~ToldOf(s) => ~Held(Other(s))

\* Each of them, at one site while the other keeps its PV, is a step of PairLifecycle.
LEMMA PairAt ==
  ASSUME NEW s \in Sites, Same(Other(s)), policy' = policy,
         Ties(s) \/ Tells(s) \/ Makes(s) \/ Leaves(s) \/ Goes(s)
  PROVE  PairStep
<1> DEFINE ob == [t \in Sites |-> ObjOf(t)]
           ti == [t \in Sites |-> TiedOf(t)]
           to == [t \in Sites |-> ToldOf(t)]
<1>1. \A t \in Sites : t = s \/ t = Other(s)
  BY DEF Sites, Other
<1>2. Held(Other(s))' = Held(Other(s))
  BY DEF Same, Held, Present
<1>3. /\ ObjOf(Other(s))' = ObjOf(Other(s)) /\ TiedOf(Other(s))' = TiedOf(Other(s))
      /\ ToldOf(Other(s))' = ToldOf(Other(s))
  BY <1>2, ZenonT(60) DEF Same, ObjOf, TiedOf, ToldOf
<1>4. /\ ob' = [ob EXCEPT ![s] = ObjOf(s)']
      /\ ti' = [ti EXCEPT ![s] = TiedOf(s)']
      /\ to' = [to EXCEPT ![s] = ToldOf(s)']
  BY <1>1, <1>3, ZenonT(60)
<1>5. /\ ob[s] = ObjOf(s) /\ ti[s] = TiedOf(s) /\ to[s] = ToldOf(s)
      /\ ob[Other(s)] = "absent" <=> ~Held(Other(s))
  BY OtherFacts DEF ObjOf
<1>6. /\ ob = [t \in Sites |-> IF ~Held(t) THEN "absent"
                              ELSE IF pv[t].del THEN "leaving" ELSE "live"]
      /\ ti = [t \in Sites |-> Held(t) /\ pv[t].fin /\ pv[t].peer]
      /\ to = [t \in Sites |-> Held(t) /\ pv[t].dreq]
  BY ZenonT(60) DEF ObjOf, TiedOf, ToldOf
<1>7. /\ ob' = [t \in Sites |-> IF ~Held(t) THEN "absent"
                               ELSE IF pv[t].del THEN "leaving" ELSE "live"]'
      /\ ti' = [t \in Sites |-> Held(t) /\ pv[t].fin /\ pv[t].peer]'
      /\ to' = [t \in Sites |-> Held(t) /\ pv[t].dreq]'
  BY ZenonT(60) DEF ObjOf, TiedOf, ToldOf
<1>8. [ob EXCEPT ![s] = ob[s]] = ob /\ [ti EXCEPT ![s] = ti[s]] = ti
      /\ [to EXCEPT ![s] = to[s]] = to
  BY ZenonT(60)
<1> HIDE DEF ob, ti, to
<1>a. CASE Ties(s)
  <2>1. CASE TiedOf(s)' = TiedOf(s)
    <3>1. ob' = ob /\ ti' = ti /\ to' = to
      BY <1>a, <2>1, <1>4, <1>5, <1>8, ZenonT(60) DEF Ties
    <3> QED
      BY <1>a, <3>1, <1>6, <1>7, ZenonT(60) DEF PairStep, Pair!vars, Ties
  <2>2. CASE ObjOf(s) # "absent" /\ TiedOf(s)' = TRUE
    <3>1. ob' = ob /\ to' = to /\ ti' = [ti EXCEPT ![s] = TRUE] /\ ob[s] # "absent"
      BY <1>a, <2>2, <1>4, <1>5, <1>8 DEF Ties
    <3>2. Pair!Tie(s)
      BY <1>a, <3>1, <1>6, <1>7, ZenonT(60) DEF Pair!Tie, Ties
    <3> QED
      BY <3>2 DEF PairStep, Pair!Next, Pair!Sites, Sites
  <2> QED
    BY <1>a, <2>1, <2>2, ZenonT(60) DEF Ties
<1>b. CASE Tells(s)
  <2>1. CASE ToldOf(s)' = ToldOf(s)
    <3>1. ob' = ob /\ ti' = ti /\ to' = to
      BY <1>b, <2>1, <1>4, <1>5, <1>8, ZenonT(60) DEF Tells
    <3> QED
      BY <1>b, <3>1, <1>6, <1>7, ZenonT(60) DEF PairStep, Pair!vars, Tells
  <2>2. CASE /\ ObjOf(s) # "absent" /\ policy = "delete" /\ asked[Other(s)]
             /\ ToldOf(s)' = TRUE
    <3>1. ob' = ob /\ ti' = ti /\ to' = [to EXCEPT ![s] = TRUE] /\ ob[s] # "absent"
      BY <1>b, <2>2, <1>4, <1>5, <1>8 DEF Tells
    <3>2. Pair!Other(s) = Other(s)
      BY DEF Pair!Other, Other
    <3>3. Pair!Tell(s)
      BY <1>b, <2>2, <3>1, <3>2, <1>6, <1>7, ZenonT(60) DEF Pair!Tell, Tells
    <3> QED
      BY <3>3 DEF PairStep, Pair!Next, Pair!Sites, Sites
  <2> QED
    BY <1>b, <2>1, <2>2, ZenonT(60) DEF Tells
<1>c. CASE Makes(s)
  <2>1. /\ ob[s] = "absent" /\ ob' = [ob EXCEPT ![s] = "live"] /\ to' = to
        /\ ti' = [ti EXCEPT ![s] = TiedOf(s)'] /\ TiedOf(s)' \in BOOLEAN
    BY <1>c, <1>4, <1>5, <1>8 DEF Makes
  <2>2. Pair!Replicate(s)
    BY <1>c, <2>1, <1>6, <1>7, ZenonT(60) DEF Pair!Replicate, Makes
  <2> QED
    BY <2>2 DEF PairStep, Pair!Next, Pair!Sites, Sites
<1>d. CASE Leaves(s)
  <2>1. /\ ob[s] = "live"
        /\ \/ ob' = [ob EXCEPT ![s] = "leaving"] /\ ti' = ti /\ to' = to
           \/ /\ ~ti[s] /\ ob' = [ob EXCEPT ![s] = "absent"]
              /\ ti' = [ti EXCEPT ![s] = FALSE] /\ to' = [to EXCEPT ![s] = FALSE]
    BY <1>d, <1>4, <1>5, <1>8, ZenonT(60) DEF Leaves
  <2>2. Pair!StartLeaving(s)
    BY <2>1, <1>6, <1>7, ZenonT(60) DEF Pair!StartLeaving, Pair!Vanish
  <2>3. Pair!UserDelete(s) \/ Pair!Leave(s)
    BY <1>d, <2>1, <2>2, <1>5, <1>6, ZenonT(60) DEF Pair!UserDelete, Pair!Leave, Leaves
  <2> QED
    BY <2>3 DEF PairStep, Pair!Next, Pair!Sites, Sites
<1>e. CASE Goes(s)
  <2>1. /\ ob[s] = "leaving" /\ ob' = [ob EXCEPT ![s] = "absent"]
        /\ ti' = [ti EXCEPT ![s] = FALSE] /\ to' = [to EXCEPT ![s] = FALSE]
        /\ policy = "delete" /\ ti[s] /\ ~to[s] => ob[Other(s)] = "absent"
    BY <1>e, <1>4, <1>5, ZenonT(60) DEF Goes
  <2>2. Pair!Other(s) = Other(s)
    BY DEF Pair!Other, Other
  <2>3. Pair!Gone(s)
    BY <1>e, <2>1, <2>2, <1>6, <1>7, ZenonT(60) DEF Pair!Gone, Pair!Vanish, Goes
  <2> QED
    BY <2>3 DEF PairStep, Pair!Next, Pair!Sites, Sites
<1> QED
  BY <1>a, <1>b, <1>c, <1>d, <1>e

-----------------------------------------------------------------------------
(* The steps that deletions are made of.                                     *)

\* A step that changes the PV at s keeps the invariant if the new PV is justified and no
\* call of either controller loses its justification.
LEMMA WriteStep ==
  ASSUME IInv, TypeOK', NEW s \in Sites, Same(Other(s)), policy' = policy,
         \A t \in Sites : asked[t] => asked'[t],
         \A t \in Sites : SideQuiet(t),
         \A t \in Sites : array'[t] = "deleted" <=> array[t] = "deleted",
         pv'[s].del => asked'[s] \/ pv'[s].dreq,
         pv'[s].dreq => pv'[s].sync # "none",
         pv'[s].sync # "none" => Requested(s),
         pv'[s].sync = "complete" => array[s] = "deleted",
         CtlQuiet(Other(s)),
         ctl'[Other(s)].pc = "removeFin" => (Held(s)' => Held(s)),
         ctl'[s].pc = "lookup" => asked'[s],
         ctl'[s].pc = "delete" => asked'[s] \/ (Present(s)' /\ pv'[s].dreq /\ ~pv'[s].del),
         "ctl" \in fresh'[s] => ctl'[s].pc \notin {"lookup", "addFin", "removeFin"}
  PROVE  IInv'
<1>1. \A t \in Sites : t = s \/ t = Other(s)
  BY ZenonT(60) DEF Sites, Other
<1>2. \A t \in Sites : Requested(t) => Requested(t)'
  BY OtherFacts, ZenonT(60) DEF Requested
<1>3. Other(s) \in Sites /\ Other(Other(s)) = s /\ (Present(Other(s))' <=> Present(Other(s)))
  BY OtherFacts, ZenonT(60) DEF Same, Present
<1>4. DeletionInv'
  <2>1. /\ pv'[Other(s)].del => asked'[Other(s)] \/ pv'[Other(s)].dreq
        /\ pv'[Other(s)].dreq => pv'[Other(s)].sync # "none"
        /\ pv'[Other(s)].sync # "none" => Requested(Other(s))
        /\ pv'[Other(s)].sync = "complete" => array[Other(s)] = "deleted"
    BY <1>3, ZenonT(60) DEF IInv, DeletionInv, Same
  <2> QED
    BY <1>1, <1>2, <2>1, ZenonT(60) DEF IInv, DeletionInv
<1>5. ReconcileInv'
  <2>1. Justified(s)'
    BY <1>3, ZenonT(60) DEF Justified
  <2>2. Justified(Other(s))'
    BY <1>3, ZenonT(60) DEF IInv, ReconcileInv, Justified, Same, CtlQuiet
  <2> QED
    BY <1>1, <2>1, <2>2, ZenonT(60) DEF ReconcileInv
<1>6. SidecarInv'
  BY <1>2, ZenonT(60) DEF IInv, SidecarInv, SideQuiet
<1> QED
  BY <1>4, <1>5, <1>6, ZenonT(60) DEF IInv

\* The finalizer is added to a PV that is not being deleted.
LEMMA AddFinalizerStep == ASSUME IInv, NEW s \in Sites, AddFinalizer(s) PROVE Good
<1> DEFINE c == [pv[s] EXCEPT !.fin = TRUE]
<1> USE OtherFacts
<1>1. c \in PV /\ pv[s] \in PV
  BY WrittenPVs, ZenonT(60) DEF IInv, TypeOK
<1>2. /\ pv' \in [Sites -> PV] /\ fresh' \in [Sites -> SUBSET Clients]
      /\ pv'[s] = IF "ctl" \in fresh[s] THEN c ELSE pv[s]
      /\ \A t \in Sites : t # s => pv'[t] = pv[t]
      /\ \A t \in Sites : "ctl" \in fresh'[t] => "ctl" \in fresh[t]
  BY <1>1, UpdateFacts DEF IInv, AddFinalizer, Clients
<1>3. /\ ctl' \in [Sites -> [pc : CtlSteps, known : BOOLEAN, rg : BOOLEAN]]
      /\ ctl'[s].pc = "idle" /\ \A t \in Sites : t # s => ctl'[t] = ctl[t]
  BY CtlFacts DEF IInv, AddFinalizer, CtlSteps
<1>4. TypeOK'
  BY <1>2, <1>3 DEF IInv, TypeOK, AddFinalizer, history
<1>5. \A t \in Sites : CtlQuiet(t) /\ SideQuiet(t)
  BY <1>2, <1>3, SideRests DEF AddFinalizer, CtlQuiet
<1>6. Same(Other(s))
  BY <1>2 DEF Same
<1>7. CASE "ctl" \notin fresh[s]
  <2>1. \A t \in Sites : Same(t)
    BY <1>2, <1>7 DEF Same
  <2> QED
    BY <2>1, <1>4, <1>5, QuietStep DEF AddFinalizer, history
<1>8. CASE "ctl" \in fresh[s]
  <2>1. /\ ~pv[s].del /\ pv'[s].del = pv[s].del /\ pv'[s].st = pv[s].st /\ pv'[s].fin = TRUE
        /\ pv'[s].dreq = pv[s].dreq /\ pv'[s].peer = pv[s].peer /\ pv'[s].sync = pv[s].sync
    BY <1>1, <1>2, <1>8 DEF IInv, ReconcileInv, Justified, AddFinalizer, PV
  <2>2. Held(s)' <=> Held(s)
    BY <2>1 DEF Held, Present
  <2>3. IInv'
    BY <1>3, <1>4, <1>5, <1>6, <2>1, <2>2, WriteStep, ZenonT(60)
       DEF IInv, DeletionInv, AddFinalizer, history
  <2>4. Ties(s)
    BY <2>1, <2>2 DEF Ties, ObjOf, TiedOf, ToldOf, AddFinalizer, history
  <2>5. PairStep
    BY <1>6, <2>4, PairAt DEF AddFinalizer, history
  <2>6. VolumeStep
    BY <1>2, <2>1, ZenonT(60) DEF VolumeStep
  <2> QED
    BY <2>3, <2>5, <2>6 DEF Good
<1> QED
  BY <1>7, <1>8, ZenonT(60)

\* The finalizer is removed from a PV that is being deleted, and that need not wait for its
\* peer; if it was requested to go, its volume is deleted.
LEMMA RemoveFinalizerStep == ASSUME IInv, NEW s \in Sites, RemoveFinalizer(s) PROVE Good
<1> DEFINE c == [pv[s] EXCEPT !.fin = FALSE]
<1> USE OtherFacts
<1>1. c \in PV /\ pv[s] \in PV
  BY WrittenPVs, ZenonT(60) DEF IInv, TypeOK
<1>2. /\ pv' \in [Sites -> PV] /\ fresh' \in [Sites -> SUBSET Clients]
      /\ pv'[s] = IF "ctl" \in fresh[s] THEN c ELSE pv[s]
      /\ \A t \in Sites : t # s => pv'[t] = pv[t]
      /\ \A t \in Sites : "ctl" \in fresh'[t] => "ctl" \in fresh[t]
  BY <1>1, UpdateFacts DEF IInv, RemoveFinalizer, Clients
<1>3. /\ ctl' \in [Sites -> [pc : CtlSteps, known : BOOLEAN, rg : BOOLEAN]]
      /\ ctl'[s].pc = "idle" /\ \A t \in Sites : t # s => ctl'[t] = ctl[t]
  BY CtlFacts DEF IInv, RemoveFinalizer, CtlSteps
<1>4. TypeOK'
  BY <1>2, <1>3 DEF IInv, TypeOK, RemoveFinalizer, history
<1>5. \A t \in Sites : CtlQuiet(t) /\ SideQuiet(t)
  BY <1>2, <1>3, SideRests, ZenonT(60) DEF RemoveFinalizer, CtlQuiet
<1>6. Same(Other(s))
  BY <1>2 DEF Same
<1>7. CASE "ctl" \notin fresh[s]
  <2>1. \A t \in Sites : Same(t)
    BY <1>2, <1>7 DEF Same
  <2> QED
    BY <2>1, <1>4, <1>5, QuietStep DEF RemoveFinalizer, history
<1>8. CASE "ctl" \in fresh[s]
  <2>1. /\ pv'[s].del = pv[s].del /\ pv'[s].st = pv[s].st /\ pv'[s].fin = FALSE
        /\ pv'[s].dreq = pv[s].dreq /\ pv'[s].peer = pv[s].peer /\ pv'[s].sync = pv[s].sync
    BY <1>1, <1>2, <1>8 DEF PV
  <2>2. /\ pv[s].del /\ pv[s].sync # "requested"
        /\ policy = "delete" /\ pv[s].peer /\ ~pv[s].dreq => ~Held(Other(s))
    BY <1>8 DEF IInv, ReconcileInv, Justified, RemoveFinalizer
  <2>3. ~Held(s)' /\ (pv[s].fin /\ Present(s) => Held(s)) /\ (Held(s) => pv[s].fin)
    BY <2>1, <2>2, ZenonT(60) DEF Held, Present
  <2>4. IInv'
    BY <1>3, <1>4, <1>5, <1>6, <2>1, <2>3, WriteStep, SMTT(60)
       DEF IInv, DeletionInv, RemoveFinalizer, history
  <2>5. Ties(s) \/ Goes(s)
    BY <2>2, <2>3 DEF Ties, Goes, ObjOf, TiedOf, ToldOf, RemoveFinalizer, history
  <2>6. PairStep
    BY <1>6, <2>5, PairAt DEF RemoveFinalizer, history
  <2>7. VolumeStep
    BY <1>1, <1>2, <2>2 DEF IInv, DeletionInv, VolumeStep, PV
  <2> QED
    BY <2>4, <2>6, <2>7 DEF Good
<1> QED
  BY <1>7, <1>8

\* The local PV gets the name of its peer: from now on its deletion waits for it.
LEMMA ProcessLocalStep == ASSUME IInv, NEW s \in Sites, ProcessLocalPV(s) PROVE Good
<1> DEFINE c == [pv[s] EXCEPT !.peer = TRUE, !.synced = TRUE]
<1> USE OtherFacts
<1>1. c \in PV /\ pv[s] \in PV
  BY WrittenPVs, ZenonT(60) DEF IInv, TypeOK
<1>2. /\ pv' \in [Sites -> PV] /\ fresh' \in [Sites -> SUBSET Clients]
      /\ pv'[s] \in {pv[s], c}
      /\ \A t \in Sites : t # s => pv'[t] = pv[t]
      /\ \A t \in Sites : "ctl" \in fresh'[t] => "ctl" \in fresh[t]
  <2>1. CASE NoWrite
    BY <2>1, NoWriteFacts DEF IInv
  <2>2. CASE Update(s, "ctl", c)
    BY <2>2, <1>1, UpdateFacts DEF IInv, Clients
  <2> QED
    BY <2>1, <2>2 DEF ProcessLocalPV
<1>3. /\ ctl' \in [Sites -> [pc : CtlSteps, known : BOOLEAN, rg : BOOLEAN]]
      /\ ctl'[s].pc = "idle" /\ \A t \in Sites : t # s => ctl'[t] = ctl[t]
  BY CtlFacts DEF IInv, ProcessLocalPV, CtlSteps
<1>4. TypeOK'
  BY <1>2, <1>3 DEF IInv, TypeOK, ProcessLocalPV, history
<1>5. \A t \in Sites : CtlQuiet(t) /\ SideQuiet(t)
  BY <1>2, <1>3, SideRests DEF ProcessLocalPV, CtlQuiet
<1>6. Same(Other(s))
  BY <1>2 DEF Same
<1>7. /\ pv'[s].del = pv[s].del /\ pv'[s].st = pv[s].st /\ pv'[s].fin = pv[s].fin
      /\ pv'[s].dreq = pv[s].dreq /\ pv'[s].sync = pv[s].sync
      /\ pv'[s].peer = pv[s].peer \/ pv'[s].peer = TRUE
  BY <1>1, <1>2, ZenonT(60) DEF PV
<1>8. Held(s)' <=> Held(s)
  BY <1>7, ZenonT(60) DEF Held, Present
<1>9. IInv'
  BY <1>3, <1>4, <1>5, <1>6, <1>7, <1>8, WriteStep, SMTT(60)
     DEF IInv, DeletionInv, ProcessLocalPV, history
<1>10. Ties(s)
  BY <1>7, <1>8 DEF Ties, ObjOf, TiedOf, ToldOf, ProcessLocalPV, history
<1>11. PairStep
  BY <1>6, <1>10, PairAt DEF ProcessLocalPV, history
<1>12. VolumeStep
  BY <1>2, <1>7 DEF VolumeStep
<1> QED
  BY <1>9, <1>11, <1>12 DEF Good

\* A user deletes the PV.
LEMMA UserDeleteStep == ASSUME IInv, NEW s \in Sites, UserDelete(s) PROVE Good
<1> DEFINE c == [pv[s] EXCEPT !.del = TRUE]
<1> USE OtherFacts
<1>1. c \in PV /\ pv[s] \in PV
  BY WrittenPVs, ZenonT(60) DEF IInv, TypeOK
<1>2. /\ pv' \in [Sites -> PV] /\ fresh' \in [Sites -> SUBSET Clients]
      /\ pv'[s] = c /\ "ctl" \notin fresh'[s]
      /\ \A t \in Sites : t # s => pv'[t] = pv[t] /\ fresh'[t] \subseteq fresh[t]
  BY <1>1, PutFacts DEF IInv, UserDelete
<1>3. TypeOK' /\ asked'[s] = TRUE /\ \A t \in Sites : asked[t] => asked'[t]
  BY <1>2, ZenonT(60) DEF IInv, TypeOK, UserDelete
<1>4. \A t \in Sites : CtlQuiet(t) /\ SideQuiet(t)
  BY <1>2, SideRests DEF UserDelete, CtlQuiet
<1>5. Same(Other(s))
  BY <1>2 DEF Same
<1>6. /\ pv'[s].del = TRUE /\ pv'[s].st = pv[s].st /\ pv'[s].fin = pv[s].fin
      /\ pv'[s].dreq = pv[s].dreq /\ pv'[s].peer = pv[s].peer /\ pv'[s].sync = pv[s].sync
  BY <1>1, <1>2 DEF PV
<1>7. Held(s) /\ (Held(s)' <=> pv[s].fin)
  BY <1>6 DEF Held, Present, UserDelete
<1>8. IInv'
  BY <1>2, <1>3, <1>4, <1>5, <1>6, <1>7, WriteStep, ZenonT(60) DEF IInv, DeletionInv, UserDelete
<1>9. Leaves(s)
  BY <1>6, <1>7 DEF Leaves, ObjOf, TiedOf, ToldOf, UserDelete
<1>10. PairStep
  BY <1>5, <1>9, PairAt DEF UserDelete
<1>11. VolumeStep
  BY <1>2, <1>6, ZenonT(60) DEF VolumeStep
<1> QED
  BY <1>8, <1>10, <1>11 DEF Good

\* A controller deletes the PV that it read with a request, or that the user deleted.
LEMMA DeleteOnRequestStep == ASSUME IInv, NEW s \in Sites, DeleteOnRequest(s) PROVE Good
<1> DEFINE c == [pv[s] EXCEPT !.del = TRUE]
<1> USE OtherFacts
<1>1. c \in PV /\ pv[s] \in PV
  BY WrittenPVs, ZenonT(60) DEF IInv, TypeOK
<1>2. /\ pv' \in [Sites -> PV] /\ fresh' \in [Sites -> SUBSET Clients]
      /\ pv'[s] = IF Present(s) THEN c ELSE pv[s]
      /\ \A t \in Sites : t # s => pv'[t] = pv[t]
      /\ \A t \in Sites : "ctl" \in fresh'[t] => "ctl" \in fresh[t]
  <2>1. CASE Present(s)
    BY <2>1, <1>1, PutFacts DEF IInv, DeleteOnRequest
  <2>2. CASE ~Present(s)
    BY <2>2, NoWriteFacts DEF IInv, DeleteOnRequest
  <2> QED
    BY <2>1, <2>2
<1>3. /\ ctl' \in [Sites -> [pc : CtlSteps, known : BOOLEAN, rg : BOOLEAN]]
      /\ ctl'[s].pc = "idle" /\ \A t \in Sites : t # s => ctl'[t] = ctl[t]
  BY CtlFacts DEF IInv, DeleteOnRequest, CtlSteps
<1>4. TypeOK'
  BY <1>2, <1>3 DEF IInv, TypeOK, DeleteOnRequest, history
<1>5. \A t \in Sites : CtlQuiet(t) /\ SideQuiet(t)
  BY <1>2, <1>3, SideRests, ZenonT(60) DEF DeleteOnRequest, CtlQuiet
<1>6. Same(Other(s))
  BY <1>2 DEF Same
<1>7. Present(s) =>
        /\ pv'[s].del = TRUE /\ pv'[s].st = pv[s].st /\ pv'[s].fin = pv[s].fin
        /\ pv'[s].dreq = pv[s].dreq /\ pv'[s].peer = pv[s].peer /\ pv'[s].sync = pv[s].sync
  BY <1>1, <1>2 DEF PV
<1>8. CASE ~Present(s) \/ pv[s].del
  <2>1. \A t \in Sites : Same(t)
    BY <1>1, <1>2, <1>7, <1>8 DEF Same, PV
  <2> QED
    BY <2>1, <1>4, <1>5, QuietStep DEF DeleteOnRequest, history
<1>9. CASE Present(s) /\ ~pv[s].del
  <2>1. Held(s) /\ (Held(s)' <=> pv[s].fin)
    BY <1>7, <1>9, ZenonT(60) DEF Held, Present
  <2>2. asked[s] \/ pv[s].dreq
    BY DEF IInv, ReconcileInv, Justified, DeleteOnRequest
  <2>3. IInv'
    BY <1>3, <1>4, <1>5, <1>6, <1>7, <1>9, <2>1, <2>2, WriteStep, SMTT(60)
       DEF IInv, DeletionInv, DeleteOnRequest, history
  <2>4. asked' = asked /\ (asked[s] => asked = [asked EXCEPT ![s] = TRUE])
    BY DEF IInv, TypeOK, DeleteOnRequest, history
  <2>5. Leaves(s)
    BY <1>7, <1>9, <2>1, <2>2, <2>4, ZenonT(60) DEF Leaves, ObjOf, TiedOf, ToldOf
  <2>6. PairStep
    BY <1>6, <2>5, PairAt DEF DeleteOnRequest, history
  <2>7. VolumeStep
    BY <1>2, <1>7, <1>9, ZenonT(60) DEF VolumeStep
  <2> QED
    BY <2>3, <2>6, <2>7 DEF Good
<1> QED
  BY <1>8, <1>9

\* The API server removes a PV that the pair no longer counts.
LEMMA FinalizeStep == ASSUME IInv, NEW s \in Sites, Finalize(s) PROVE Good
<1> USE OtherFacts
<1>1. /\ pv' \in [Sites -> PV] /\ fresh' \in [Sites -> SUBSET Clients]
      /\ pv'[s] = NoPV /\ "ctl" \notin fresh'[s]
      /\ \A t \in Sites : t # s => pv'[t] = pv[t] /\ fresh'[t] \subseteq fresh[t]
  <2>1. NoPV \in PV
    BY ZenonT(60) DEF NoPV, PV
  <2> QED
    BY <2>1, PutFacts, SMTT(60) DEF IInv, Finalize
<1>2. TypeOK'
  BY <1>1, ZenonT(60) DEF IInv, TypeOK, Finalize, history
<1>3. \A t \in Sites : CtlQuiet(t) /\ SideQuiet(t)
  BY <1>1, SideRests, ZenonT(60) DEF Finalize, CtlQuiet
<1>4. Same(Other(s))
  BY <1>1, ZenonT(60) DEF Same
<1>5. ~pv'[s].del /\ ~pv'[s].dreq /\ pv'[s].sync = "none" /\ ~Held(s)' /\ ~Held(s)
  BY <1>1, SMTT(60) DEF NoPV, Held, Present, Finalize
<1>6. ctl[s].pc \in {"lookup", "delete"} => asked[s]
  BY ZenonT(60) DEF IInv, ReconcileInv, Justified, Finalize
<1>7. IInv'
  BY <1>1, <1>2, <1>3, <1>4, <1>5, <1>6, WriteStep, ZenonT(60)
     DEF IInv, DeletionInv, Finalize, history
<1>8. Ties(s)
  BY <1>5, ZenonT(60) DEF Ties, ObjOf, TiedOf, ToldOf, Finalize, history
<1>9. PairStep
  BY <1>4, <1>8, PairAt DEF Finalize, history
<1>10. VolumeStep
  BY <1>1, ZenonT(60) DEF VolumeStep, Finalize
<1> QED
  BY <1>7, <1>9, <1>10 DEF Good

\* The sidecar deletes the volume it was asked to.
LEMMA DeleteVolumeStep == ASSUME IInv, NEW s \in Sites, DeleteLocalVolume(s) PROVE Good
<1>1. /\ side' \in [Sites -> [pc : SideSteps, req : BOOLEAN]]
      /\ side'[s].pc = "complete" /\ (side'[s].req => side[s].req)
      /\ \A t \in Sites : t # s => side'[t] = side[t]
  BY SideFacts, ZenonT(60) DEF IInv, DeleteLocalVolume, SideSteps
<1>2. /\ array' \in [Sites -> {"none", "live", "deleted"}] /\ array'[s] = "deleted"
      /\ \A t \in Sites : t # s => array'[t] = array[t]
  BY ZenonT(60) DEF IInv, TypeOK, DeleteLocalVolume
<1>3. TypeOK'
  BY <1>1, <1>2, ZenonT(60) DEF IInv, TypeOK, DeleteLocalVolume, history
<1>4. \A t \in Sites : Same(t) /\ Requested(t)' = Requested(t)
  BY ZenonT(60) DEF DeleteLocalVolume, history, Same, Requested
<1>a. Requested(s)
  BY ZenonT(60) DEF IInv, SidecarInv, DeleteLocalVolume
<1>b. DeletionInv'
  BY <1>2, <1>4, <1>a, ZenonT(60) DEF IInv, DeletionInv, DeleteLocalVolume, history
<1>c. SidecarInv'
  BY <1>1, <1>2, <1>4, <1>a, ZenonT(60) DEF IInv, SidecarInv
<1>6. ReconcileInv'
  BY ZenonT(60) DEF IInv, ReconcileInv, Justified, DeleteLocalVolume, history, Present, Held
<1>7. VolumeStep /\ PairStep
  BY <1>4, PairStutters, ZenonT(60) DEF VolumeStep, Same, DeleteLocalVolume, history
<1> QED
  BY <1>3, <1>b, <1>c, <1>6, <1>7 DEF Good, IInv

\* The sidecar reports the deletion of a volume that is deleted.
LEMMA MarkCompleteStep == ASSUME IInv, NEW s \in Sites, MarkComplete(s) PROVE Good
<1> DEFINE c == [pv[s] EXCEPT !.sync = "complete"]
<1> USE OtherFacts
<1>1. c \in PV /\ pv[s] \in PV
  BY WrittenPVs, ZenonT(60) DEF IInv, TypeOK
<1>2. /\ pv' \in [Sites -> PV] /\ fresh' \in [Sites -> SUBSET Clients]
      /\ pv'[s] = IF "side" \in fresh[s] THEN c ELSE pv[s]
      /\ fresh'[s] \subseteq IF "side" \in fresh[s] THEN {"side"} ELSE fresh[s]
      /\ \A t \in Sites : t # s => pv'[t] = pv[t] /\ fresh'[t] \subseteq fresh[t]
  BY <1>1, UpdateFacts DEF IInv, MarkComplete, Clients
<1>3. /\ side' \in [Sites -> [pc : SideSteps, req : BOOLEAN]]
      /\ side'[s].pc = "idle" /\ (side'[s].req => side[s].req)
      /\ \A t \in Sites : t # s => side'[t] = side[t]
  BY SideFacts DEF IInv, MarkComplete, SideSteps
<1>4. TypeOK'
  BY <1>2, <1>3 DEF IInv, TypeOK, MarkComplete, history
<1>5. \A t \in Sites : CtlQuiet(t)
  BY <1>2 DEF MarkComplete, CtlQuiet
<1>6. \A t \in Sites : SideQuiet(t)
  BY <1>3, SideRests, ZenonT(60) DEF IInv, SidecarInv, SideQuiet
<1>7. Same(Other(s))
  BY <1>2 DEF Same
<1>8. CASE "side" \notin fresh[s]
  <2>1. \A t \in Sites : Same(t)
    BY <1>2, <1>8 DEF Same
  <2> QED
    BY <2>1, <1>4, <1>5, <1>6, QuietStep DEF MarkComplete, history
<1>9. CASE "side" \in fresh[s]
  <2>1. /\ pv'[s].del = pv[s].del /\ pv'[s].st = pv[s].st /\ pv'[s].fin = pv[s].fin
        /\ pv'[s].dreq = pv[s].dreq /\ pv'[s].peer = pv[s].peer /\ pv'[s].sync = "complete"
    BY <1>1, <1>2, <1>9 DEF PV
  <2>2. Held(s)' = Held(s) /\ Present(s)' = Present(s)
    BY <2>1, ZenonT(60) DEF Held, Present
  <2>3. array[s] = "deleted" /\ Requested(s)
    BY DEF IInv, SidecarInv, DeletionInv, MarkComplete
  <2>4. "ctl" \notin fresh'[s]
    BY <1>2, <1>9
  <2>5. /\ ctl[s].pc = "lookup" => asked[s]
        /\ ctl[s].pc = "delete" => asked[s] \/ (Present(s) /\ pv[s].dreq /\ ~pv[s].del)
        /\ pv[s].del => asked[s] \/ pv[s].dreq
    BY ZenonT(60) DEF IInv, ReconcileInv, Justified, DeletionInv
  <2>6. IInv'
    BY <1>4, <1>5, <1>6, <1>7, <2>1, <2>2, <2>3, <2>4, <2>5, WriteStep, ZenonT(60)
       DEF MarkComplete, history
  <2>7. Ties(s)
    BY <2>1, <2>2 DEF Ties, ObjOf, TiedOf, ToldOf, MarkComplete, history
  <2>8. PairStep
    BY <1>7, <2>7, PairAt DEF MarkComplete, history
  <2>9. VolumeStep
    BY <1>2, <2>1, ZenonT(60) DEF VolumeStep
  <2> QED
    BY <2>6, <2>8, <2>9 DEF Good
<1> QED
  BY <1>8, <1>9, SMTT(60)

\* A controller that reads the PV goes on to what the marks justify.
LEMMA ReconcileStep == ASSUME IInv, NEW s \in Sites, Reconcile(s) PROVE Good
<1> USE OtherFacts
<1>1. /\ pv' \in [Sites -> PV] /\ fresh' \in [Sites -> SUBSET Clients]
      /\ \A t \in Sites : pv'[t] = pv[t] /\ (t # s => fresh'[t] \subseteq fresh[t])
  BY ReadFacts, ZenonT(60) DEF IInv, Reconcile, Clients
<1>2. /\ Branch(pv[s]) \in CtlSteps
      /\ Branch(pv[s]) = "lookup" => pv[s].del /\ ~pv[s].dreq
      /\ Branch(pv[s]) = "delete" => pv[s].dreq /\ ~pv[s].del
      /\ Branch(pv[s]) = "addFin" => ~pv[s].del
      /\ Branch(pv[s]) = "removeFin" =>
           pv[s].del /\ pv[s].sync # "requested" /\ (pv[s].dreq \/ ~pv[s].peer)
  BY ZenonT(60) DEF Branch, CtlSteps
<1>3. /\ ctl' \in [Sites -> [pc : CtlSteps, known : BOOLEAN, rg : BOOLEAN]]
      /\ ctl'[s].pc = Branch(pv[s]) /\ \A t \in Sites : t # s => ctl'[t] = ctl[t]
  BY <1>2, ZenonT(60) DEF IInv, TypeOK, Reconcile
<1>4. TypeOK'
  BY <1>1, <1>3, ZenonT(60) DEF IInv, TypeOK, Reconcile, history
<1>5. \A t \in Sites : Same(t) /\ Held(t)' = Held(t) /\ Present(t)' = Present(t)
  BY <1>1, ZenonT(60) DEF Same, Held, Present
<1>6. DeletionInv' /\ SidecarInv'
  BY <1>1, ZenonT(60) DEF IInv, DeletionInv, SidecarInv, Requested, Reconcile, history
<1>7. ReconcileInv'
  <2>1. pv[s].del => asked[s] \/ pv[s].dreq
    BY ZenonT(60) DEF IInv, DeletionInv
  <2>2. Present(s) /\ asked' = asked /\ policy' = policy
    BY ZenonT(60) DEF Reconcile, Reconciles, history
  <2>3. \A t \in Sites : t # s => CtlQuiet(t)
    BY <1>1, <1>3, ZenonT(60) DEF CtlQuiet
  <2>4. Justified(s)'
    <3>1. /\ ctl'[s].pc = "lookup" => asked'[s]
          /\ ctl'[s].pc = "delete" => asked'[s] \/ (Present(s)' /\ pv'[s].dreq /\ ~pv'[s].del)
      BY <1>1, <1>2, <1>3, <1>5, <2>1, <2>2, ZenonT(60)
    <3>2. /\ ctl'[s].pc = "addFin" /\ "ctl" \in fresh'[s] => ~pv'[s].del
          /\ ctl'[s].pc \in {"lookup", "removeFin"} /\ "ctl" \in fresh'[s] => pv'[s].del
      BY <1>1, <1>2, <1>3, ZenonT(60)
    <3>3. ctl'[s].pc = "removeFin" /\ "ctl" \in fresh'[s] =>
            /\ pv'[s].sync # "requested"
            /\ policy' = "delete" /\ pv'[s].peer /\ ~pv'[s].dreq => ~Held(Other(s))'
      BY <1>1, <1>2, <1>3, ZenonT(60)
    <3> QED
      BY <3>1, <3>2, <3>3, ZenonT(60) DEF Justified
  <2> QED
    BY <1>5, <2>2, <2>3, <2>4, CtlRests DEF IInv, ReconcileInv
<1>8. VolumeStep /\ PairStep
  BY <1>5, PairStutters, ZenonT(60) DEF VolumeStep, Same, Reconcile, history
<1> QED
  BY <1>4, <1>6, <1>7, <1>8 DEF Good, IInv

\* A controller asks the peer to go because the user deleted its own PV, or it may remove the
\* finalizer because it need not wait.
LEMMA LookupStep == ASSUME IInv, NEW s \in Sites, LookupRemote(s) PROVE Good
<1> DEFINE o == Other(s)
           c == [pv[o] EXCEPT !.dreq = TRUE, !.sync = "requested"]
<1> USE OtherFacts
<1>1. c \in PV /\ pv[o] \in PV
  BY WrittenPVs, ZenonT(60) DEF IInv, TypeOK
<1>2. asked[s]
  BY DEF IInv, ReconcileInv, Justified, LookupRemote
<1>3. CASE Present(o) /\ policy = "delete" /\ ~pv[o].dreq
  <2>1. /\ pv' \in [Sites -> PV] /\ fresh' \in [Sites -> SUBSET Clients]
        /\ pv'[o] = c /\ "ctl" \notin fresh'[o]
        /\ \A t \in Sites : t # o => pv'[t] = pv[t] /\ fresh'[t] \subseteq fresh[t]
    <3>1. Put(o, c, "peer")
      BY <1>3 DEF LookupRemote
    <3> QED
      BY <3>1, <1>1, PutFacts DEF IInv
  <2>2. /\ ctl' \in [Sites -> [pc : CtlSteps, known : BOOLEAN, rg : BOOLEAN]]
        /\ ctl'[s].pc = "idle" /\ \A t \in Sites : t # s => ctl'[t] = ctl[t]
    BY <1>3, CtlFacts DEF IInv, LookupRemote, CtlSteps
  <2>3. TypeOK'
    BY <2>1, <2>2 DEF IInv, TypeOK, LookupRemote, history
  <2>4. \A t \in Sites : SideQuiet(t)
    BY SideRests DEF LookupRemote
  <2>5. CtlQuiet(s) /\ Same(s)
    BY <2>1, <2>2 DEF CtlQuiet, Same
  <2>6. /\ pv'[o].del = pv[o].del /\ pv'[o].st = pv[o].st /\ pv'[o].fin = pv[o].fin
        /\ pv'[o].dreq = TRUE /\ pv'[o].peer = pv[o].peer /\ pv'[o].sync = "requested"
    BY <1>1, <2>1 DEF PV
  <2>7. Held(o)' = Held(o) /\ Present(o)' = Present(o)
    BY <2>6, ZenonT(60) DEF Held, Present
  <2>8. Requested(o) /\ Other(o) = s
    BY <1>2, <1>3, ZenonT(60) DEF Requested
  <2>9. /\ ctl[o].pc = "lookup" => asked[o]
        /\ ctl[o].pc = "delete" => asked[o] \/ (Present(o) /\ ~pv[o].del)
    BY ZenonT(60) DEF IInv, ReconcileInv, Justified
  <2>a. /\ asked' = asked /\ policy' = policy /\ array' = array
        /\ pv[o].del => asked[o] \/ pv[o].dreq
    BY DEF IInv, DeletionInv, LookupRemote, history
  <2>10. IInv'
    <3>1. /\ o \in Sites /\ TypeOK' /\ Same(Other(o)) /\ policy' = policy
          /\ \A t \in Sites : asked[t] => asked'[t]
          /\ \A t \in Sites : SideQuiet(t)
          /\ \A t \in Sites : array'[t] = "deleted" <=> array[t] = "deleted"
          /\ pv'[o].del => asked'[o] \/ pv'[o].dreq
          /\ pv'[o].dreq => pv'[o].sync # "none"
          /\ pv'[o].sync # "none" => Requested(o)
          /\ pv'[o].sync = "complete" => array[o] = "deleted"
          /\ CtlQuiet(Other(o)) /\ (Held(o)' => Held(o))
      BY <2>1, <2>3, <2>4, <2>5, <2>6, <2>7, <2>8, <2>a
    <3>2. /\ ctl'[o].pc = "lookup" => asked'[o]
          /\ ctl'[o].pc = "delete" => asked'[o] \/ (Present(o)' /\ pv'[o].dreq /\ ~pv'[o].del)
          /\ "ctl" \in fresh'[o] => ctl'[o].pc \notin {"lookup", "addFin", "removeFin"}
      BY <2>1, <2>2, <2>6, <2>7, <2>9, <2>a
    <3> HIDE DEF o
    <3> QED
      BY <3>1, <3>2, WriteStep, ZenonT(60)
  <2>11. Tells(o)
    BY <1>2, <1>3, <2>6, <2>7, <2>8 DEF Tells, ObjOf, TiedOf, ToldOf, LookupRemote, history
  <2>12. PairStep
    BY <2>5, <2>8, <2>11, PairAt DEF LookupRemote, history
  <2>13. VolumeStep
    BY <2>1, <2>6, ZenonT(60) DEF VolumeStep
  <2> QED
    BY <2>10, <2>12, <2>13 DEF Good
<1>4. CASE ~(Present(o) /\ policy = "delete" /\ ~pv[o].dreq)
  <2>1. /\ pv' \in [Sites -> PV] /\ fresh' \in [Sites -> SUBSET Clients]
        /\ \A t \in Sites : pv'[t] = pv[t] /\ fresh'[t] \subseteq fresh[t]
    BY <1>4, NoWriteFacts DEF IInv, LookupRemote
  <2>2. \A t \in Sites : Same(t) /\ Held(t)' = Held(t) /\ Present(t)' = Present(t)
    BY <2>1, ZenonT(60) DEF Same, Held, Present
  <2>3. PICK step \in {"idle", "removeFin"} :
          /\ Ctl(s, step)
          /\ step = "removeFin" => pv[s].sync # "requested"
          /\ step = "removeFin" /\ policy = "delete" => ~Present(o)
    BY <1>4 DEF LookupRemote
  <2>4. /\ ctl' \in [Sites -> [pc : CtlSteps, known : BOOLEAN, rg : BOOLEAN]]
        /\ ctl'[s].pc = step /\ \A t \in Sites : t # s => ctl'[t] = ctl[t]
    BY <2>3, CtlFacts, ZenonT(60) DEF IInv, CtlSteps
  <2>5. TypeOK'
    BY <2>1, <2>4 DEF IInv, TypeOK, LookupRemote, history
  <2>6. DeletionInv' /\ SidecarInv'
    BY <2>1 DEF IInv, DeletionInv, SidecarInv, Requested, LookupRemote, history
  <2>7. ReconcileInv'
    <3>1. "ctl" \in fresh[s] => pv[s].del
      BY DEF IInv, ReconcileInv, Justified, LookupRemote
    <3>2. Held(o) => Present(o)
      BY ZenonT(60) DEF Held
    <3>3. asked' = asked /\ policy' = policy
      BY DEF LookupRemote, history
    <3>4. \A t \in Sites : t # s => CtlQuiet(t)
      BY <2>1, <2>4, ZenonT(60) DEF CtlQuiet
    <3>5. Justified(s)'
      <4>1. /\ ctl'[s].pc = "lookup" => asked'[s]
            /\ ctl'[s].pc = "delete" => asked'[s] \/ (Present(s)' /\ pv'[s].dreq /\ ~pv'[s].del)
        BY <2>1, <2>2, <2>3, <2>4, <3>1, <3>3, <1>2, ZenonT(60)
      <4>2. /\ ctl'[s].pc = "addFin" /\ "ctl" \in fresh'[s] => ~pv'[s].del
            /\ ctl'[s].pc \in {"lookup", "removeFin"} /\ "ctl" \in fresh'[s] => pv'[s].del
        BY <2>1, <2>2, <2>3, <2>4, <3>1, <3>3, <1>2, ZenonT(60)
      <4>3. ctl'[s].pc = "removeFin" /\ "ctl" \in fresh'[s] =>
              /\ pv'[s].sync # "requested"
              /\ policy' = "delete" /\ pv'[s].peer /\ ~pv'[s].dreq => ~Held(Other(s))'
        BY <2>1, <2>2, <2>3, <2>4, <3>2, <3>3, ZenonT(60)
      <4> QED
        BY <4>1, <4>2, <4>3, ZenonT(60) DEF Justified
    <3> QED
      BY <2>2, <3>3, <3>4, <3>5, CtlRests DEF IInv, ReconcileInv
  <2>8. VolumeStep /\ PairStep
    BY <2>2, PairStutters DEF VolumeStep, Same, LookupRemote, history
  <2> QED
    BY <2>5, <2>6, <2>7, <2>8 DEF Good, IInv
<1> QED
  BY <1>3, <1>4

\* A missing replica is made; one that is there is read.
LEMMA SyncRemoteStep == ASSUME IInv, NEW s \in Sites, SyncRemote(s) PROVE Good
<1> DEFINE o == Other(s)
           c == Replica(ctl[s].known)
           Type == [pc : CtlSteps, known : BOOLEAN, rg : BOOLEAN]
<1> USE OtherFacts
<1>1. c \in PV /\ pv[o] \in PV
  BY WrittenPVs, ZenonT(60) DEF IInv, TypeOK
<1>2. /\ ctl' \in [Sites -> Type] /\ ctl'[s].pc \in {"details", "idle"}
      /\ \A t \in Sites : t # s => ctl'[t] = ctl[t]
  <2>1. CASE Ctl(s, "idle")
    BY <2>1, CtlFacts, SMTT(60) DEF IInv, CtlSteps
  <2>2. CASE \E b \in BOOLEAN :
               ctl' = [ctl EXCEPT ![s] = [pc |-> "details", known |-> ctl[s].known, rg |-> b]]
    BY <2>2, SMTT(60) DEF IInv, TypeOK, CtlSteps
  <2>3. ctl[s].known \in BOOLEAN /\ pv[o].rg \in BOOLEAN
    BY <1>1, ZenonT(60) DEF IInv, TypeOK, PV
  <2> QED
    BY <2>1, <2>2, <2>3, ZenonT(60) DEF SyncRemote
<1>3. \A t \in Sites : SideQuiet(t)
  BY SideRests, ZenonT(60) DEF SyncRemote
<1>4. CASE pv[o].st = "absent" /\ Put(o, c, "peer") /\ ctl'[s].pc = "details"
  <2>1. /\ pv' \in [Sites -> PV] /\ fresh' \in [Sites -> SUBSET Clients]
        /\ pv'[o] = c /\ "ctl" \notin fresh'[o]
        /\ \A t \in Sites : t # o => pv'[t] = pv[t] /\ fresh'[t] \subseteq fresh[t]
    BY <1>1, <1>4, PutFacts, SMTT(60) DEF IInv
  <2>2. TypeOK'
    BY <2>1, <1>2, ZenonT(60) DEF IInv, TypeOK, SyncRemote, history
  <2>3. CtlQuiet(s) /\ Same(s) /\ Other(o) = s
    BY <1>4, <2>1, ZenonT(60) DEF CtlQuiet, Same
  <2>4. /\ ~pv'[o].del /\ pv'[o].st = "present" /\ pv'[o].fin = TRUE /\ ~pv'[o].dreq
        /\ pv'[o].peer = TRUE /\ pv'[o].sync = "none"
    BY <2>1 DEF Replica, NoPV
  <2>5. ~Held(o) /\ Held(o)' /\ ~Present(o)
    BY <1>4, <2>4, ZenonT(60) DEF Held, Present
  <2>6. ctl[o].pc \in {"lookup", "delete"} => asked[o]
    BY <2>5, ZenonT(60) DEF IInv, ReconcileInv, Justified
  <2>7. IInv'
    <3>1. UNCHANGED <<policy, asked, array>>
      BY ZenonT(60) DEF SyncRemote, history
    <3>2. ctl'[o] = ctl[o] /\ ~pv'[o].del /\ ~pv'[o].dreq /\ pv'[o].sync = "none"
      BY <1>2, <2>4, ZenonT(60)
    <3>3. o \in Sites /\ CtlQuiet(Other(o)) /\ Same(Other(o))
      BY <2>3, ZenonT(60)
    <3>4. /\ ctl'[Other(o)].pc # "removeFin" /\ (ctl'[o].pc \in {"lookup", "delete"} => asked'[o])
      BY <1>2, <2>3, <2>6, <3>1, <3>2, ZenonT(60)
    <3> QED
      BY <1>3, <2>1, <2>2, <3>1, <3>2, <3>3, <3>4, WriteStep, ZenonT(60)
  <2>8. Makes(o)
    BY <2>4, <2>5, ZenonT(60) DEF Makes, ObjOf, TiedOf, ToldOf, SyncRemote, history
  <2>9. PairStep
    BY <2>3, <2>8, PairAt, ZenonT(60) DEF SyncRemote, history
  <2>10. VolumeStep
    BY <2>1, <2>4, ZenonT(60) DEF VolumeStep
  <2> QED
    BY <2>7, <2>9, <2>10 DEF Good
<1>5. CASE NoWrite \/ Read(o, "peer")
  <2>1. /\ pv' \in [Sites -> PV] /\ fresh' \in [Sites -> SUBSET Clients]
        /\ \A t \in Sites : pv'[t] = pv[t] /\ ("ctl" \in fresh'[t] => "ctl" \in fresh[t])
    BY <1>5, NoWriteFacts, ReadFacts, ZenonT(60) DEF IInv, Clients
  <2>2. TypeOK'
    BY <2>1, <1>2, ZenonT(60) DEF IInv, TypeOK, SyncRemote, history
  <2>3. \A t \in Sites : Same(t) /\ CtlQuiet(t)
    BY <2>1, <1>2, ZenonT(60) DEF Same, CtlQuiet
  <2> QED
    BY <1>3, <2>2, <2>3, QuietStep, ZenonT(60) DEF SyncRemote, history
<1> QED
  <2>1. ctl' = [ctl EXCEPT ![s] = [pc |-> "details", known |-> @.known, rg |-> @.known]] =>
          ctl'[s].pc = "details"
    BY DEF IInv, TypeOK
  <2> QED
    BY <2>1, <1>4, <1>5, ZenonT(60) DEF SyncRemote

-----------------------------------------------------------------------------
(* The theorems.                                                             *)

\* The first states satisfy the invariant and are first states of the pair.
LEMMA InitGood == Init => IInv /\ Pair!Init
<1> SUFFICES ASSUME Init PROVE IInv /\ Pair!Init
  OBVIOUS
<1>1. PICK t \in {"absent", "foreign"} :
        pv = [src |-> [NoPV EXCEPT !.st = "present"], tgt |-> [NoPV EXCEPT !.st = t]]
  BY DEF Init
<1>2. /\ pv["src"] = [NoPV EXCEPT !.st = "present"] /\ pv["tgt"] = [NoPV EXCEPT !.st = t]
      /\ DOMAIN pv = Sites
  BY <1>1 DEF Sites
<1>3. pv \in [Sites -> PV]
  <2>1. [NoPV EXCEPT !.st = "present"] \in PV /\ [NoPV EXCEPT !.st = t] \in PV
    BY ZenonT(60) DEF NoPV, PV
  <2>2. \A s \in Sites : pv[s] \in PV
    BY <1>2, <2>1 DEF Sites
  <2>3. pv = [s \in Sites |-> pv[s]]
    BY <1>1 DEF Sites
  <2> QED
    BY <2>2, <2>3
<1>4. \A s \in Sites : ~pv[s].del /\ ~pv[s].dreq /\ ~pv[s].peer /\ pv[s].sync = "none"
  BY <1>2 DEF Sites, NoPV
<1>5. TypeOK
  <2>1. array \in [Sites -> {"none", "live", "deleted"}]
    BY DEF Init, Sites
  <2>2. ctl \in [Sites -> [pc : CtlSteps, known : BOOLEAN, rg : BOOLEAN]]
    BY DEF Init, CtlSteps
  <2>3. side \in [Sites -> [pc : SideSteps, req : BOOLEAN]]
    BY DEF Init, SideSteps
  <2> QED
    BY <1>3, <2>1, <2>2, <2>3, ZenonT(60) DEF Init, TypeOK
<1>6. DeletionInv /\ ReconcileInv /\ SidecarInv
  BY <1>4 DEF Init, DeletionInv, ReconcileInv, Justified, SidecarInv, Sites
<1>7. Held("src") /\ ~Held("tgt")
  BY <1>1, <1>2 DEF Held, Present, NoPV
<1>8. Pair!Init
  <2>1. [s \in Sites |-> IF ~Held(s) THEN "absent" ELSE IF pv[s].del THEN "leaving" ELSE "live"]
          = [src |-> "live", tgt |-> "absent"]
    BY <1>4, <1>7, SMTT(60) DEF Sites
  <2>2. /\ [s \in Sites |-> Held(s) /\ pv[s].fin /\ pv[s].peer] = [s \in Sites |-> FALSE]
        /\ [s \in Sites |-> Held(s) /\ pv[s].dreq] = [s \in Sites |-> FALSE]
    BY <1>4, ZenonT(60)
  <2>3. policy \in {"retain", "delete"} /\ asked = [s \in Sites |-> FALSE]
    BY PVSyncAssumption DEF Init
  <2> QED
    BY <2>1, <2>2, <2>3, ZenonT(60) DEF Pair!Init, Pair!Sites, Sites
<1> QED
  BY <1>5, <1>6, <1>8 DEF IInv

\* Every step keeps the invariant, is a step of the pair and keeps the order of deletions.
LEMMA NextGood == IInv /\ [Next]_vars => Good
<1> SUFFICES ASSUME IInv, [Next]_vars PROVE Good
  OBVIOUS
<1>1. CASE LinkGroups
  BY <1>1, LinkGroupsStep
<1>2. ASSUME NEW s \in Sites, Controller(s) PROVE Good
  BY <1>2, ReconcileStep, LookupStep, RemoveFinalizerStep, AddFinalizerStep, DeleteOnRequestStep,
     SyncRemoteStep, DetailsStep, ProcessRemoteStep, ProcessLocalStep DEF Controller
<1>3. ASSUME NEW s \in Sites, Sidecar(s) PROVE Good
  BY <1>3, SideReconcileStep, CreateVolumeStep, ProtectionGroupStep, ProcessVolumeStep,
     MarkProtectedStep, DeleteVolumeStep, MarkCompleteStep DEF Sidecar
<1>4. ASSUME NEW s \in Sites,
             ReconcileFails(s) \/ SidecarFails(s) \/ UserDelete(s) \/ Finalize(s)
      PROVE Good
  BY <1>4, ReconcileFailsStep, SidecarFailsStep, UserDeleteStep, FinalizeStep
<1>5. CASE UNCHANGED vars
  <2>1. TypeOK'
    BY <1>5, ZenonT(60) DEF IInv, TypeOK, vars, history
  <2>2. \A s \in Sites : Same(s) /\ CtlQuiet(s) /\ SideQuiet(s)
    BY <1>5, SideRests, ZenonT(60) DEF vars, Same, CtlQuiet
  <2> QED
    BY <1>5, <2>1, <2>2, QuietStep DEF vars, history
<1> QED
  BY <1>1, <1>2, <1>3, <1>4, <1>5 DEF Next

\* The invariant holds in every reachable state: what a reconciler read before it lost the
\* race for a PV never makes it delete, tell or release the wrong one.
THEOREM Inductive == Spec => []IInv
<1>1. Init => IInv
  BY InitGood
<1>2. IInv /\ [Next]_vars => IInv'
  BY NextGood DEF Good
<1> QED
  BY <1>1, <1>2, PTL DEF Spec

\* Every variable keeps its type.
THEOREM TypeCorrect == Spec => []TypeOK
<1>1. IInv => TypeOK
  BY DEF IInv
<1> QED
  BY <1>1, Inductive, PTL

\* DeleteLocalVolume never deletes a volume whose peer's PV no user deleted, or under "retain",
\* in whatever order reads, writes, conflicts, failures and restarts come.
THEOREM VolumeIsKept == Spec => []VolumeKept
<1>1. IInv => VolumeKept
  BY ZenonT(60) DEF IInv, DeletionInv, VolumeKept, Requested
<1> QED
  BY <1>1, Inductive, PTL

\* A PV that was told to leave keeps its finalizer until its backend volume is deleted.
THEOREM VolumeGoesFirst == Spec => VolumeBeforePV
<1>1. IInv /\ [Next]_vars =>
        [\A s \in Sites : pv[s].fin /\ pv[s].dreq /\ ~pv'[s].fin => array[s] = "deleted"]_vars
  BY NextGood DEF Good, VolumeStep
<1> QED
  BY <1>1, Inductive, PTL DEF Spec, VolumeBeforePV

\* The reconcilers of the two clusters implement PairLifecycle: no PV is deleted that no user
\* asked for, and under "delete" a linked PV outlives its peer.
THEOREM Refinement == Spec => ImplementsPair
<1>1. Init => Pair!Init
  BY InitGood
<1>2. IInv /\ [Next]_vars => [Pair!Next]_(Pair!vars)
  BY NextGood DEF Good, PairStep
<1> QED
  BY <1>1, <1>2, Inductive, PTL DEF Spec, ImplementsPair, Pair!Spec

=============================================================================
