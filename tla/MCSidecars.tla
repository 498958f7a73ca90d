----------------------------- MODULE MCSidecars -----------------------------
(* Three parts of the sidecars that share no state: the limiter of driver    *)
(* calls of csi-replicator (three workers, three groups and a limit of two:  *)
(* every refusal happens), the migration of a group (MigrationGroup) and the *)
(* migration of volumes (VolumeMigration) with csi-migrator.  A behaviour    *)
(* exercises one of them, chosen at the start, while the others rest in one  *)
(* of their initial states.                                                  *)
EXTENDS PendingState

CONSTANTS MigrationGroups, Nodes, ListErrors, Volumes, MaxCommands

VARIABLES
  mg, pc, fresh, AllSynced, label, npc, array, rescanned,
  pv, mig, data, claim, pod, sts, rec, current, cmd, go, count, recycled,
  part        \* the part that the behaviour exercises

groupVars == <<mg, pc, fresh, AllSynced, label, npc, array, rescanned>>
volumeVars == <<pv, mig, data, claim, pod, sts, rec, current, cmd, go, count, recycled>>

M == INSTANCE MigrationGroup WITH Groups <- MigrationGroups
V == INSTANCE VolumeMigration WITH fresh <- current

InitParts ==
  /\ Init /\ M!Init /\ V!Init
  /\ part \in {"limiter", "group", "volumes"}
  /\ part # "volumes" => \A v \in Volumes :
       mig[v] = "none" /\ pv[v].phase = "none" /\ pv[v].policy = "Retain"

NextOfPart ==
  \/ part = "limiter" /\ Next /\ UNCHANGED <<groupVars, volumeVars, part>>
  \/ part = "group" /\ M!Next /\ UNCHANGED <<vars, volumeVars, part>>
  \/ part = "volumes" /\ V!Next /\ UNCHANGED <<vars, groupVars, part>>

Parts == InitParts /\ [][NextOfPart]_<<vars, groupVars, volumeVars, part>>

-----------------------------------------------------------------------------

\* The state of a group never runs ahead of what the array did (MigrationGroup).
StateNotAhead == M!StateNotAhead

\* A single group is committed only after every node has gone through its SCSI hosts
\* since the array migrated the volumes (MigrationGroup).
RescannedBeforeCommit == M!RescannedBeforeCommit

\* A migration that was started ends once the faults do (MigrationGroup).
MigrationEnds == part = "group" /\ M!Fairness => M!MigrationEnds

\* The data of a volume whose claim a command deletes is not lost (VolumeMigration).
DataKept == V!DataKept

\* A request that the migrator can serve is served once calls stop failing
\* (VolumeMigration).
VolumeMigrationEnds == part = "volumes" /\ V!Fairness => V!VolumeMigrationEnds
=============================================================================
