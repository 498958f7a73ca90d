----------------------------- MODULE MCRequests -----------------------------
(* What becomes of a request for an action: the snapshots that the           *)
(* controllers take of a group (Snapshots) and the commands of repctl that   *)
(* request an action and wait for it (Repctl; the arrangement of the         *)
(* clusters is chosen at the start).  The two models share no state: a       *)
(* behaviour exercises one of them, while the other rests in one of its      *)
(* initial states.                                                           *)
EXTENDS Snapshots

VARIABLES
  single, empty, groups, cmd,
  part        \* the part that the behaviour exercises

commandVars == <<single, empty, groups, cmd>>

R == INSTANCE Repctl WITH rg <- groups

InitParts ==
  /\ Init /\ R!Init
  /\ part \in {"snapshots", "commands"}
  /\ part = "snapshots" =>
       single /\ empty /\ \A s \in R!Sites : groups[s].src /\ groups[s].lsu
  /\ part = "commands" => remote.ns = {}

NextOfPart ==
  \/ part = "snapshots" /\ Next /\ UNCHANGED <<commandVars, part>>
  \/ part = "commands" /\ R!Next /\ UNCHANGED <<vars, part>>

Parts == InitParts /\ [][NextOfPart]_<<vars, commandVars, part>>

-----------------------------------------------------------------------------

\* A result that was reported with its time is processed once calls stop failing, with
\* the exceptions of Snapshots.
SnapshotsEnd == part = "snapshots" /\ Fairness => SnapshotsTaken

\* An action is requested only of a group whose role and link state are the ones that
\* the command checked (Repctl).
RequestFits == R!RequestFits

\* A command that reports success after waiting has seen its action end (Repctl).
SuccessMeansFinished == R!SuccessMeansFinished
=============================================================================
