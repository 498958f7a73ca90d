------------------------------- MODULE Repctl -------------------------------
(***************************************************************************)
(* A repctl command that requests an action of a replication group and,    *)
(* with --wait, polls the group (repctl/pkg/cmd: failover.go, failback.go, *)
(* reprotect.go, swap.go, snapshot.go, action.go).  Around it the two      *)
(* groups of the replication, each with its sidecar, as far as the command *)
(* can tell: Spec.Action, the role and the time of the last update of the  *)
(* link state.  The two are in one cluster under two names, or in two      *)
(* clusters under one, and the targets are given as the help texts say: a  *)
(* cluster when there are two, else a group.                               *)
(*                                                                         *)
(* Times are compared only with the one the command has read: "moved" says *)
(* whether it has changed since.  The driver decides on the roles.         *)
(***************************************************************************)
Sites == {"s1", "s2"}
Peer(s) == CHOOSE t \in Sites : t # s

\* failover is the planned one, unplanned the other; exec is any maintenance action.
Kinds == {"failover", "unplanned", "failback", "reprotect", "swap", "snapshot", "exec"}

VARIABLES
  single,   \* both groups are in one cluster
  empty,    \* the groups have no volumes
  rg,       \* rg[s]: the group at site s
  cmd       \* the command

vars == <<single, empty, rg, cmd>>

RG == [action : BOOLEAN,                       \* Spec.Action is set
       phase  : {"ready", "running", "done"},  \* what the sidecar has recorded
       src    : BOOLEAN,                       \* ReplicationLinkState.IsSource
       lsu    : BOOLEAN]                       \* LastSuccessfulUpdate is set

Command == [pc : {"idle", "find", "next", "source", "write", "wait"},
            kind : Kinds,
            arg : Sites,        \* the site of the group it looks at
            at : Sites,         \* where it writes
            poll : Sites,       \* where it polls
            wait : BOOLEAN,     \* --wait
            fresh : BOOLEAN,    \* its copy of the group at "at" is current
            moved : BOOLEAN,    \* LastSuccessfulUpdate changed at "poll"
            cleared : BOOLEAN]  \* history: Spec.Action at "at" was reset since the write

NoCommand == [pc |-> "idle", kind |-> "exec", arg |-> "s1", at |-> "s1", poll |-> "s1",
              wait |-> FALSE, fresh |-> FALSE, moved |-> FALSE, cleared |-> FALSE]

Init ==
  /\ single \in BOOLEAN /\ empty \in BOOLEAN
  /\ rg \in [Sites -> {g \in RG : ~g.action /\ g.phase = "ready"}]
  /\ cmd = NoCommand

-----------------------------------------------------------------------------
(* The command.                                                              *)

\* What a command requires of the group it looks at: the role it accepts, and whether the
\* link state must have been set.  The commands at a cluster compare IsSource, the ones
\* at an RG search with a filter.
FailoverToRG == [roles |-> {FALSE}, link |-> TRUE]

\* A planned failover to a cluster looks at the link state of the source only.
FailoverToCluster == [roles |-> {FALSE}, link |-> cmd.kind = "unplanned"]

FailbackToRG == [roles |-> {TRUE}, link |-> TRUE]
FailbackToCluster == [roles |-> {TRUE}, link |-> TRUE]

ReprotectAtRG == [roles |-> BOOLEAN, link |-> TRUE]
ReprotectAtCluster == [roles |-> BOOLEAN, link |-> TRUE]

\* The empty filter that swapAtRG passes is replaced by "src".
SwapAtRG == [roles |-> {TRUE}, link |-> TRUE]
SwapAtCluster == [roles |-> BOOLEAN, link |-> TRUE]

CreateSnapshot == [roles |-> {TRUE}, link |-> TRUE]
ExecAction == [roles |-> {TRUE}, link |-> FALSE]

\* With one cluster the target that is given is an RG, with two it is a cluster.
VerifyInputForFailoverAction(byRG, byCluster) == IF single THEN byRG ELSE byCluster
VerifyInputForAction(byRG, byCluster) == IF single THEN byRG ELSE byCluster

Required ==
  CASE cmd.kind \in {"failover", "unplanned"} ->
         VerifyInputForFailoverAction(FailoverToRG, FailoverToCluster)
    [] cmd.kind = "failback" -> VerifyInputForFailoverAction(FailbackToRG, FailbackToCluster)
    [] cmd.kind = "reprotect" -> VerifyInputForAction(ReprotectAtRG, ReprotectAtCluster)
    [] cmd.kind = "swap" -> VerifyInputForAction(SwapAtRG, SwapAtCluster)
    [] cmd.kind = "snapshot" -> CreateSnapshot
    [] cmd.kind = "exec" -> ExecAction

Fits(s) == rg[s].src \in Required.roles /\ (Required.link => rg[s].lsu)

\* Commands that look for a name in all clusters, one after the other.
Searches == ~single /\ cmd.kind \in {"snapshot", "exec"}

Start ==
  /\ cmd.pc = "idle"
  /\ \E k \in Kinds, s \in Sites, w \in BOOLEAN :
       /\ k = "exec" => ~w
       /\ cmd' = [NoCommand EXCEPT !.pc = "find", !.kind = k, !.arg = s, !.wait = w]
  /\ UNCHANGED <<single, empty, rg>>

\* The group is read and written at one site, or, for a planned failover, the other
\* group is still to be read.
Found(s) ==
  IF cmd.kind = "failover"
  THEN cmd' = [cmd EXCEPT !.pc = "source", !.poll = s, !.at = Peer(s), !.moved = FALSE]
  ELSE cmd' = [cmd EXCEPT !.pc = "write", !.poll = s, !.at = s, !.fresh = TRUE,
                          !.moved = FALSE]

\* A search skips a cluster in which the group has another role or cannot be read.
Find ==
  /\ cmd.pc = "find"
  /\ \/ Fits(cmd.arg) /\ Found(cmd.arg)
     \/ Searches /\ cmd' = [cmd EXCEPT !.pc = "next", !.arg = Peer(cmd.arg)]
  /\ UNCHANGED <<single, empty, rg>>

\* The second cluster.
FindNext ==
  /\ cmd.pc = "next" /\ Fits(cmd.arg)
  /\ Found(cmd.arg)
  /\ UNCHANGED <<single, empty, rg>>

\* A planned failover reads the source group.  In one cluster it goes on comparing with,
\* and polling, the target group.
ReadSource ==
  /\ cmd.pc = "source"
  /\ IF single
     THEN cmd' = [cmd EXCEPT !.pc = "write", !.fresh = TRUE]
     ELSE /\ rg[cmd.at].lsu
          /\ cmd' = [cmd EXCEPT !.pc = "write", !.fresh = TRUE, !.poll = cmd.at,
                                !.moved = FALSE]
  /\ UNCHANGED <<single, empty, rg>>

\* Mutant: the action is patched into whatever version of the group is there.
WritePatch ==
  /\ cmd.pc = "write"
  /\ rg' = [rg EXCEPT ![cmd.at].action = TRUE]
  /\ cmd' = IF cmd.wait THEN [cmd EXCEPT !.pc = "wait"] ELSE NoCommand
  /\ UNCHANGED <<single, empty>>

\* UpdateReplicationGroup; Spec.Action is overwritten whatever it was.
Write ==
  /\ cmd.pc = "write" /\ cmd.fresh
  /\ rg' = [rg EXCEPT ![cmd.at].action = TRUE]
  /\ cmd' = IF cmd.wait THEN [cmd EXCEPT !.pc = "wait"] ELSE NoCommand
  /\ UNCHANGED <<single, empty>>

\* waitForStateToUpdate: a tick finds the time changed, and success is reported.
Succeed ==
  /\ cmd.pc = "wait" /\ cmd.moved
  /\ cmd' = NoCommand
  /\ UNCHANGED <<single, empty, rg>>

\* The time is over, or the group cannot be read: Fatal.  Times have seconds, so a change
\* may also go unnoticed.
TimeOut ==
  /\ cmd.pc = "wait"
  /\ cmd' = NoCommand
  /\ UNCHANGED <<single, empty, rg>>

\* The group is not found or has the wrong role, its link state was never set, the
\* update conflicts, or a call fails: Fatal.
Exit ==
  /\ cmd.pc \notin {"idle", "wait"}
  /\ cmd' = NoCommand
  /\ UNCHANGED <<single, empty, rg>>

-----------------------------------------------------------------------------
(* The sidecar at s.  A write makes the copy of the command stale.           *)

Stamp(s, g, moves) ==
  /\ rg' = [rg EXCEPT ![s] = g]
  /\ cmd' = [cmd EXCEPT
       !.fresh = @ /\ cmd.at # s,
       !.moved = @ \/ (moves /\ cmd.pc # "idle" /\ cmd.poll = s),
       !.cleared = @ \/ (cmd.pc = "wait" /\ cmd.at = s /\ ~g.action)]
  /\ UNCHANGED <<single, empty>>

\* processRG: the action is accepted, or reset since it is not supported.
Accept(s) ==
  /\ rg[s].phase = "ready" /\ rg[s].action
  /\ \/ Stamp(s, [rg[s] EXCEPT !.phase = "running"], FALSE)
     \/ Stamp(s, [rg[s] EXCEPT !.action = FALSE], FALSE)

\* updateRGSpecWithActionResult: a success or a final error.
Finish(s) ==
  /\ rg[s].phase = "running"
  /\ Stamp(s, [rg[s] EXCEPT !.phase = "done", !.action = FALSE], FALSE)

\* The result is not in the status yet: an action requested since is dropped.
DropAction(s) ==
  /\ rg[s].phase = "done" /\ rg[s].action
  /\ Stamp(s, [rg[s] EXCEPT !.action = FALSE], FALSE)

\* updateRGStatusWithActionResult; the link state is left alone after a final error.
Report(s) ==
  /\ rg[s].phase = "done" /\ ~rg[s].action
  /\ \/ Stamp(s, [rg[s] EXCEPT !.phase = "ready"], FALSE)
     \/ \E role \in BOOLEAN :
          Stamp(s, [rg[s] EXCEPT !.phase = "ready", !.src = role, !.lsu = TRUE], TRUE)

\* Mutant: groups with an action are not skipped.
UpdateAlways(s) == TRUE

IsUpdateRequired(s) == empty \/ ~rg[s].lsu \/ ~rg[s].action

\* The monitor reads the group, asks the driver and updates what it read; an error of the
\* driver leaves role and time as they were.
Monitor(s) ==
  /\ IsUpdateRequired(s)
  /\ \/ Stamp(s, rg[s], FALSE)
     \/ \E role \in IF empty THEN {rg[s].src} ELSE BOOLEAN :
          Stamp(s, [rg[s] EXCEPT !.src = role, !.lsu = TRUE], TRUE)

\* Another repctl, or a user, requests an action.
OtherClient(s) == Stamp(s, [rg[s] EXCEPT !.action = TRUE], FALSE)

-----------------------------------------------------------------------------

Run == Find \/ FindNext \/ ReadSource \/ Write \/ Succeed \/ TimeOut \/ Exit

Next ==
  \/ Start \/ Run
  \/ \E s \in Sites : Accept(s) \/ Finish(s) \/ DropAction(s) \/ Report(s) \/ Monitor(s)
                      \/ OtherClient(s)

Spec == Init /\ [][Next]_vars

-----------------------------------------------------------------------------

\* Type invariant.
TypeOK ==
  /\ single \in BOOLEAN /\ empty \in BOOLEAN
  /\ rg \in [Sites -> RG] /\ cmd \in Command

PlannedInOneCluster == single /\ cmd.kind = "failover"

\* An action is requested only of a group that has the role the command checked, and a
\* link state, at the time of the request, although both are read before and the
\* sidecar may change them (the checks of IsSource and LastSuccessfulUpdate in the
\* commands).  A planned failover checks the role of the other group, and in one
\* cluster also the link state.
RequestFits ==
  [][Write => /\ cmd.kind # "failover" => rg[cmd.at].src \in Required.roles
              /\ cmd.kind = "exec" \/ PlannedInOneCluster \/ rg[cmd.at].lsu]_vars

\* When a command reports success after waiting, the action it requested is no longer set:
\* the sidecar has finished, refused or dropped it.  The time it waits for is also renewed
\* by the monitor, which must not do so while an action is set (isUpdateRequired).  A
\* planned failover in one cluster waits for the wrong group, and groups without volumes
\* are always renewed.
SuccessMeansFinished ==
  [][Succeed => cmd.cleared \/ PlannedInOneCluster \/ empty]_vars
=============================================================================
