---------------------------- MODULE RGLifecycle ----------------------------
(***************************************************************************)
(* What the sidecar promises about the replication actions of one group,   *)
(* whatever its interleaving with the user, the monitor and crashes: one   *)
(* action is accepted at a time; it finishes once, with a result that does *)
(* not change afterwards; that result is reported in the status before the *)
(* next action is accepted.                                                *)
(***************************************************************************)
CONSTANTS Actions, NoName

VARIABLES
  phase,   \* "idle", "accepted", "finished" or "reported"
  name,    \* the action accepted last
  ok,      \* its result, FALSE until it is known
  report   \* what the status says: action and result, or NoName

vars == <<phase, name, ok, report>>

Init == phase = "idle" /\ name = NoName /\ ok = FALSE /\ report = NoName

Accept(a) ==
  /\ phase \in {"idle", "reported"}
  /\ phase' = "accepted" /\ name' = a /\ ok' = FALSE /\ report' = NoName

Finish(success) ==
  /\ phase = "accepted"
  /\ phase' = "finished" /\ ok' = success
  /\ UNCHANGED <<name, report>>

Report ==
  /\ phase = "finished"
  /\ phase' = "reported" /\ report' = <<name, ok>>
  /\ UNCHANGED <<name, ok>>

Next ==
  \/ \E a \in Actions : Accept(a)
  \/ \E success \in BOOLEAN : Finish(success)
  \/ Report

Spec == Init /\ [][Next]_vars
=============================================================================
