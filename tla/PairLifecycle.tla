---------------------------- MODULE PairLifecycle ----------------------------
(***************************************************************************)
(* What the replication-controllers promise about a pair of objects, one   *)
(* on each cluster, that stand for the two ends of a replication: PVs      *)
(* (PVSync) and replication groups (RGSync).  With the policy "retain" an  *)
(* object leaves only when its own user deletes it.  With "delete" it also *)
(* leaves when the user deletes its peer, and an object that is tied to    *)
(* its peer and was not told to leave stays until the peer is gone.        *)
(***************************************************************************)

VARIABLES
  obj,     \* obj[s]: "absent", "live" or "leaving"
  tied,    \* tied[s]: the object at s knows its peer and cannot go without it
  told,    \* told[s]: the object at s was told by its peer to leave
  asked,   \* asked[s]: a user deleted an object at s
  policy   \* the retention policy, fixed for the pair

vars == <<obj, tied, told, asked, policy>>

Sites == {"src", "tgt"}
Other(s) == IF s = "src" THEN "tgt" ELSE "src"

Init ==
  /\ obj = [src |-> "live", tgt |-> "absent"]
  /\ tied = [s \in Sites |-> FALSE]
  /\ told = [s \in Sites |-> FALSE]
  /\ asked = [s \in Sites |-> FALSE]
  /\ policy \in {"retain", "delete"}

\* A controller makes the peer of its object.
Replicate(s) ==
  /\ obj[s] = "absent"
  /\ obj' = [obj EXCEPT ![s] = "live"]
  /\ \E b \in BOOLEAN : tied' = [tied EXCEPT ![s] = b]
  /\ UNCHANGED <<told, asked, policy>>

Tie(s) ==
  /\ obj[s] # "absent"
  /\ tied' = [tied EXCEPT ![s] = TRUE]
  /\ UNCHANGED <<obj, told, asked, policy>>

\* Only a deletion by the peer's user, under "delete", tells an object to leave.
Tell(s) ==
  /\ obj[s] # "absent" /\ policy = "delete" /\ asked[Other(s)]
  /\ told' = [told EXCEPT ![s] = TRUE]
  /\ UNCHANGED <<obj, tied, asked, policy>>

Vanish(s) ==
  /\ obj' = [obj EXCEPT ![s] = "absent"]
  /\ tied' = [tied EXCEPT ![s] = FALSE]
  /\ told' = [told EXCEPT ![s] = FALSE]

\* An object that is not tied need not wait.
StartLeaving(s) ==
  \/ obj' = [obj EXCEPT ![s] = "leaving"] /\ UNCHANGED <<tied, told>>
  \/ ~tied[s] /\ Vanish(s)

UserDelete(s) ==
  /\ obj[s] = "live"
  /\ StartLeaving(s)
  /\ asked' = [asked EXCEPT ![s] = TRUE]
  /\ UNCHANGED policy

Leave(s) == obj[s] = "live" /\ told[s] /\ StartLeaving(s) /\ UNCHANGED <<asked, policy>>

Gone(s) ==
  /\ obj[s] = "leaving"
  /\ policy = "delete" /\ tied[s] /\ ~told[s] => obj[Other(s)] = "absent"
  /\ Vanish(s)
  /\ UNCHANGED <<asked, policy>>

Next ==
  \E s \in Sites :
    Replicate(s) \/ Tie(s) \/ Tell(s) \/ UserDelete(s) \/ Leave(s) \/ Gone(s)

Spec == Init /\ [][Next]_vars

=============================================================================
