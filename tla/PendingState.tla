---------------------------- MODULE PendingState ----------------------------
(***************************************************************************)
(* The limiter in front of the storage driver: connection.PendingState     *)
(* (pkg/connection/pending.go) as the replication client uses it           *)
(* (pkg/csi-clients/replication/replication.go).  csi-replicator makes a   *)
(* client for each of its controllers (cmd/csi-replicator/main.go), and    *)
(* every client has a limiter of its own.  Two of them make limited calls: *)
(* the one of the group reconciler, whose workers execute actions and      *)
(* delete protection groups, and the one of the monitor, a single          *)
(* goroutine that asks for the status.  Each locked region is one step;    *)
(* the call to the driver lies between two of them, and ends with an       *)
(* answer, an error or the timeout of its context.                         *)
(***************************************************************************)
EXTENDS Integers, FiniteSets

CONSTANTS
  Reconcilers,  \* workers of the group reconciler
  Monitor,      \* the goroutine of the monitor
  Groups,       \* protection group ids
  MaxPending,   \* PendingState.MaxPending; 0 means no limit
  NoGroup       \* no group

ASSUME PendingAssumption ==
  /\ IsFiniteSet(Reconcilers)
  /\ Monitor \notin Reconcilers
  /\ MaxPending \in Nat
  /\ NoGroup \notin Groups

Callers == Reconcilers \cup {Monitor}
Clients == {"groups", "monitoring"}
Client(c) == IF c = Monitor THEN "monitoring" ELSE "groups"

VARIABLES
  npending,     \* npending[k]: PendingState.npending of client k
  pendingMap,   \* pendingMap[k]: the keys of its PendingState.pendingMap
  calling,      \* calling[c]: the group whose call c has at the driver
  answer        \* answer[c]: how the last request of c ended

vars == <<npending, pendingMap, calling, answer>>

Answers == [how : {"none", "pending", "overload", "returned"}, rg : Groups \cup {NoGroup}]

\* csireplication.New.
Init ==
  /\ npending = [k \in Clients |-> 0]
  /\ pendingMap = [k \in Clients |-> {}]
  /\ calling = [c \in Callers |-> NoGroup]
  /\ answer = [c \in Callers |-> [how |-> "none", rg |-> NoGroup]]

Answer(c, how, g) == answer' = [answer EXCEPT ![c] = [how |-> how, rg |-> g]]

-----------------------------------------------------------------------------
(* Mutated forms of the definitions below.                                  *)

OverloadedLate(k) == MaxPending > 0 /\ npending[k] > MaxPending

Overloaded(k) == MaxPending > 0 /\ npending[k] >= MaxPending

Admit(k, c, g) ==
  /\ pendingMap' = [pendingMap EXCEPT ![k] = @ \cup {g}]
  /\ npending' = [npending EXCEPT ![k] = @ + 1]
  /\ calling' = [calling EXCEPT ![c] = g]
  /\ Answer(c, "none", g)

\* The start time is read before the lock is taken: a group that became pending in
\* between is not seen.
CheckUnlocked(k, c, g) ==
  \/ /\ Overloaded(k)
     /\ Answer(c, "overload", g)
     /\ UNCHANGED <<npending, pendingMap, calling>>
  \/ ~Overloaded(k) /\ Admit(k, c, g)

ClearMapOnly(k, g) ==
  /\ pendingMap' = [pendingMap EXCEPT ![k] = @ \ {g}]
  /\ UNCHANGED npending

-----------------------------------------------------------------------------
(* The limiter of client k.                                                 *)

\* The outcome of CheckAndUpdatePendingState for a call of c on group g.
CheckAndUpdatePendingState(k, c, g) ==
  \/ /\ g \in pendingMap[k]
     /\ Answer(c, "pending", g)
     /\ UNCHANGED <<npending, pendingMap, calling>>
  \/ /\ g \notin pendingMap[k] /\ Overloaded(k)
     /\ Answer(c, "overload", g)
     /\ UNCHANGED <<npending, pendingMap, calling>>
  \/ /\ g \notin pendingMap[k] /\ ~Overloaded(k)
     /\ Admit(k, c, g)

ClearPending(k, g) ==
  /\ pendingMap' = [pendingMap EXCEPT ![k] = @ \ {g}]
  /\ npending' = [npending EXCEPT ![k] = @ - 1]

-----------------------------------------------------------------------------
(* The calls of the replication clients that are limited.                   *)

\* A method of a client asks its limiter first and calls the driver when admitted.
Request(c, g) == calling[c] = NoGroup /\ CheckAndUpdatePendingState(Client(c), c, g)

GetStorageProtectionGroupStatus(g) == Request(Monitor, g)
ExecuteAction(c, g) == Request(c, g)
DeleteStorageProtectionGroup(c, g) == Request(c, g)

\* The driver answers, fails or the context times out; the deferred ClearPending runs
\* on each of these returns.
Return(c) ==
  /\ calling[c] # NoGroup
  /\ ClearPending(Client(c), calling[c])
  /\ calling' = [calling EXCEPT ![c] = NoGroup]
  /\ Answer(c, "returned", calling[c])

Next ==
  \/ \E c \in Callers : Return(c)
  \/ \E g \in Groups :
       \/ GetStorageProtectionGroupStatus(g)
       \/ \E c \in Reconcilers : ExecuteAction(c, g) \/ DeleteStorageProtectionGroup(c, g)

Spec == Init /\ [][Next]_vars

-----------------------------------------------------------------------------
(* Properties.                                                              *)

\* The callers whose request is at the driver, and those of client k.
Busy == {c \in Callers : calling[c] # NoGroup}
BusyOf(k) == {c \in Busy : Client(c) = k}

\* Every variable has its type; no counter drops below zero, which the unconditional
\* decrement of ClearPending does not ensure by itself.
TypeOK ==
  /\ npending \in [Clients -> Nat]
  /\ pendingMap \in [Clients -> SUBSET Groups]
  /\ calling \in [Callers -> Groups \cup {NoGroup}]
  /\ answer \in [Callers -> Answers]

\* Two requests of the group reconciler for one protection group are never at the driver
\* together: an action never overlaps a deletion or another action, also when two
\* replication groups name one protection group and two workers reconcile them.  A status
\* query of the monitor, whose client has another limiter, may overlap either.
OneCallPerGroup ==
  \A c, d \in Busy : Client(c) = Client(d) /\ calling[c] = calling[d] => c = d

\* With a limit, no client has more than MaxPending requests at the driver at a time;
\* together with the monitor's it can be one more.
WithinLimit == MaxPending > 0 => \A k \in Clients : Cardinality(BusyOf(k)) <= MaxPending

\* A request is refused only for a reason that is there: "pending" while another request
\* of the same client for that group is at the driver, "overload" while MaxPending of its
\* requests are.  No entry of a map and no count outlives its call, so a group never stays
\* locked, a limiter never closes for good, and the monitor is never refused.
RefusedOnlyWhileBusy ==
  [][\A c \in Callers : answer'[c] # answer[c] =>
       /\ answer'[c].how = "pending" =>
            \E d \in BusyOf(Client(c)) \ {c} : calling[d] = answer'[c].rg
       /\ answer'[c].how = "overload" =>
            Cardinality(BusyOf(Client(c))) = MaxPending]_vars

=============================================================================
