-------------------------- MODULE ConnectionProofs --------------------------
(**************************************************************************)
(* Proofs about what is shared by the workers of a process.  PendingState: *)
(* the limiters of driver calls, for any number of workers, any set of     *)
(* groups and any limit; the counter alone says nothing about the calls at *)
(* the driver, the inductive invariant Inv ties the map and the counter to *)
(* them.  Config: for any sets of clusters and workers no change is lost   *)
(* to an overlapping reload, the flag isInInvalidState matches the         *)
(* configuration in use, and the all-clear is true.                        *)
(**************************************************************************)
EXTENDS PendingState, FiniteSetTheorems, TLAPS

\* The map of a client holds the groups of its calls at the driver, each group once, and
\* its counter is the number of those calls.
Inv ==
  /\ TypeOK
  /\ \A k \in Clients : pendingMap[k] = {calling[c] : c \in BusyOf(k)}
  /\ \A k \in Clients : npending[k] = Cardinality(BusyOf(k))
  /\ OneCallPerGroup
  /\ WithinLimit

\* Every caller has a client.
LEMMA ClientType == \A c : Client(c) \in Clients
  BY DEF Client, Clients

\* The set of busy callers of a client is finite and its size a natural number.
LEMMA BusyFinite == \A k : IsFiniteSet(BusyOf(k)) /\ Cardinality(BusyOf(k)) \in Nat
<1> TAKE k
<1>1. IsFiniteSet(Callers)
  BY PendingAssumption, FS_AddElement DEF Callers
<1>2. BusyOf(k) \subseteq Callers
  BY DEF Busy, BusyOf
<1> QED
  BY <1>1, <1>2, FS_Subset, FS_CardinalityType

\* Initially nothing is pending and no call is at the driver.
LEMMA InitInv == Init => Inv
<1> SUFFICES ASSUME Init PROVE Inv
  OBVIOUS
<1>1. \A k : BusyOf(k) = {}
  BY DEF Init, Busy, BusyOf
<1>2. \A k : Cardinality(BusyOf(k)) = 0
  BY <1>1, FS_EmptySet
<1>3. TypeOK
  BY DEF Init, TypeOK, Answers
<1>4. OneCallPerGroup
  BY DEF Init, OneCallPerGroup, Busy
<1> QED
  BY <1>1, <1>2, <1>3, <1>4, PendingAssumption DEF Init, Inv, WithinLimit

\* A step that changes neither the calls nor the limiters keeps what Inv says of them.
LEMMA QuietInv ==
  ASSUME Inv, TypeOK', UNCHANGED <<npending, pendingMap, calling>>
  PROVE  Inv'
<1>1. Busy' = Busy
  BY DEF Busy
<1>2. \A k : BusyOf(k)' = BusyOf(k)
  BY <1>1 DEF BusyOf
<1> QED
  BY <1>1, <1>2 DEF Inv, OneCallPerGroup, WithinLimit

\* An admitted request adds its caller, its group and one to the count of its client; a
\* refused one changes none of them.
LEMMA RequestInv ==
  ASSUME NEW c \in Callers, NEW g \in Groups, Inv, Request(c, g)
  PROVE  Inv'
<1> DEFINE k == Client(c)
<1> HIDE DEF k
<1> USE PendingAssumption
<1>0. k \in Clients /\ Client(c) = k
  BY ClientType DEF k
<1>1. CASE UNCHANGED <<npending, pendingMap, calling>> /\ \E h \in {"pending", "overload"} : Answer(c, h, g)
  <2>1. TypeOK'
    BY <1>1 DEF Inv, TypeOK, Answer, Answers
  <2> QED
    BY <1>1, <2>1, QuietInv
<1>2. CASE g \notin pendingMap[k] /\ ~Overloaded(k) /\ Admit(k, c, g)
  <2>1. /\ calling[c] = NoGroup
        /\ pendingMap' = [pendingMap EXCEPT ![k] = @ \cup {g}]
        /\ npending' = [npending EXCEPT ![k] = @ + 1]
        /\ calling' = [calling EXCEPT ![c] = g]
        /\ Answer(c, "none", g)
    BY <1>2 DEF Request, Admit
  <2>2. TypeOK'
    BY <1>0, <2>1 DEF Inv, TypeOK, Answer, Answers
  <2>3. Busy' = Busy \cup {c} /\ c \notin Busy
    BY <2>1 DEF Inv, TypeOK, Busy
  <2>4. BusyOf(k)' = BusyOf(k) \cup {c} /\ c \notin BusyOf(k)
    BY <1>0, <2>3 DEF BusyOf
  <2>5. \A i \in Clients \ {k} : /\ BusyOf(i)' = BusyOf(i)
                                 /\ npending'[i] = npending[i] /\ pendingMap'[i] = pendingMap[i]
    BY <1>0, <2>1, <2>3 DEF BusyOf, Inv, TypeOK
  <2>6. Cardinality(BusyOf(k)') = Cardinality(BusyOf(k)) + 1
    BY <2>4, BusyFinite, FS_AddElement, ZenonT(60)
  <2>7. \A d \in Busy : calling'[d] = calling[d]
    BY <2>1, <2>3 DEF Inv, TypeOK, Busy
  <2>8. calling'[c] = g /\ pendingMap'[k] = pendingMap[k] \cup {g}
        /\ npending'[k] = npending[k] + 1
    BY <1>0, <2>1 DEF Inv, TypeOK
  <2>9. \A i \in Clients : pendingMap'[i] = {calling'[d] : d \in BusyOf(i)'}
    <3> SUFFICES ASSUME NEW i \in Clients PROVE pendingMap'[i] = {calling'[d] : d \in BusyOf(i)'}
      OBVIOUS
    <3>1. \A d \in BusyOf(i) : calling'[d] = calling[d]
      BY <2>7 DEF BusyOf
    <3>2. pendingMap[i] = {calling'[d] : d \in BusyOf(i)}
      BY <3>1 DEF Inv
    <3>3. CASE i = k
      BY <2>4, <2>8, <3>2, <3>3
    <3>4. CASE i # k
      BY <2>5, <3>2, <3>4
    <3> QED
      BY <3>3, <3>4
  <2>10. \A i \in Clients : npending'[i] = Cardinality(BusyOf(i)')
    BY <1>0, <2>5, <2>6, <2>8 DEF Inv
  <2>11. \A d \in Busy : Client(d) = k => calling'[d] # g
    <3>1. \A d \in BusyOf(k) : calling[d] # g
      BY <1>0, <1>2 DEF Inv
    <3> QED
      BY <2>7, <3>1 DEF BusyOf
  <2>12. OneCallPerGroup'
    BY <1>0, <2>3, <2>7, <2>8, <2>11 DEF Inv, OneCallPerGroup
  <2>13. ASSUME MaxPending > 0, NEW i \in Clients PROVE Cardinality(BusyOf(i)') <= MaxPending
    <3>1. Cardinality(BusyOf(i)) <= MaxPending
      BY <2>13 DEF Inv, WithinLimit
    <3>2. Cardinality(BusyOf(k)) + 1 <= MaxPending
      BY <1>0, <1>2, <2>13, BusyFinite DEF Inv, Overloaded
    <3> QED
      BY <2>5, <2>6, <3>1, <3>2
  <2> QED
    BY <2>2, <2>9, <2>10, <2>12, <2>13 DEF Inv, WithinLimit
<1> QED
  BY <1>0, <1>1, <1>2 DEF Request, CheckAndUpdatePendingState

\* The deferred ClearPending removes exactly what the admission added: no other call of
\* the client holds the same group, so no other entry is lost.
LEMMA ReturnInv ==
  ASSUME NEW c \in Callers, Inv, Return(c)
  PROVE  Inv'
<1> DEFINE k == Client(c)
<1> HIDE DEF k
<1> USE PendingAssumption
<1>0. k \in Clients /\ Client(c) = k
  BY ClientType DEF k
<1>1. /\ calling[c] # NoGroup
      /\ pendingMap' = [pendingMap EXCEPT ![k] = @ \ {calling[c]}]
      /\ npending' = [npending EXCEPT ![k] = @ - 1]
      /\ calling' = [calling EXCEPT ![c] = NoGroup]
      /\ Answer(c, "returned", calling[c])
  BY <1>0 DEF Return, ClearPending
<1>2. Busy' = Busy \ {c} /\ c \in Busy
  BY <1>1 DEF Inv, TypeOK, Busy
<1>3. BusyOf(k)' = BusyOf(k) \ {c} /\ c \in BusyOf(k)
  BY <1>0, <1>2 DEF BusyOf
<1>4. \A i \in Clients \ {k} : /\ BusyOf(i)' = BusyOf(i)
                               /\ npending'[i] = npending[i] /\ pendingMap'[i] = pendingMap[i]
  BY <1>0, <1>1, <1>2 DEF BusyOf, Inv, TypeOK
<1>5. Cardinality(BusyOf(k)') = Cardinality(BusyOf(k)) - 1
  BY <1>3, BusyFinite, FS_RemoveElement, ZenonT(60)
<1>6. Cardinality(BusyOf(k)) >= 1
  <2>1. BusyOf(k) # {}
    BY <1>3
  <2> QED
    BY <2>1, BusyFinite, FS_EmptySet
<1>7. /\ npending[k] = Cardinality(BusyOf(k)) /\ npending'[k] = npending[k] - 1
      /\ pendingMap'[k] = pendingMap[k] \ {calling[c]}
  BY <1>0, <1>1 DEF Inv, TypeOK
<1>8. TypeOK'
  <2>1. npending' \in [Clients -> Nat]
    <3>1. npending[k] - 1 \in Nat
      BY <1>6, <1>7, BusyFinite
    <3> QED
      BY <1>0, <1>1, <3>1 DEF Inv, TypeOK
  <2> QED
    BY <1>0, <1>1, <2>1 DEF Inv, TypeOK, Answer, Answers
<1>9. \A d \in Busy' : d # c /\ d \in Busy /\ calling'[d] = calling[d]
  BY <1>1, <1>2 DEF Inv, TypeOK, Busy
<1>10. \A d \in BusyOf(k)' : calling[d] # calling[c]
  BY <1>0, <1>2, <1>3, <1>9 DEF Inv, OneCallPerGroup, BusyOf
<1>11. \A i \in Clients : pendingMap'[i] = {calling'[d] : d \in BusyOf(i)'}
  <2> SUFFICES ASSUME NEW i \in Clients PROVE pendingMap'[i] = {calling'[d] : d \in BusyOf(i)'}
    OBVIOUS
  <2>1. \A d \in BusyOf(i)' : calling'[d] = calling[d]
    BY <1>9 DEF BusyOf
  <2>2. pendingMap[i] = {calling[d] : d \in BusyOf(i)}
    BY DEF Inv
  <2>3. CASE i = k
    <3>1. pendingMap'[k] = {calling[d] : d \in BusyOf(k)'}
      BY <1>3, <1>7, <1>10, <2>2, <2>3
    <3> QED
      BY <2>1, <2>3, <3>1
  <2>4. CASE i # k
    BY <1>4, <2>1, <2>2, <2>4
  <2> QED
    BY <2>3, <2>4
<1>12. \A i \in Clients : npending'[i] = Cardinality(BusyOf(i)')
  BY <1>4, <1>5, <1>7 DEF Inv
<1>13. OneCallPerGroup'
  BY <1>9 DEF Inv, OneCallPerGroup
<1>14. ASSUME MaxPending > 0, NEW i \in Clients PROVE Cardinality(BusyOf(i)') <= MaxPending
  <2>1. Cardinality(BusyOf(i)) <= MaxPending /\ Cardinality(BusyOf(i)) \in Nat
    BY <1>14, BusyFinite DEF Inv, WithinLimit
  <2> QED
    BY <1>4, <1>5, <2>1
<1> QED
  BY <1>8, <1>11, <1>12, <1>13, <1>14 DEF Inv, WithinLimit

\* Every step of the clients preserves the invariant.
LEMMA NextInv == Inv /\ [Next]_vars => Inv'
<1> SUFFICES ASSUME Inv, [Next]_vars PROVE Inv'
  OBVIOUS
<1>1. ASSUME NEW c \in Callers, Return(c) PROVE Inv'
  BY <1>1, ReturnInv
<1>2. ASSUME NEW c \in Callers, NEW g \in Groups, Request(c, g) PROVE Inv'
  BY <1>2, RequestInv
<1>3. CASE UNCHANGED vars
  BY <1>3, QuietInv DEF vars, Inv, TypeOK
<1>4. Reconcilers \subseteq Callers /\ Monitor \in Callers
  BY DEF Callers
<1> QED
  BY <1>1, <1>2, <1>3, <1>4 DEF Next, GetStorageProtectionGroupStatus, ExecuteAction,
     DeleteStorageProtectionGroup

\* The inductive invariant holds in every reachable state.
THEOREM LimiterInv == Spec => []Inv
  BY InitInv, NextInv, PTL DEF Spec

\* Variables keep their types; no counter of pending.go becomes negative.
THEOREM TypeCorrect == Spec => []TypeOK
<1>1. Inv => TypeOK
  BY DEF Inv
<1> QED
  BY LimiterInv, <1>1, PTL

\* Actions and deletions of the workers for one protection group never overlap at the
\* driver, for any number of workers; neither do the queries of the monitor.
THEOREM Exclusive == Spec => []OneCallPerGroup
<1>1. Inv => OneCallPerGroup
  BY DEF Inv
<1> QED
  BY LimiterInv, <1>1, PTL

\* Each client keeps its limit, whatever MaxPending is.
THEOREM Limited == Spec => []WithinLimit
<1>1. Inv => WithinLimit
  BY DEF Inv
<1> QED
  BY LimiterInv, <1>1, PTL

\* A refusal always has its reason at the driver: no limiter leaks an entry.
THEOREM RefusalsJustified == Spec => RefusedOnlyWhileBusy
<1> DEFINE Justified(c) ==
      /\ answer'[c].how = "pending" =>
           \E d \in BusyOf(Client(c)) \ {c} : calling[d] = answer'[c].rg
      /\ answer'[c].how = "overload" =>
           Cardinality(BusyOf(Client(c))) = MaxPending
<1>1. ASSUME Inv, Next, NEW c \in Callers, answer'[c] # answer[c]
      PROVE  Justified(c)
  <2>1. ASSUME NEW d \in Callers, Return(d) PROVE Justified(c)
    <3>1. answer' = [answer EXCEPT ![d] = [how |-> "returned", rg |-> calling[d]]]
      BY <2>1 DEF Return, Answer
    <3>2. c = d
      BY <1>1, <3>1 DEF Inv, TypeOK
    <3>3. answer'[c].how = "returned"
      BY <1>1, <3>1, <3>2 DEF Inv, TypeOK
    <3> QED
      BY <3>3
  <2>2. ASSUME NEW d \in Callers, NEW g \in Groups, Request(d, g) PROVE Justified(c)
    <3> DEFINE k == Client(d)
    <3> HIDE DEF k
    <3>0. k \in Clients /\ Client(d) = k
      BY ClientType DEF k
    <3>1. \E h \in {"pending", "overload", "none"} :
             answer' = [answer EXCEPT ![d] = [how |-> h, rg |-> g]]
      BY <2>2 DEF Request, CheckAndUpdatePendingState, Admit, Answer
    <3>2. c = d
      BY <1>1, <3>1 DEF Inv, TypeOK
    <3>3. CASE g \in pendingMap[k]
      <4>1. answer'[c] = [how |-> "pending", rg |-> g]
        BY <1>1, <2>2, <3>0, <3>2, <3>3 DEF Request, CheckAndUpdatePendingState, Answer, Inv, TypeOK
      <4>2. PICK e \in BusyOf(k) : calling[e] = g
        BY <1>1, <3>0, <3>3 DEF Inv
      <4>3. e # c
        BY <2>2, <3>2, <4>2, PendingAssumption DEF Request
      <4> QED
        BY <3>0, <3>2, <4>1, <4>2, <4>3
    <3>4. CASE g \notin pendingMap[k] /\ Overloaded(k)
      <4>1. answer'[c] = [how |-> "overload", rg |-> g]
        BY <1>1, <2>2, <3>0, <3>2, <3>4 DEF Request, CheckAndUpdatePendingState, Answer, Inv, TypeOK
      <4>2. Cardinality(BusyOf(k)) = MaxPending
        BY <1>1, <3>0, <3>4, BusyFinite, PendingAssumption DEF Inv, WithinLimit, Overloaded
      <4> QED
        BY <3>0, <3>2, <4>1, <4>2
    <3>5. CASE g \notin pendingMap[k] /\ ~Overloaded(k)
      <4>1. answer'[c] = [how |-> "none", rg |-> g]
        BY <1>1, <2>2, <3>0, <3>2, <3>5 DEF Request, CheckAndUpdatePendingState, Admit, Answer, Inv, TypeOK
      <4> QED
        BY <4>1
    <3> QED
      BY <3>3, <3>4, <3>5
  <2>3. Reconcilers \subseteq Callers /\ Monitor \in Callers
    BY DEF Callers
  <2> QED
    BY <1>1, <2>1, <2>2, <2>3 DEF Next, GetStorageProtectionGroupStatus, ExecuteAction,
       DeleteStorageProtectionGroup
<1>2. Inv /\ [Next]_vars =>
        [\A c \in Callers : answer'[c] # answer[c] => Justified(c)]_vars
  BY <1>1
<1> QED
  BY LimiterInv, <1>2, PTL DEF Spec, RefusedOnlyWhileBusy

-----------------------------------------------------------------------------
(* The configuration and the connections made from it.                       *)

CONSTANTS Clusters, Workers

VARIABLES file, secrets, conf, invalid, event, changed, queue, upd, failed, waiting

C == INSTANCE Config

\* The update has read the file.
Reading == upd.pc \in {"build", "verify", "publish", "apply"}

\* Between two updates, stale credentials and old targets have a notification that will be
\* served, or the last update failed.  An update in progress replaces the configuration by
\* one that is current, or whose changes wait for the lock.
ReloadInv ==
  /\ C!Free /\ ~failed => conf.stale \subseteq queue
  /\ C!Free /\ ~failed /\ ~changed => conf.targets = file.targets
  /\ Reading => upd.new.stale \subseteq queue
  /\ Reading /\ ~changed => upd.new.targets = file.targets

\* The verdict of an update reaches the flag, and the pod when it is negative, before the
\* new configuration is used.
VerdictInv ==
  /\ C!Free /\ ~failed => (invalid <=> ~conf.ok)
  /\ upd.pc = "apply" => (invalid <=> ~upd.new.ok)
  /\ upd.pc = "apply" /\ ~upd.new.ok => event = "Invalid"
  /\ upd.pc # "apply" /\ ~conf.ok => event = "Invalid"

-----------------------------------------------------------------------------

\* The initial state has the types.
LEMMA InitTypes == C!Init => C!TypeOK
<1> SUFFICES ASSUME C!Init PROVE C!TypeOK
  OBVIOUS
<1>1. file \in C!Readable /\ secrets \subseteq Clusters /\ file.targets \subseteq Clusters
  BY ZenonT(60) DEF C!Init, C!Readable
<1>2. PICK verdict \in BOOLEAN :
        /\ conf = [targets |-> file.targets, stale |-> {}, ok |-> verdict]
        /\ invalid = ~verdict
        /\ event = IF verdict THEN "none" ELSE "Invalid"
  BY ZenonT(60) DEF C!Init
<1>3. conf \in C!Loaded /\ conf.stale \subseteq conf.targets
  BY <1>1, <1>2 DEF C!Loaded
<1>4. invalid \in BOOLEAN /\ event \in {"none", "Invalid", "Correct"}
  BY <1>2, ZenonT(60)
<1>5. upd \in C!Update /\ upd.new.stale \subseteq upd.new.targets
  BY DEF C!Init, C!Update, C!Loaded, C!Idle, C!Nothing
<1>6. /\ queue = secrets /\ waiting = {}
      /\ changed \in BOOLEAN /\ failed \in BOOLEAN
  BY ZenonT(60) DEF C!Init
<1>7. QED
  BY <1>1, <1>3, <1>4, <1>5, <1>6 DEF C!TypeOK

\* Every step of a reload, a connection or a user keeps the types.
LEMMA NextTypes == C!TypeOK /\ [C!Next]_(C!vars) => C!TypeOK'
<1> SUFFICES ASSUME C!TypeOK, [C!Next]_(C!vars) PROVE C!TypeOK'
  OBVIOUS
<1> USE DEF C!TypeOK, C!Loaded, C!Update, C!Idle, C!Nothing, C!inputs
<1>1. CASE C!ProcessConfigMapChanges
  BY <1>1, ZenonT(60) DEF C!ProcessConfigMapChanges
<1>2. ASSUME NEW c \in Clusters, C!UpdateConfigOnSecretEvent(c) PROVE C!TypeOK'
  BY <1>2, ZenonT(60) DEF C!UpdateConfigOnSecretEvent
<1>3. ASSUME NEW c \in Clusters, C!EditSecret(c) PROVE C!TypeOK'
  BY <1>3, ZenonT(60) DEF C!EditSecret
<1>4. CASE C!ReadConfigFile
  <2>1. file.targets \subseteq Clusters
    <3>1. CASE file \in C!Readable
      BY <3>1 DEF C!Readable
    <3>2. CASE file = C!Unreadable
      BY <3>2 DEF C!Unreadable
    <3>3. QED
      BY <3>1, <3>2
  <2>2. upd' = [pc |-> "build", todo |-> file.targets,
                new |-> [targets |-> file.targets, stale |-> {}, ok |-> TRUE]]
    BY <1>4, ZenonT(60) DEF C!ReadConfigFile
  <2>3. upd' \in C!Update /\ upd'.new.stale \subseteq upd'.new.targets
    BY <2>1, <2>2
  <2>4. QED
    BY <1>4, <2>3 DEF C!ReadConfigFile
<1>5. ASSUME NEW c \in Clusters, C!BuildRestConfig(c) PROVE C!TypeOK'
  BY <1>5 DEF C!BuildRestConfig
<1>6. CASE C!NewReplicationConfig
  BY <1>6 DEF C!NewReplicationConfig
<1>7. CASE C!VerifyConfig
  <2>1. PICK verdict \in BOOLEAN :
          upd' = [upd EXCEPT !.pc = IF verdict /\ ~invalid THEN "apply" ELSE "publish",
                             !.new.ok = verdict]
    BY <1>7, ZenonT(60) DEF C!VerifyConfig
  <2>2. PICK p \in {"apply", "publish"} : upd' = [upd EXCEPT !.pc = p, !.new.ok = verdict]
    BY <2>1, ZenonT(60)
  <2>3. upd' \in C!Update /\ upd'.new.stale \subseteq upd'.new.targets
    BY <2>2, ZenonT(60)
  <2>4. QED
    BY <1>7, <2>3 DEF C!VerifyConfig
<1>8. CASE C!Publish
  <2>1. invalid' \in BOOLEAN
    BY <1>8, ZenonT(60) DEF C!Publish
  <2>2. event' \in {"none", "Invalid", "Correct"} /\ failed' \in BOOLEAN
    BY <1>8, ZenonT(60) DEF C!Publish
  <2>3. upd' = [upd EXCEPT !.pc = "apply"] \/ upd' = C!Idle
    BY <1>8, ZenonT(60) DEF C!Publish
  <2>4. upd' \in C!Update /\ upd'.new.stale \subseteq upd'.new.targets
    <3>1. CASE upd' = [upd EXCEPT !.pc = "apply"]
      BY <3>1
    <3>2. CASE upd' = C!Idle
      BY <3>2
    <3>3. QED
      BY <2>3, <3>1, <3>2
  <2>5. QED
    BY <1>8, <2>1, <2>2, <2>4 DEF C!Publish
<1>9. CASE C!Apply
  BY <1>9, ZenonT(60) DEF C!Apply
<1>10. CASE C!UpdateFails
  BY <1>10 DEF C!UpdateFails
<1>11. CASE C!EditFile
  BY <1>11 DEF C!EditFile
<1>12. ASSUME NEW w \in Workers, C!RequestConnection(w) PROVE C!TypeOK'
  BY <1>12 DEF C!RequestConnection
<1>13. ASSUME NEW w \in Workers, C!GetConnection(w) PROVE C!TypeOK'
  BY <1>13 DEF C!GetConnection
<1>14. CASE UNCHANGED C!vars
  BY <1>14 DEF C!vars
<1>15. QED
  BY <1>1, <1>2, <1>3, <1>4, <1>5, <1>6, <1>7, <1>8, <1>9, <1>10, <1>11, <1>12, <1>13,
     <1>14, ZenonT(60) DEF C!Next, C!Reload

\* The type invariant holds in all reachable states.
THEOREM ConfigTypes == C!Spec => []C!TypeOK
  BY InitTypes, NextTypes, PTL DEF C!Spec

-----------------------------------------------------------------------------

\* Initially nothing is being loaded.
LEMMA InitReload == C!Init => ReloadInv
  BY DEF C!Init, ReloadInv, Reading, C!Free, C!Idle

\* Every step keeps ReloadInv: a change during a reload leaves a notification.
LEMMA NextReload == C!TypeOK /\ ReloadInv /\ [C!Next]_(C!vars) => ReloadInv'
<1> SUFFICES ASSUME C!TypeOK, ReloadInv, [C!Next]_(C!vars) PROVE ReloadInv'
  OBVIOUS
<1> USE DEF C!TypeOK, C!Loaded, C!Update, ReloadInv, Reading, C!Free, C!Idle, C!Nothing, C!inputs
<1>1. CASE C!ProcessConfigMapChanges
  BY <1>1 DEF C!ProcessConfigMapChanges
<1>2. ASSUME NEW c \in Clusters, C!UpdateConfigOnSecretEvent(c) PROVE ReloadInv'
  BY <1>2 DEF C!UpdateConfigOnSecretEvent
<1>3. ASSUME NEW c \in Clusters, C!EditSecret(c) PROVE ReloadInv'
  BY <1>3 DEF C!EditSecret
<1>4. CASE C!ReadConfigFile
  BY <1>4 DEF C!ReadConfigFile, C!Readable, C!Unreadable
<1>5. ASSUME NEW c \in Clusters, C!BuildRestConfig(c) PROVE ReloadInv'
  BY <1>5 DEF C!BuildRestConfig
<1>6. CASE C!NewReplicationConfig
  BY <1>6 DEF C!NewReplicationConfig
<1>7. CASE C!VerifyConfig
  BY <1>7 DEF C!VerifyConfig
<1>8. CASE C!Publish
  BY <1>8 DEF C!Publish
<1>9. CASE C!Apply
  BY <1>9, ZenonT(60) DEF C!Apply
<1>10. CASE C!UpdateFails
  BY <1>10, ZenonT(60) DEF C!UpdateFails
<1>11. CASE C!EditFile
  BY <1>11 DEF C!EditFile
<1>12. ASSUME NEW w \in Workers, C!RequestConnection(w) PROVE ReloadInv'
  BY <1>12 DEF C!RequestConnection
<1>13. ASSUME NEW w \in Workers, C!GetConnection(w) PROVE ReloadInv'
  BY <1>13 DEF C!GetConnection
<1>14. CASE UNCHANGED C!vars
  BY <1>14 DEF C!vars
<1>15. QED
  BY <1>1, <1>2, <1>3, <1>4, <1>5, <1>6, <1>7, <1>8, <1>9, <1>10, <1>11, <1>12, <1>13, ZenonT(60),
     <1>14 DEF C!Next, C!Reload

\* No change of the file or of a secret is lost to the reload that overlaps it.
THEOREM NoChangeLost == C!Spec => []C!CurrentOnceQuiet
<1>1. ReloadInv => C!CurrentOnceQuiet
  BY DEF ReloadInv, C!CurrentOnceQuiet, C!Quiet
<1>2. QED
  BY <1>1, InitTypes, NextTypes, InitReload, NextReload, PTL DEF C!Spec

-----------------------------------------------------------------------------

\* The configuration of the start has its verdict.
LEMMA InitVerdict == C!Init => VerdictInv
<1> SUFFICES ASSUME C!Init PROVE VerdictInv
  OBVIOUS
<1>1. PICK verdict \in BOOLEAN :
        /\ conf = [targets |-> file.targets, stale |-> {}, ok |-> verdict]
        /\ invalid = ~verdict
        /\ event = IF verdict THEN "none" ELSE "Invalid"
  BY ZenonT(60) DEF C!Init
<1>2. conf.ok = verdict
  BY <1>1
<1>3. (invalid <=> ~conf.ok) /\ (~conf.ok => event = "Invalid")
  BY <1>1, <1>2, ZenonT(60)
<1>4. upd.pc = "idle"
  BY DEF C!Init, C!Idle
<1>5. QED
  BY <1>3, <1>4 DEF VerdictInv, C!Free

\* Every step keeps VerdictInv: verdict, flag, event and configuration go together.
LEMMA NextVerdict == C!TypeOK /\ VerdictInv /\ [C!Next]_(C!vars) => VerdictInv'
<1> SUFFICES ASSUME C!TypeOK, VerdictInv, [C!Next]_(C!vars) PROVE VerdictInv'
  OBVIOUS
<1> USE DEF C!TypeOK, C!Loaded, C!Update, VerdictInv, C!Free, C!Idle, C!Nothing, C!inputs
<1>1. CASE C!ProcessConfigMapChanges
  BY <1>1 DEF C!ProcessConfigMapChanges
<1>2. ASSUME NEW c \in Clusters, C!UpdateConfigOnSecretEvent(c) PROVE VerdictInv'
  BY <1>2 DEF C!UpdateConfigOnSecretEvent
<1>3. ASSUME NEW c \in Clusters, C!EditSecret(c) PROVE VerdictInv'
  BY <1>3 DEF C!EditSecret
<1>4. CASE C!ReadConfigFile
  BY <1>4 DEF C!ReadConfigFile
<1>5. ASSUME NEW c \in Clusters, C!BuildRestConfig(c) PROVE VerdictInv'
  BY <1>5 DEF C!BuildRestConfig
<1>6. CASE C!NewReplicationConfig
  BY <1>6 DEF C!NewReplicationConfig
<1>7. CASE C!VerifyConfig
  BY <1>7 DEF C!VerifyConfig
<1>8. CASE C!Publish
  <2>1. invalid' <=> ~upd.new.ok
    BY <1>8, ZenonT(60) DEF C!Publish
  <2>2. CASE upd' = C!Idle /\ failed' = TRUE /\ UNCHANGED event
    BY <1>8, <2>2 DEF C!Publish
  <2>3. CASE /\ event' = IF upd.new.ok THEN "Correct" ELSE "Invalid"
             /\ upd' = [upd EXCEPT !.pc = "apply"]
             /\ UNCHANGED failed
    <3>1. upd'.pc = "apply" /\ upd'.new = upd.new
      BY <2>3
    <3>2. ~upd.new.ok => event' = "Invalid"
      BY <2>3
    <3>3. QED
      BY <2>1, <3>1, <3>2
  <2>4. QED
    BY <1>8, <2>2, <2>3 DEF C!Publish
<1>9. CASE C!Apply
  BY <1>9, ZenonT(60) DEF C!Apply
<1>10. CASE C!UpdateFails
  BY <1>10, ZenonT(60) DEF C!UpdateFails
<1>11. CASE C!EditFile
  BY <1>11 DEF C!EditFile
<1>12. ASSUME NEW w \in Workers, C!RequestConnection(w) PROVE VerdictInv'
  BY <1>12, ZenonT(60) DEF C!RequestConnection
<1>13. ASSUME NEW w \in Workers, C!GetConnection(w) PROVE VerdictInv'
  BY <1>13 DEF C!GetConnection
<1>14. CASE UNCHANGED C!vars
  BY <1>14, SMTT(60) DEF C!vars
<1>15. QED
  BY <1>1, <1>2, <1>3, <1>4, <1>5, <1>6, <1>7, <1>8, <1>9, <1>10, <1>11, <1>12, <1>13, ZenonT(60),
     <1>14 DEF C!Next, C!Reload

\* The flag tells the verdict on the configuration in use unless an update failed.
THEOREM FlagCorrect == C!Spec => []C!FlagMatchesConfig
<1>1. VerdictInv => C!FlagMatchesConfig
  BY DEF VerdictInv, C!FlagMatchesConfig
<1>2. QED
  BY <1>1, InitTypes, NextTypes, InitVerdict, NextVerdict, PTL DEF C!Spec

\* While the all-clear is the last event, the configuration in use passed verification.
THEOREM AllClear == C!Spec => []C!AllClearIsTrue
<1>1. VerdictInv => C!AllClearIsTrue
  BY DEF VerdictInv, C!AllClearIsTrue, C!Free
<1>2. QED
  BY <1>1, InitTypes, NextTypes, InitVerdict, NextVerdict, PTL DEF C!Spec

=============================================================================
