--------------------------- MODULE RequestProofs ----------------------------
(**************************************************************************)
(* Proofs about requests of users.  Snapshots: a processed snapshot action *)
(* has all its snapshots, unless a user removed its annotation, and every  *)
(* snapshot is where the last request before its call asked for, for any   *)
(* number of volumes, places and calls of the driver.                      *)
(* Repctl: an action is requested only of a group that still fits, and a   *)
(* command that waited reports success only when the action is over.       *)
(**************************************************************************)
EXTENDS Snapshots, TLAPS

PlaceOrNone == Places \cup {NoPlace}
CallOrNone == 0 .. MaxTaken
Handles == Calls \X Volumes
Annotations == PlaceOrNone \cup {Absent}
Objects == [handle : Handles, place : Annotations]

Work ==
  [step : {"class", "namespace", "content", "snapshot"}, place : Annotations,
   todo : SUBSET Handles, cur : SUBSET Handles]

GroupObject ==
  [want : PlaceOrNone, action : BOOLEAN, state : {"Ready", "InProgress"},
   ann : Annotations, last : CallOrNone, processed : CallOrNone]

RemoteCluster == [ns : SUBSET Annotations, contents : SUBSET Objects, snaps : SUBSET Objects]

TypeOK ==
  /\ rg \in GroupObject
  /\ cache \in [ann : Annotations, last : CallOrNone, processed : CallOrNone]
  /\ taken \in CallOrNone /\ held \in CallOrNone \cup {Failed}
  /\ asked \in [Calls -> PlaceOrNone] /\ stripped \subseteq Calls
  /\ ctl \in Work \cup {Idle} /\ fresh \in BOOLEAN
  /\ remote \in RemoteCluster

\* A call that was made, and an annotation that may be read with its result: its own,
\* that of the next action, which has no place yet, or none if a user removed it.
Made(n) == n \in Calls /\ n <= taken
MayBePlaceOf(n, p) == p \in {NoPlace, asked[n]} \/ (p = Absent /\ n \in stripped)

\* The result on its way through the sidecar, the group and the cache.
ResultInv ==
  /\ rg.state = "InProgress" => rg.last = None
  /\ held # None => rg.state = "InProgress" /\ rg.ann # Absent
  /\ held \in Calls => Made(held) /\ rg.ann = asked[held]
  /\ rg.last # None => Made(rg.last) /\ MayBePlaceOf(rg.last, rg.ann)
  /\ cache.last # None => Made(cache.last) /\ MayBePlaceOf(cache.last, cache.ann)

HasSnapshot(h) == \E s \in remote.snaps : s.handle = h

\* The controller works on the result of call n.
WorksOn(n) ==
  /\ Made(n) /\ MayBePlaceOf(n, ctl.place)
  /\ ctl.step # "class" => ctl.place = asked[n] \/ ctl.todo \cup ctl.cur = {}
  /\ ctl.todo \cup ctl.cur \subseteq {n} \X Volumes
  /\ ctl.step # "snapshot" => ctl.cur = {}
  /\ \A g, h \in ctl.cur : g = h
  /\ n \in stripped \/ \A v \in Volumes : <<n, v>> \in ctl.todo \cup ctl.cur \/ HasSnapshot(<<n, v>>)
  /\ fresh => rg.last = n

SnapshotInv ==
  /\ ctl # Idle => \E n \in Calls : WorksOn(n)
  /\ \A s \in remote.snaps : Made(s.handle[1]) /\ s.place = asked[s.handle[1]]
  /\ rg.processed \in Calls \ stripped => \A v \in Volumes : HasSnapshot(<<rg.processed, v>>)

Inv == TypeOK /\ ResultInv /\ SnapshotInv

-----------------------------------------------------------------------------
\* The steps that write the group and are not of the controller.
Writers ==
  \/ CreateSnapshot \/ AcceptAction \/ MarkInProgress \/ RestoreAnnotation \/ ReportResult
  \/ RecoverStatus \/ MonitorWrites

\* Every step keeps the types.
LEMMA TypeStep == TypeOK /\ [Next]_vars => TypeOK'
<1> SUFFICES ASSUME TypeOK, [Next]_vars PROVE TypeOK'
  OBVIOUS
<1>0. /\ MaxTaken \in Nat /\ 0 \in CallOrNone
      /\ Places \subseteq PlaceOrNone /\ PlaceOrNone \subseteq Annotations
      /\ NoPlace \in Annotations /\ Absent \in Annotations
      /\ rg \in GroupObject /\ remote \in RemoteCluster
      /\ held \in CallOrNone \cup {Failed} /\ fresh \in BOOLEAN
      /\ \A step : AtStep(step) => ctl \in Work
  BY PlacesAssumption DEF TypeOK, AtStep, CallOrNone, PlaceOrNone, Annotations
<1>1. CASE CreateSnapshot
  BY <1>0, <1>1, ZenonT(60) DEF CreateSnapshot, UserWrites, Write, TypeOK, GroupObject, None
<1>r. CASE RemoveAnnotation
  <2>1. rg' \in GroupObject /\ fresh' = FALSE /\ held' \in CallOrNone
    BY <1>0, <1>r, ZenonT(60) DEF RemoveAnnotation, UserWrites, Write, GroupObject, None
  <2>2. stripped' \subseteq Calls
    BY <1>r DEF RemoveAnnotation, TypeOK
  <2> QED
    BY <1>r, <2>1, <2>2, ZenonT(60) DEF RemoveAnnotation, TypeOK
<1>a. CASE RestoreAnnotation
  <2>1. rg' \in GroupObject /\ fresh' = FALSE
    BY <1>0, <1>a, ZenonT(60) DEF RestoreAnnotation, Write, GroupObject
  <2> QED
    BY <1>a, <2>1, ZenonT(60) DEF RestoreAnnotation, TypeOK, sidecar
<1>2. CASE AcceptAction
  BY <1>0, <1>2, ZenonT(60) DEF AcceptAction, Write, TypeOK, GroupObject, sidecar
<1>3. CASE MarkInProgress
  BY <1>0, <1>3, ZenonT(60) DEF MarkInProgress, Write, TypeOK, GroupObject, sidecar, None
<1>4. CASE ExecuteAction
  <2>1. taken + 1 \in Calls /\ taken + 1 \in CallOrNone
    BY <1>0, <1>4 DEF ExecuteAction, TypeOK, CallOrNone, Calls
  <2>2. rg' \in GroupObject /\ held' \in CallOrNone \cup {Failed} /\ fresh' \in BOOLEAN
    <3>1. [[[rg EXCEPT !.action = FALSE] EXCEPT !.processed = 0]
                 EXCEPT !.ann = rg.want] \in GroupObject
      BY <1>0, ZenonT(60) DEF GroupObject
    <3> QED
      BY <1>0, <1>4, <2>1, <3>1, ZenonT(60) DEF ExecuteAction, RecordResult, Write, None
  <2>3. asked' \in [Calls -> PlaceOrNone]
    BY <1>0, <1>4, <2>1 DEF ExecuteAction, TypeOK, GroupObject
  <2> QED
    BY <1>4, <2>1, <2>2, <2>3 DEF ExecuteAction, TypeOK
<1>5. CASE ReportResult
  BY <1>0, <1>5, ZenonT(60) DEF ReportResult, Write, TypeOK, GroupObject, None
<1>6. CASE LoseResult
  BY <1>0, <1>6 DEF LoseResult, TypeOK, None
<1>7. CASE RecoverStatus
  <2>1. rg' \in GroupObject /\ fresh' = FALSE
    BY <1>0, <1>7, ZenonT(60) DEF RecoverStatus, Write, GroupObject, None
  <2> QED
    BY <1>7, <2>1, ZenonT(60) DEF RecoverStatus, TypeOK, sidecar
<1>8. CASE MonitorWrites
  BY <1>8, ZenonT(60) DEF MonitorWrites, Write, TypeOK, sidecar
<1>9. CASE SyncCache
  BY <1>0, <1>9 DEF SyncCache, Seen, TypeOK, GroupObject, sidecar
<1>10. CASE ProcessLastAction
  <2>1. {cache.last} \X Volumes \subseteq Handles
    BY <1>0, <1>10 DEF ProcessLastAction, Unprocessed, TypeOK, Handles, Calls, CallOrNone, None
  <2> QED
    BY <1>10, <2>1 DEF ProcessLastAction, Process, TypeOK, Work, sidecar
<1>s. CASE SkipSnapshots
  BY <1>0, <1>s DEF SkipSnapshots, TypeOK, Work, sidecar
<1>11. CASE GetSnapshotClass
  BY <1>0, <1>11 DEF GetSnapshotClass, TypeOK, Work, sidecar
<1>12. CASE EnsureNamespace
  BY <1>0, <1>12 DEF EnsureNamespace, TypeOK, Work, RemoteCluster, sidecar
<1>13. CASE CreateSnapshotContent
  <2>1. PICK h \in ctl.todo :
          /\ ctl' = [ctl EXCEPT !.step = "snapshot", !.todo = @ \ {h}, !.cur = {h}]
          /\ remote' = [remote EXCEPT !.contents = @ \cup {Object(h)}]
    BY <1>13, ZenonT(60) DEF CreateSnapshotContent
  <2>2. ctl \in Work /\ h \in Handles
    BY <1>0, <1>13 DEF CreateSnapshotContent, Work
  <2>3. ctl' \in Work /\ Object(h) \in Objects
    BY <2>1, <2>2, ZenonT(60) DEF Work, Object, Objects
  <2>4. remote' \in RemoteCluster
    BY <1>0, <2>1, <2>3 DEF RemoteCluster
  <2> QED
    BY <1>13, <2>3, <2>4 DEF CreateSnapshotContent, TypeOK, sidecar
<1>14. CASE CreateSnapshotObject
  <2>1. PICK h \in ctl.cur : remote' = [remote EXCEPT !.snaps = @ \cup {Object(h)}]
    BY <1>14 DEF CreateSnapshotObject
  <2>2. ctl \in Work /\ ctl' \in Work
    BY <1>0, <1>14, ZenonT(60) DEF CreateSnapshotObject, Work
  <2>3. Object(h) \in Objects
    BY <2>2 DEF Work, Object, Objects
  <2>4. remote' \in RemoteCluster
    BY <1>0, <2>1, <2>3 DEF RemoteCluster
  <2> QED
    BY <1>14, <2>2, <2>4 DEF CreateSnapshotObject, TypeOK, sidecar
<1>15. CASE MarkProcessed
  BY <1>0, <1>15, ZenonT(60) DEF MarkProcessed, Write, TypeOK, GroupObject, sidecar
<1>16. CASE Refuse \/ Fail
  BY <1>16, ZenonT(60) DEF Refuse, Fail, EndReconcile, TypeOK, sidecar
<1>17. CASE UNCHANGED vars
  BY <1>17 DEF vars, sidecar, TypeOK
<1> QED
  BY <1>1, <1>2, <1>3, <1>4, <1>5, <1>6, <1>7, <1>8, <1>9, <1>10, <1>11, <1>12, <1>13,
     <1>14, <1>15, <1>16, <1>17, <1>r, <1>a, <1>s DEF Next, User, Sidecar, Controller

\* The result of a call stays with the place that its request asked for.
LEMMA ResultStep ==
  ASSUME TypeOK, ResultInv, [Next]_vars
  PROVE  ResultInv'
<1> USE PlacesAssumption DEF CallOrNone, None, Calls, Made, MayBePlaceOf
<1>0. rg \in GroupObject /\ MaxTaken \in Nat
  BY DEF TypeOK
<1>1. CASE CreateSnapshot
  BY <1>0, <1>1 DEF CreateSnapshot, UserWrites, Write, ResultInv, GroupObject
<1>r. CASE RemoveAnnotation
  <2>1. /\ rg'.state = rg.state /\ rg'.last = rg.last /\ rg'.ann = Absent /\ held' = 0
        /\ stripped' = stripped \cup ({rg.last} \cap Calls) /\ UNCHANGED <<cache, taken, asked>>
    BY <1>0, <1>r DEF RemoveAnnotation, UserWrites, Write, GroupObject
  <2> QED
    BY <1>0, <2>1 DEF ResultInv
<1>a. CASE RestoreAnnotation
  <2>1. /\ rg.state = "InProgress" /\ rg.last = 0 /\ held = 0 /\ rg'.last = rg.last
        /\ UNCHANGED <<cache, taken, held, asked, stripped>>
    BY <1>0, <1>a DEF RestoreAnnotation, Write, ResultInv, GroupObject, sidecar
  <2> QED
    BY <1>0, <2>1 DEF ResultInv
<1>2. CASE AcceptAction
  BY <1>0, <1>2 DEF AcceptAction, Write, ResultInv, GroupObject, sidecar
<1>3. CASE MarkInProgress
  BY <1>0, <1>3 DEF MarkInProgress, Write, ResultInv, GroupObject, sidecar
<1>4. CASE ExecuteAction
  <2>1. taken \in Nat /\ taken < MaxTaken /\ taken' = taken + 1
    BY <1>0, <1>4 DEF ExecuteAction, TypeOK
  <2>2. \A n \in Calls : asked'[n] = IF n = taken + 1 THEN rg.want ELSE asked[n]
    BY <1>4, <2>1 DEF ExecuteAction, TypeOK
  <2>3. CASE UNCHANGED <<rg, fresh, held>>
    BY <1>4, <2>1, <2>2, <2>3 DEF ExecuteAction, ResultInv
  <2>4. ASSUME NEW r \in {taken + 1, Failed}, RecordResult(r) PROVE ResultInv'
    <3>1. /\ rg'.state = "InProgress" /\ rg'.last = 0
          /\ rg'.ann = rg.want /\ rg.want # Absent /\ held' = r
      BY <1>0, <1>4, <2>4 DEF ExecuteAction, RecordResult, Write, ResultInv, GroupObject, PlaceOrNone
    <3> QED
      BY <1>0, <1>4, <2>1, <2>2, <3>1 DEF ExecuteAction, ResultInv, Failed
  <2> QED
    BY <1>4, <2>3, <2>4 DEF ExecuteAction
<1>5. CASE ReportResult
  BY <1>0, <1>5 DEF ReportResult, Write, TypeOK, ResultInv, GroupObject, Failed
<1>6. CASE LoseResult
  BY <1>6 DEF LoseResult, ResultInv
<1>7. CASE RecoverStatus
  BY <1>0, <1>7 DEF RecoverStatus, Write, ResultInv, GroupObject, sidecar
<1>8. CASE SyncCache
  BY <1>8, SMTT(60) DEF SyncCache, Seen, sidecar, ResultInv
<1>9. CASE MarkProcessed
  BY <1>0, <1>9 DEF MarkProcessed, Write, GroupObject, ResultInv, sidecar
<1>10. CASE UNCHANGED <<rg, cache, taken, held, asked, stripped>>
  BY <1>10 DEF ResultInv
<1> QED
  BY <1>1, <1>2, <1>3, <1>4, <1>5, <1>6, <1>7, <1>8, <1>9, <1>10, <1>r, <1>a, ZenonT(60)
  DEF Next, User, Sidecar, Controller, MonitorWrites, Write, Fail, Refuse, EndReconcile, vars, sidecar,
      ProcessLastAction, Process, SkipSnapshots, GetSnapshotClass, EnsureNamespace,
      CreateSnapshotContent, CreateSnapshotObject

\* The controller makes the snapshots of one call, where that call was asked for.
LEMMA SnapshotStep ==
  ASSUME TypeOK, ResultInv, SnapshotInv, TypeOK', [Next]_vars
  PROVE  SnapshotInv'
<1> USE PlacesAssumption
<1>0. /\ MaxTaken \in Nat /\ taken \in 0 .. MaxTaken /\ ctl \in Work \cup {Idle}
      /\ rg \in GroupObject /\ remote \in RemoteCluster
  BY DEF TypeOK, CallOrNone
<1>1. CASE /\ UNCHANGED <<remote, ctl, taken, asked, stripped>> /\ rg'.processed = rg.processed
           /\ fresh' = FALSE \/ UNCHANGED <<fresh, rg>>
  <2>1. \A n \in Calls : WorksOn(n) => WorksOn(n)'
    BY <1>1, ZenonT(60) DEF WorksOn, HasSnapshot, Made, MayBePlaceOf
  <2> QED
    BY <1>1, <2>1, ZenonT(60) DEF SnapshotInv, HasSnapshot, Made
<1>2. CASE ExecuteAction
  <2>1. \A n \in Calls : Made(n) => asked'[n] = asked[n] /\ Made(n)'
    BY <1>0, <1>2 DEF ExecuteAction, Made, TypeOK, Calls
  <2>2. /\ UNCHANGED <<remote, ctl, stripped>> /\ rg'.processed \in {None, rg.processed}
        /\ fresh' = FALSE \/ UNCHANGED <<fresh, rg>>
    BY <1>0, <1>2, ZenonT(60) DEF ExecuteAction, RecordResult, Write, GroupObject
  <2>3. ASSUME NEW n \in Calls, ctl # Idle, WorksOn(n) PROVE WorksOn(n)'
    <3>1. Made(n) /\ Made(n)' /\ asked'[n] = asked[n]
      BY <2>1, <2>3, ZenonT(60) DEF WorksOn
    <3> QED
      BY <2>2, <2>3, <3>1 DEF WorksOn, HasSnapshot, MayBePlaceOf
  <2> QED
    BY <2>1, <2>2, <2>3 DEF SnapshotInv, HasSnapshot, Made, None, Calls
<1>r. CASE RemoveAnnotation
  <2>1. /\ UNCHANGED <<remote, ctl, taken, asked>> /\ rg'.processed = rg.processed
        /\ fresh' = FALSE /\ stripped \subseteq stripped'
    BY <1>0, <1>r DEF RemoveAnnotation, UserWrites, Write, GroupObject
  <2>2. \A n \in Calls : WorksOn(n) => WorksOn(n)'
    BY <2>1, ZenonT(60) DEF WorksOn, HasSnapshot, Made, MayBePlaceOf
  <2> QED
    BY <2>1, <2>2, ZenonT(60) DEF SnapshotInv, HasSnapshot, Made
<1>3. CASE ProcessLastAction
  <2>1. WorksOn(cache.last)' /\ cache.last \in Calls
    <3>1. /\ ctl'.step = "class" /\ ctl'.place = cache.ann /\ ctl'.cur = {}
          /\ ctl'.todo = {cache.last} \X Volumes
          /\ UNCHANGED <<rg, cache, taken, asked, stripped>>
      BY <1>3 DEF ProcessLastAction, Process, sidecar
    <3>f. fresh' => rg.last = cache.last
      <4>1. fresh' => cache = Seen
        BY <1>3, ZenonT(60) DEF ProcessLastAction, Process
      <4>2. cache = Seen => rg.last = cache.last
        BY DEF Seen
      <4> QED
        BY <4>1, <4>2
    <3>2. Made(cache.last) /\ MayBePlaceOf(cache.last, cache.ann)
      BY <1>3 DEF ProcessLastAction, Unprocessed, ResultInv
    <3> QED
      BY <3>1, <3>f, <3>2 DEF WorksOn, Made, MayBePlaceOf
  <2> QED
    BY <1>3, <2>1, ZenonT(60)
       DEF ProcessLastAction, Process, SnapshotInv, HasSnapshot, Made, sidecar
<1>s. CASE SkipSnapshots
  <2>0. ctl \in Work /\ ctl # Idle /\ ctl.step = "class" /\ ctl.place = Absent
    BY <1>0, <1>s, ZenonT(60) DEF SkipSnapshots, AtStep
  <2>1. PICK n \in Calls : WorksOn(n)
    BY <2>0 DEF SnapshotInv
  <2>2. n \in stripped /\ ctl.cur = {}
    <3>1. asked[n] # Absent
      BY PlacesAssumption DEF TypeOK, PlaceOrNone
    <3> QED
      BY <2>0, <2>1, <3>1 DEF WorksOn, MayBePlaceOf
  <2>3. /\ ctl'.step = "content" /\ ctl'.place = ctl.place /\ ctl'.todo = {} /\ ctl'.cur = ctl.cur
        /\ UNCHANGED <<rg, taken, asked, stripped, fresh, remote>>
    BY <1>s, <2>0 DEF SkipSnapshots, Work, sidecar
  <2>4. WorksOn(n)'
    BY <2>1, <2>2, <2>3, ZenonT(60) DEF WorksOn, Made, MayBePlaceOf
  <2> QED
    BY <2>3, <2>4, ZenonT(60) DEF SnapshotInv, HasSnapshot, Made
<1>4. CASE GetSnapshotClass \/ EnsureNamespace \/ CreateSnapshotContent \/ CreateSnapshotObject
  <2>0. ctl \in Work /\ ctl # Idle
    BY <1>0, <1>4, ZenonT(60) DEF GetSnapshotClass, EnsureNamespace, CreateSnapshotContent,
         CreateSnapshotObject, AtStep
  <2>1. PICK n \in Calls : WorksOn(n)
    BY <2>0 DEF SnapshotInv
  <2>2. UNCHANGED <<rg, taken, asked, stripped, fresh>>
    BY <1>4, ZenonT(60) DEF GetSnapshotClass, EnsureNamespace, CreateSnapshotContent,
         CreateSnapshotObject, sidecar
  <2>3. CASE GetSnapshotClass
    <3>1. /\ ctl'.step = "namespace" /\ ctl'.place = ctl.place /\ ctl'.todo = ctl.todo
          /\ ctl'.cur = ctl.cur /\ remote' = remote /\ ctl.place \notin {NoPlace, Absent}
          /\ ctl.step = "class"
      BY <2>0, <2>3 DEF GetSnapshotClass, AtStep, Work
    <3>2. WorksOn(n)'
      BY <2>1, <2>2, <3>1, ZenonT(60) DEF WorksOn, HasSnapshot, Made, MayBePlaceOf
    <3> QED
      BY <2>2, <3>1, <3>2 DEF SnapshotInv, HasSnapshot, Made
  <2>4. CASE EnsureNamespace
    <3>1. /\ ctl'.step = "content" /\ ctl'.place = ctl.place /\ ctl'.todo = ctl.todo
          /\ ctl'.cur = ctl.cur /\ remote'.snaps = remote.snaps /\ ctl.step = "namespace"
      BY <1>0, <2>0, <2>4 DEF EnsureNamespace, AtStep, Work, RemoteCluster
    <3>2. WorksOn(n)'
      BY <2>1, <2>2, <3>1, ZenonT(60) DEF WorksOn, HasSnapshot, Made, MayBePlaceOf
    <3> QED
      BY <2>2, <3>1, <3>2, ZenonT(60) DEF SnapshotInv, HasSnapshot, Made
  <2>5. CASE CreateSnapshotContent
    <3>1. PICK h \in ctl.todo :
            /\ ctl' = [ctl EXCEPT !.step = "snapshot", !.todo = @ \ {h}, !.cur = {h}]
            /\ remote' = [remote EXCEPT !.contents = @ \cup {Object(h)}]
      BY <2>5, ZenonT(60) DEF CreateSnapshotContent
    <3>2. /\ ctl'.step = "snapshot" /\ ctl'.place = ctl.place /\ ctl'.todo = ctl.todo \ {h}
          /\ ctl'.cur = {h} /\ remote'.snaps = remote.snaps /\ ctl.step = "content"
      BY <1>0, <2>0, <2>5, <3>1, ZenonT(60) DEF CreateSnapshotContent, AtStep, Work, RemoteCluster
    <3>3. WorksOn(n)'
      BY <2>1, <2>2, <3>1, <3>2, ZenonT(60) DEF WorksOn, HasSnapshot, Made, MayBePlaceOf
    <3> QED
      BY <2>2, <3>2, <3>3, SMTT(60) DEF SnapshotInv, HasSnapshot, Made
  <2>6. CASE CreateSnapshotObject
    <3>1. PICK h \in ctl.cur : remote' = [remote EXCEPT !.snaps = @ \cup {Object(h)}]
      BY <2>6, ZenonT(60) DEF CreateSnapshotObject
    <3>2. /\ ctl'.step = "content" /\ ctl'.place = ctl.place /\ ctl'.todo = ctl.todo
          /\ ctl'.cur = {} /\ ctl.step = "snapshot"
          /\ remote'.snaps = remote.snaps \cup {Object(h)}
      BY <1>0, <2>0, <2>6, <3>1 DEF CreateSnapshotObject, AtStep, Work, RemoteCluster
    <3>3. PICK v \in Volumes : h = <<n, v>>
      BY <2>1, <3>1 DEF WorksOn
    <3>4. /\ Object(h).handle = h /\ Object(h).place = asked[n] /\ h[1] = n /\ Made(n)
      BY <2>1, <3>2, <3>3 DEF Object, WorksOn
    <3>5. HasSnapshot(h)' /\ \A u \in Volumes : HasSnapshot(<<n, u>>) => HasSnapshot(<<n, u>>)'
      BY <3>2, <3>4 DEF HasSnapshot
    <3>6. \/ n \in stripped
          \/ \A u \in Volumes : <<n, u>> \in ctl'.todo \cup ctl'.cur \/ HasSnapshot(<<n, u>>)'
      <4> SUFFICES ASSUME n \notin stripped, NEW u \in Volumes, ~HasSnapshot(<<n, u>>), <<n, u>> \notin ctl.todo
                   PROVE  <<n, u>> = h
        BY <3>2, <3>5
      <4> QED
        BY <2>1, <3>1 DEF WorksOn
    <3>7. WorksOn(n)'
      BY <2>1, <2>2, <3>2, <3>6 DEF WorksOn, Made, MayBePlaceOf
    <3> QED
      BY <2>2, <3>2, <3>4, <3>7, ZenonT(60) DEF SnapshotInv, HasSnapshot, Made
  <2> QED
    BY <1>4, <2>3, <2>4, <2>5, <2>6
<1>5. CASE MarkProcessed
  <2>1. PICK n \in Calls : WorksOn(n)
    BY <1>5 DEF MarkProcessed, AtStep, SnapshotInv
  <2>2. rg.last = n /\ (n \in stripped \/ \A v \in Volumes : HasSnapshot(<<n, v>>))
    BY <1>5, <2>1 DEF MarkProcessed, AtStep, WorksOn
  <2>3. rg'.processed = n /\ ctl' = Idle /\ UNCHANGED <<taken, asked, stripped, remote>>
    BY <1>0, <1>5, <2>2 DEF MarkProcessed, Write, GroupObject, sidecar
  <2> QED
    BY <2>2, <2>3, ZenonT(60) DEF SnapshotInv, HasSnapshot, Made
<1>6. CASE Fail \/ Refuse
  BY <1>6, ZenonT(60) DEF Fail, Refuse, EndReconcile, SnapshotInv, HasSnapshot, Made, sidecar
<1>7. CASE Writers \/ LoseResult \/ SyncCache \/ UNCHANGED vars
  <2> SUFFICES /\ UNCHANGED <<remote, ctl, taken, asked, stripped>> /\ rg'.processed = rg.processed
               /\ fresh' = FALSE \/ UNCHANGED <<fresh, rg>>
    BY <1>1, ZenonT(60)
  <2> QED
    BY <1>0, <1>7, ZenonT(60)
       DEF Writers, LoseResult, SyncCache, vars, sidecar, GroupObject, CreateSnapshot,
         UserWrites, AcceptAction, MarkInProgress, RestoreAnnotation, ReportResult, RecoverStatus,
         MonitorWrites, Write
<1> QED
  BY <1>2, <1>3, <1>4, <1>5, <1>6, <1>7, <1>r, <1>s DEF Next, User, Sidecar, Controller, Writers

\* The invariant holds in every state that the sidecar and the controller reach.
LEMMA Inductive == Spec => []Inv
<1>1. Init => Inv
  <2> SUFFICES ASSUME Init PROVE Inv
    OBVIOUS
  <2>1. rg = [want |-> NoPlace, action |-> FALSE, state |-> "Ready",
              ann |-> Absent, last |-> 0, processed |-> 0]
    BY ZenonT(60) DEF Init, None
  <2>2. remote \in RemoteCluster /\ remote.snaps = {}
    <3>1. PICK ns \in SUBSET KnownPlaces : remote = [ns |-> ns, contents |-> {}, snaps |-> {}]
      BY ZenonT(60) DEF Init
    <3> QED
      BY PlacesAssumption, <3>1 DEF RemoteCluster, PlaceOrNone, Annotations
  <2>3. TypeOK
    <3>1. 0 \in CallOrNone /\ NoPlace \in PlaceOrNone /\ Absent \in Annotations
      BY PlacesAssumption DEF CallOrNone, PlaceOrNone, Annotations
    <3>2. rg \in GroupObject
      BY <2>1, <3>1 DEF GroupObject
    <3>3. cache = [ann |-> Absent, last |-> 0, processed |-> 0]
      BY <2>1, SMTT(60) DEF Init, Seen
    <3>4. /\ taken = 0 /\ held = 0 /\ asked = [n \in Calls |-> NoPlace] /\ stripped = {}
          /\ ctl = Idle /\ fresh = FALSE
      BY DEF Init, None
    <3> QED
      BY <2>2, <3>1, <3>2, <3>3, <3>4, ZenonT(60) DEF TypeOK
  <2> QED
    BY <2>1, <2>2, <2>3, SMTT(60) DEF Init, Seen, Inv, ResultInv, SnapshotInv, Calls, None
<1>2. Inv /\ [Next]_vars => Inv'
  BY TypeStep, ResultStep, SnapshotStep DEF Inv
<1> QED
  BY <1>1, <1>2, PTL DEF Spec

\* A group that says that a snapshot action was processed has a snapshot of every
\* volume on the remote cluster, whatever was interrupted, read from an old cache or
\* overtaken by the next action; only removing the annotation of a result makes the
\* group say so with nothing taken (processSnapshotEvent).
THEOREM Processed == Spec => []ProcessedMeansTaken
<1>1. Inv => ProcessedMeansTaken
  <2> SUFFICES ASSUME Inv, NEW n \in Calls \ stripped, rg.processed = n, NEW v \in Volumes
               PROVE  \E s \in SnapsOf(n) : s.handle = <<n, v>>
    BY ZenonT(60) DEF ProcessedMeansTaken
  <2>1. HasSnapshot(<<n, v>>)
    BY PlacesAssumption DEF Inv, SnapshotInv, Calls, None
  <2> QED
    BY <2>1 DEF HasSnapshot, SnapsOf
<1> QED
  BY <1>1, Inductive, PTL

\* No snapshot is created in the namespace, or with the class, of a request made after
\* the call that took it, although the annotation that carries them is reused and the controller
\* reads it from a cache (processSnapshotEvent, updateRGSpecWithActionResult).
THEOREM Placed == Spec => []PlacedAsAsked
<1>1. Inv => PlacedAsAsked
  BY DEF Inv, SnapshotInv, PlacedAsAsked, SnapsOf
<1> QED
  BY <1>1, Inductive, PTL

-----------------------------------------------------------------------------
(* The commands of repctl.                                                   *)

VARIABLES single, empty, groups, cmd

\* groups[s] is Repctl's rg[s].
R == INSTANCE Repctl WITH rg <- groups

\* What the copy of the command shows when it is about to write, unless it is old.
WriteInv ==
  cmd.pc = "write" /\ cmd.fresh =>
    /\ cmd.kind # "failover" => groups[cmd.at].src \in R!Required.roles
    /\ cmd.kind = "exec" \/ R!PlannedInOneCluster \/ groups[cmd.at].lsu
    /\ R!PlannedInOneCluster \/ (cmd.poll = cmd.at /\ ~cmd.moved)

\* While the command waits for an action that is not reset, the group that it polls has the
\* action and a link state, and its time stays.
WaitInv ==
  cmd.pc = "wait" /\ ~cmd.cleared /\ ~R!PlannedInOneCluster =>
    /\ cmd.poll = cmd.at /\ groups[cmd.at].action /\ groups[cmd.at].lsu
    /\ empty \/ ~cmd.moved

CommandInv ==
  /\ R!TypeOK /\ WriteInv /\ WaitInv
  /\ cmd.wait => cmd.kind # "exec"
  /\ cmd.pc = "source" => cmd.kind = "failover"

\* What is required of a group depends on the command and the arrangement of the clusters.
LEMMA RequiredKept ==
  ASSUME single' = single, cmd'.kind = cmd.kind
  PROVE  R!Required' = R!Required
BY DEF R!Required, R!VerifyInputForFailoverAction,
     R!VerifyInputForAction, R!FailoverToRG, R!FailoverToCluster, R!FailbackToRG,
     R!FailbackToCluster,
     R!ReprotectAtRG, R!ReprotectAtCluster, R!SwapAtRG, R!SwapAtCluster, R!CreateSnapshot,
     R!ExecAction

\* A write of the sidecar or of another client keeps the invariant if it keeps the link state
\* and renews the time only of a group that the monitor may renew.
LEMMA StampKeeps ==
  ASSUME CommandInv, NEW s \in R!Sites, NEW g \in R!RG, NEW moves \in BOOLEAN, R!Stamp(s, g, moves),
         groups[s].lsu => g.lsu, moves => R!IsUpdateRequired(s)
  PROVE  CommandInv'
<1>1. /\ cmd'.pc = cmd.pc /\ cmd'.kind = cmd.kind /\ cmd'.arg = cmd.arg /\ cmd'.at = cmd.at
      /\ cmd'.poll = cmd.poll /\ cmd'.wait = cmd.wait
      /\ cmd'.fresh = (cmd.fresh /\ cmd.at # s)
      /\ cmd'.moved = (cmd.moved \/ (moves /\ cmd.pc # "idle" /\ cmd.poll = s))
      /\ cmd'.cleared = (cmd.cleared \/ (cmd.pc = "wait" /\ cmd.at = s /\ ~g.action))
      /\ cmd.at \in R!Sites /\ cmd' \in R!Command
  BY ZenonT(60) DEF CommandInv, R!TypeOK, R!Command, R!Stamp
<1>2. /\ groups' \in [R!Sites -> R!RG] /\ groups'[s] = g
      /\ \A t \in R!Sites : t # s => groups'[t] = groups[t]
      /\ single' = single /\ empty' = empty
  BY DEF CommandInv, R!TypeOK, R!Stamp
<1>3. R!Required' = R!Required /\ R!PlannedInOneCluster' = R!PlannedInOneCluster
  BY <1>1, <1>2, RequiredKept DEF R!PlannedInOneCluster
<1>4. WriteInv'
  BY <1>1, <1>2, <1>3, ZenonT(60) DEF CommandInv, WriteInv
<1>5. WaitInv'
  BY <1>1, <1>2, <1>3, ZenonT(60) DEF CommandInv, WaitInv, R!IsUpdateRequired
<1> QED
  BY <1>1, <1>2, <1>4, <1>5 DEF CommandInv, R!TypeOK

\* What the sidecar, the monitor and other clients do keeps the invariant.
LEMMA OutsideKeeps ==
  ASSUME CommandInv, NEW s \in R!Sites,
         \/ R!Accept(s) \/ R!Finish(s) \/ R!DropAction(s) \/ R!Report(s)
         \/ R!Monitor(s) \/ R!OtherClient(s)
  PROVE  CommandInv'
<1>1. groups[s] \in R!RG
  BY DEF CommandInv, R!TypeOK
<1>2. PICK g \in R!RG, moves \in BOOLEAN :
        R!Stamp(s, g, moves) /\ (groups[s].lsu => g.lsu) /\ (moves => R!IsUpdateRequired(s))
  <2>1. CASE R!Accept(s)
    <3>1. /\ [groups[s] EXCEPT !.phase = "running"] \in R!RG
          /\ [groups[s] EXCEPT !.action = FALSE] \in R!RG
          /\ [groups[s] EXCEPT !.phase = "running"].lsu = groups[s].lsu
          /\ [groups[s] EXCEPT !.action = FALSE].lsu = groups[s].lsu
      BY <1>1, ZenonT(60) DEF R!RG
    <3> QED
      BY <2>1, <3>1, ZenonT(60) DEF R!Accept
  <2>2. CASE R!Finish(s)
    <3>1. /\ [groups[s] EXCEPT !.phase = "done", !.action = FALSE] \in R!RG
          /\ [groups[s] EXCEPT !.phase = "done", !.action = FALSE].lsu = groups[s].lsu
      BY <1>1, ZenonT(60) DEF R!RG
    <3> QED
      BY <2>2, <3>1, ZenonT(60) DEF R!Finish
  <2>3. CASE R!DropAction(s)
    <3>1. /\ [groups[s] EXCEPT !.action = FALSE] \in R!RG
          /\ [groups[s] EXCEPT !.action = FALSE].lsu = groups[s].lsu
      BY <1>1, ZenonT(60) DEF R!RG
    <3> QED
      BY <2>3, <3>1, ZenonT(60) DEF R!DropAction
  <2>4. CASE R!Report(s)
    <3>1. /\ [groups[s] EXCEPT !.phase = "ready"] \in R!RG
          /\ [groups[s] EXCEPT !.phase = "ready"].lsu = groups[s].lsu
      BY <1>1 DEF R!RG
    <3>2. \A role \in BOOLEAN :
            /\ [groups[s] EXCEPT !.phase = "ready", !.src = role, !.lsu = TRUE] \in R!RG
            /\ [groups[s] EXCEPT !.phase = "ready", !.src = role, !.lsu = TRUE].lsu
      BY <1>1, ZenonT(60) DEF R!RG
    <3> QED
      BY <2>4, <3>1, <3>2, ZenonT(60) DEF R!Report, R!IsUpdateRequired
  <2>5. CASE R!Monitor(s)
    <3>1. \A role \in BOOLEAN :
            /\ [groups[s] EXCEPT !.src = role, !.lsu = TRUE] \in R!RG
            /\ [groups[s] EXCEPT !.src = role, !.lsu = TRUE].lsu
      BY <1>1, ZenonT(60) DEF R!RG
    <3>2. groups[s].src \in BOOLEAN
      BY <1>1 DEF R!RG
    <3> QED
      BY <1>1, <2>5, <3>1, <3>2, ZenonT(60) DEF R!Monitor
  <2>6. CASE R!OtherClient(s)
    <3>1. /\ [groups[s] EXCEPT !.action = TRUE] \in R!RG
          /\ [groups[s] EXCEPT !.action = TRUE].lsu = groups[s].lsu
      BY <1>1, ZenonT(60) DEF R!RG
    <3> QED
      BY <2>6, <3>1, ZenonT(60) DEF R!OtherClient
  <2> QED
    BY <2>1, <2>2, <2>3, <2>4, <2>5, <2>6
<1> QED
  BY <1>2, StampKeeps

\* A command that is at neither a write nor a poll has nothing to keep.
LEMMA CommandRests ==
  ASSUME CommandInv, UNCHANGED <<single, empty>>, groups' \in [R!Sites -> R!RG], cmd' \in R!Command,
         cmd'.pc \notin {"write", "wait"}, cmd'.wait => cmd'.kind # "exec",
         cmd'.pc = "source" => cmd'.kind = "failover"
  PROVE  CommandInv'
BY DEF CommandInv, R!TypeOK, WriteInv, WaitInv

\* A command goes on with a group that fits.
LEMMA FoundKeeps ==
  ASSUME CommandInv, UNCHANGED <<single, empty, groups>>, R!Fits(cmd.arg), R!Found(cmd.arg)
  PROVE  CommandInv'
<1>1. cmd.arg \in R!Sites /\ R!Peer(cmd.arg) \in R!Sites /\ groups' \in [R!Sites -> R!RG]
  BY DEF CommandInv, R!TypeOK, R!Command, R!Peer, R!Sites
<1>2. CASE cmd.kind = "failover"
  <2>1. /\ cmd' \in R!Command /\ cmd'.pc = "source" /\ cmd'.wait = cmd.wait
        /\ cmd'.kind = cmd.kind
    BY <1>1, <1>2, ZenonT(60) DEF CommandInv, R!TypeOK, R!Command, R!Found
  <2> QED
    BY <1>1, <1>2, <2>1, CommandRests DEF CommandInv
<1>3. CASE cmd.kind # "failover"
  <2>0. cmd' = [cmd EXCEPT !.pc = "write", !.poll = cmd.arg, !.at = cmd.arg, !.fresh = TRUE,
                           !.moved = FALSE]
    BY <1>3 DEF R!Found
  <2>1. /\ cmd' \in R!Command /\ cmd'.pc = "write" /\ cmd'.wait = cmd.wait
        /\ cmd'.kind = cmd.kind /\ cmd'.poll = cmd.arg /\ cmd'.at = cmd.arg /\ ~cmd'.moved
    BY <1>1, <2>0, ZenonT(60) DEF CommandInv, R!TypeOK, R!Command
  <2>2. /\ groups[cmd.arg].src \in R!Required.roles /\ R!Required' = R!Required
        /\ cmd.kind # "exec" => groups[cmd.arg].lsu
    <3>1. R!Required' = R!Required
      BY <2>1, RequiredKept
    <3>2. cmd.kind # "exec" => R!Required.link
      BY <1>3, ZenonT(60) DEF CommandInv, R!TypeOK, R!Command, R!Kinds, R!Required,
         R!VerifyInputForFailoverAction,
         R!VerifyInputForAction, R!FailoverToRG, R!FailoverToCluster, R!FailbackToRG,
         R!FailbackToCluster,
         R!ReprotectAtRG, R!ReprotectAtCluster, R!SwapAtRG, R!SwapAtCluster, R!CreateSnapshot,
         R!ExecAction
    <3> QED
      BY <3>1, <3>2 DEF R!Fits
  <2> QED
    BY <1>1, <1>3, <2>1, <2>2, ZenonT(60) DEF CommandInv, R!TypeOK, WriteInv, WaitInv
<1> QED
  BY <1>2, <1>3

\* Every step of the command keeps the invariant.
LEMMA RunKeeps == ASSUME CommandInv, R!Start \/ R!Run PROVE CommandInv'
<1>0. /\ R!NoCommand \in R!Command /\ R!NoCommand.pc = "idle" /\ ~R!NoCommand.wait
      /\ cmd \in R!Command /\ groups \in [R!Sites -> R!RG]
  BY DEF CommandInv, R!TypeOK, R!Command, R!NoCommand, R!Kinds, R!Sites
<1>1. CASE R!Start
  <2>1. PICK k \in R!Kinds, s \in R!Sites, w \in BOOLEAN :
          /\ k = "exec" => ~w
          /\ cmd' = [R!NoCommand EXCEPT !.pc = "find", !.kind = k, !.arg = s, !.wait = w]
    BY <1>1, ZenonT(60) DEF R!Start
  <2>2. cmd' \in R!Command /\ cmd'.pc = "find" /\ (cmd'.wait => cmd'.kind # "exec")
    BY <1>0, <2>1, ZenonT(60) DEF R!Command
  <2> QED
    BY <1>0, <1>1, <2>2, CommandRests, ZenonT(60) DEF R!Start
<1>2. CASE R!Find
  <2>1. CASE cmd' = [cmd EXCEPT !.pc = "next", !.arg = R!Peer(cmd.arg)]
    <3>1. cmd' \in R!Command /\ cmd'.pc = "next" /\ (cmd'.wait => cmd'.kind # "exec")
      BY <1>0, <2>1, ZenonT(60) DEF CommandInv, R!Command, R!Peer, R!Sites
    <3> QED
      BY <1>0, <1>2, <3>1, CommandRests DEF R!Find
  <2> QED
    BY <1>2, <2>1, FoundKeeps DEF R!Find
<1>3. CASE R!FindNext
  BY <1>3, FoundKeeps DEF R!FindNext
<1>4. CASE R!ReadSource
  <2>1. /\ cmd' \in R!Command /\ cmd'.pc = "write" /\ cmd'.wait = cmd.wait
        /\ cmd'.kind = cmd.kind /\ cmd'.at = cmd.at
        /\ single \/ (cmd'.poll = cmd.at /\ ~cmd'.moved /\ groups[cmd.at].lsu)
    BY <1>0, <1>4, ZenonT(60) DEF R!Command, R!ReadSource
  <2>2. cmd.kind = "failover"
    BY <1>4 DEF CommandInv, R!ReadSource
  <2> QED
    BY <1>0, <1>4, <2>1, <2>2
       DEF CommandInv, R!TypeOK, WriteInv, WaitInv, R!PlannedInOneCluster, R!ReadSource
<1>5. CASE R!Write
  <2>1. /\ groups' \in [R!Sites -> R!RG] /\ groups'[cmd.at].action
        /\ groups'[cmd.at].lsu = groups[cmd.at].lsu
    <3>1. cmd.at \in R!Sites /\ groups[cmd.at] \in R!RG
      BY <1>0 DEF R!Command
    <3>2. groups' = [groups EXCEPT ![cmd.at] = [groups[cmd.at] EXCEPT !.action = TRUE]]
      BY <1>5 DEF R!Write
    <3> QED
      BY <1>0, <3>1, <3>2, ZenonT(60) DEF R!RG
  <2>2. CASE cmd.wait
    <3>1. /\ cmd' \in R!Command /\ cmd'.pc = "wait" /\ cmd'.wait = cmd.wait
          /\ cmd'.kind = cmd.kind /\ cmd'.at = cmd.at /\ cmd'.poll = cmd.poll
          /\ cmd'.moved = cmd.moved
      BY <1>0, <1>5, <2>2, ZenonT(60) DEF R!Command, R!Write
    <3> QED
      BY <1>0, <1>5, <2>1, <2>2, <3>1
         DEF CommandInv, R!TypeOK, WriteInv, WaitInv, R!PlannedInOneCluster, R!Write
  <2>3. CASE ~cmd.wait
    BY <1>0, <1>5, <2>1, <2>3, CommandRests DEF R!Write
  <2> QED
    BY <2>2, <2>3
<1>6. CASE R!Succeed \/ R!TimeOut \/ R!Exit
  BY <1>0, <1>6, CommandRests DEF R!Succeed, R!TimeOut, R!Exit
<1> QED
  BY <1>1, <1>2, <1>3, <1>4, <1>5, <1>6 DEF R!Run

\* CommandInv is an invariant.
THEOREM CommandInductive == R!Spec => []CommandInv
<1>1. R!Init => CommandInv
  BY DEF R!Init, CommandInv, R!TypeOK, WriteInv, WaitInv, R!NoCommand, R!Command, R!Kinds, R!Sites
<1>2. CommandInv /\ [R!Next]_(R!vars) => CommandInv'
  <2>1. ASSUME CommandInv, R!Next PROVE CommandInv'
    BY <2>1, RunKeeps, OutsideKeeps DEF R!Next
  <2>2. ASSUME CommandInv, UNCHANGED R!vars PROVE CommandInv'
    BY <2>2, RequiredKept, ZenonT(60)
       DEF R!vars, CommandInv, R!TypeOK, WriteInv, WaitInv, R!PlannedInOneCluster
  <2> QED
    BY <2>1, <2>2
<1> QED
  BY <1>1, <1>2, PTL DEF R!Spec

\* The role and the link state that a command checked still hold when its update takes effect,
\* although the sidecar and other clients write the group in between.
THEOREM RequestsFit == R!Spec => R!RequestFits
<1>1. CommandInv /\ [R!Next]_(R!vars) =>
        [R!Write =>
           /\ cmd.kind # "failover" => groups[cmd.at].src \in R!Required.roles
           /\ cmd.kind = "exec" \/ R!PlannedInOneCluster \/ groups[cmd.at].lsu]_(R!vars)
  BY DEF CommandInv, WriteInv, R!Write
<1> QED
  BY <1>1, CommandInductive, PTL DEF R!Spec, R!RequestFits

\* A command that reports success waited until the action it requested was reset, in the cases
\* that SuccessMeansFinished names.
THEOREM SuccessIsTrue == R!Spec => R!SuccessMeansFinished
<1>1. CommandInv /\ [R!Next]_(R!vars) =>
        [R!Succeed => cmd.cleared \/ R!PlannedInOneCluster \/ empty]_(R!vars)
  BY DEF CommandInv, WaitInv, R!Succeed
<1> QED
  BY <1>1, CommandInductive, PTL DEF R!Spec, R!SuccessMeansFinished

=============================================================================
