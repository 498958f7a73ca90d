-------------------------- MODULE RGActionsProofs ---------------------------
(***************************************************************************)
(* The actions of a replication group, for any set of actions and whatever *)
(* fails, crashes or is read from a stale cache: a recorded success is     *)
(* one, no protection group is deleted under an action or left behind, and *)
(* the sidecar implements the lifecycle.                                   *)
(***************************************************************************)
EXTENDS RGActions, TLAPS

Run == [name : Actions \cup {None}, ff : BOOLEAN, out : {"none", "ok", "final", "retry"}]

Calls ==
  {"idle", "deletePG", "removeFinalizer", "setDeleting", "setInvalid", "clearInvalid",
   "setReady", "setError", "addFinalizer", "resetAction", "annotate", "mark", "resetEmpty",
   "resetInvalid", "reannotate", "execute", "record", "report", "dropAction", "recoverStatus"}

\* The calls made for a group with an action in progress.
InProgressCalls ==
  {"setError", "resetEmpty", "resetInvalid", "reannotate", "execute", "record", "report",
   "dropAction", "recoverStatus"}

\* What the reconciler carries from call to call, with a current copy or not.
RunInv ==
  /\ pc \in Calls
  /\ pc \in {"execute", "record", "report"} => run.name \in Actions
  /\ pc = "record" => run.out \in {"ok", "final"}
  /\ pc = "report" => run.out \in {"ok", "final", "retry"}

\* A current copy is still as it was when the next call was decided on.
FreshInv ==
  fresh =>
    /\ exists
    /\ pc = "setDeleting" => ToDelete(rg)
    /\ pc = "setInvalid" => ~rg.pg
    /\ pc = "clearInvalid" => rg.state = "Invalid"
    /\ pc = "setReady" => rg.fin /\ rg.pg
    /\ pc \in {"annotate", "mark"} =>
         ~rg.del /\ rg.action \in Actions /\ rg.state \in {"Ready", "Error"}
    /\ pc = "annotate" => (Parsed(rg) => rg.ann.done)
    /\ pc = "mark" => Parsed(rg) /\ ~rg.ann.done
    /\ pc \in InProgressCalls => rg.state = "InProgress"
    /\ pc = "reannotate" => rg.action \in Actions
    /\ pc \in {"execute", "record"} => Parsed(rg) /\ ~rg.ann.done /\ rg.ann.name = run.name
    /\ pc = "record" /\ run.out = "ok" => won
    /\ pc = "report" =>
         /\ Parsed(rg) /\ rg.ann.name = run.name
         /\ rg.ann.done <=> run.out # "retry"
         /\ rg.ann.done => (rg.ann.err <=> run.out = "final")
    /\ pc \in {"dropAction", "recoverStatus"} => Parsed(rg) /\ rg.ann.done

\* A group that is to be deleted stays so, and its protection group goes only then.
DeletionInv ==
  /\ ToDelete(cache) => ToDelete(rg)
  /\ pc \in {"deletePG", "removeFinalizer"} \/ ~pg => ToDelete(rg)
  /\ pc = "removeFinalizer" => ~pg

InUse == rg.state \in {"Ready", "Error", "InProgress"}

\* A group in use has the finalizer as long as it exists, and has its protection group.
UseInv ==
  /\ InUse => rg.pg
  /\ InUse /\ exists => rg.fin
  /\ InUse /\ ~exists => ~pg

\* Only an action that is supported has a result, and a success is one.
ResultInv == Parsed(rg) /\ rg.ann.done => rg.ann.name \in Actions /\ (rg.ann.err \/ won)

Inv == TypeOK /\ RunInv /\ FreshInv /\ DeletionInv /\ UseInv /\ ResultInv

\* Without the user's edits the annotation is there and names a supported action.
AnnotationInv ==
  /\ rg.ann # Broken /\ cache.ann # Broken
  /\ Parsed(rg) => rg.ann.name \in Actions
  /\ Parsed(cache) => cache.ann.name \in Actions
  /\ rg.state = "InProgress" => Parsed(rg)
  /\ cache.state = "InProgress" => Parsed(cache)
  /\ pc \notin {"resetEmpty", "resetInvalid", "reannotate", "setError"}
  /\ fresh /\ pc = "setReady" => rg.state = ""

-----------------------------------------------------------------------------
(* Lemmas *)

\* The fields of a group.
LEMMA RGFields ==
  ASSUME NEW o \in RG
  PROVE  /\ o.action \in Actions \cup {Bad, None} /\ o.pg \in BOOLEAN
         /\ o.ann \in Annotation \cup {None, Broken} /\ o.fin \in BOOLEAN /\ o.del \in BOOLEAN
         /\ o.state \in {"", "Invalid", "Ready", "Error", "Deleting", "InProgress"}
         /\ o.last \in LastAction
BY ZenonT(60) DEF RG

\* A parsed annotation.
LEMMA AnnotationFields ==
  ASSUME NEW o \in RG, Parsed(o)
  PROVE  /\ o.ann \in Annotation /\ o.ann.name \in Actions \cup {Bad}
         /\ o.ann.done \in BOOLEAN /\ o.ann.err \in BOOLEAN /\ o.ann.status \in BOOLEAN
BY RGFields, ZenonT(60) DEF Parsed, Annotation

\* A new annotation is one, and is not completed.
LEMMA NewAnnotation ==
  ASSUME NEW a \in Actions \cup {Bad}
  PROVE  /\ Started(a) \in Annotation /\ Started(a) \notin {None, Broken}
         /\ Started(a).name = a /\ ~Started(a).done
<1>1. Started(a) \in Annotation /\ Started(a).name = a /\ ~Started(a).done
  BY DEF Started, Annotation
<1> QED
  BY <1>1, ConstantAssumption

\* An annotation with a result is one.
LEMMA ResultAnnotation ==
  ASSUME NEW a \in Actions, NEW e \in BOOLEAN, NEW t \in BOOLEAN
  PROVE  LET n == [name |-> a, done |-> TRUE, err |-> e, status |-> t]
         IN  n \in Annotation /\ n \notin {None, Broken} /\ n.name = a /\ n.done /\ n.err = e
<1> DEFINE n == [name |-> a, done |-> TRUE, err |-> e, status |-> t]
<1>1. n \in Annotation /\ n.name = a /\ n.done /\ n.err = e
  BY DEF Annotation
<1> QED
  BY <1>1, ConstantAssumption, ZenonT(60)

\* Nothing to carry over.
LEMMA NoRunType == NoRun \in Run
BY DEF NoRun, Run

\* A new group has no annotation and no state.
LEMMA InitGroup ==
  ASSUME Init
  PROVE  rg.ann = None /\ rg.state = "" /\ ~rg.del
<1>1. PICK given, held \in BOOLEAN :
        rg = [action |-> None, pg |-> given, ann |-> None, apt |-> "absent", fin |-> held,
              del |-> FALSE, state |-> "", sname |-> None, last |-> NoLast, link |-> "none"]
  BY ZenonT(60) DEF Init
<1> QED
  BY <1>1, ZenonT(60)

\* Initially.
LEMMA InitInv == Init => Inv
<1> SUFFICES ASSUME Init PROVE Inv
  OBVIOUS
<1>1. PICK given, held \in BOOLEAN :
        /\ held => given
        /\ rg = [action |-> None, pg |-> given, ann |-> None, apt |-> "absent", fin |-> held,
                 del |-> FALSE, state |-> "", sname |-> None, last |-> NoLast, link |-> "none"]
  BY ZenonT(60) DEF Init
<1>2. rg.state = "" /\ ~rg.del /\ rg.ann = None
  BY InitGroup, ZenonT(60)
<1>3. rg \in RG
  <2>1. NoLast \in LastAction
    BY DEF NoLast, LastAction
  <2> QED BY <1>1, <2>1, ZenonT(60) DEF RG
<1>4. TypeOK
  BY <1>3, ZenonT(60) DEF Init, TypeOK, NoRun
<1>5. RunInv /\ FreshInv
  BY ZenonT(60) DEF Init, RunInv, FreshInv, Calls
<1>6. DeletionInv /\ UseInv /\ ResultInv
  BY <1>2, ZenonT(60) DEF Init, DeletionInv, UseInv, ResultInv, InUse, ToDelete, Parsed
<1> QED
  BY <1>4, <1>5, <1>6 DEF Inv

\* A read gives the current object or an older one, which is to be deleted only if the
\* current one is; it changes nothing but the reconciler.
LEMMA ReadStep ==
  ASSUME Inv, NEW c \in {rg, cache}, Reads(c), UNCHANGED Others, run' \in Run
  PROVE  /\ TypeOK' /\ UseInv' /\ ResultInv'
         /\ rg' = rg /\ exists' /\ pg' = pg /\ won' = won
         /\ c \in RG /\ (fresh' => c = rg) /\ (ToDelete(c) => ToDelete(rg))
         /\ ToDelete(cache)' => ToDelete(rg)'
<1>1. /\ UNCHANGED <<rg, exists, pg, mfresh, kfresh, won>> /\ exists
      /\ \/ c = rg /\ fresh' = TRUE /\ cache' = rg
         \/ c = cache /\ fresh' = FALSE /\ cache' = cache
  BY DEF Reads, Others, monitor, central
<1>2. TypeOK'
  BY <1>1, ZenonT(60) DEF Inv, TypeOK, Run
<1>3. UseInv' /\ ResultInv'
  BY <1>1 DEF Inv, UseInv, ResultInv, InUse, Parsed
<1>4. c \in RG /\ (fresh' => c = rg) /\ (ToDelete(c) => ToDelete(rg))
  BY <1>1 DEF Inv, TypeOK, DeletionInv
<1>5. ToDelete(cache)' => ToDelete(rg)'
  BY <1>1 DEF Inv, DeletionInv, ToDelete
<1> QED
  BY <1>1, <1>2, <1>3, <1>4, <1>5

\* Reconcile reads the group and decides on the next call.
LEMMA ReconcileReads ==
  ASSUME Inv, ReconcileDeletion \/ ReconcileInvalid \/ ProcessRGInNoState \/ ProcessRG
              \/ ProcessRGInProgress
  PROVE  Inv'
<1>r. run \in Run
  BY DEF Inv, TypeOK, Run
<1>i. ASSUME TypeOK', UseInv', ResultInv', ToDelete(cache)' => ToDelete(rg)', pg' = pg, rg' = rg,
             RunInv', FreshInv', pc' # "removeFinalizer", pc' = "deletePG" => ToDelete(rg)
      PROVE  Inv'
  <2>1. ~pg => ToDelete(rg)
    BY DEF Inv, DeletionInv
  <2>2. DeletionInv'
    BY <1>i, <2>1 DEF DeletionInv, ToDelete
  <2> QED BY <1>i, <2>2 DEF Inv
<1>1. CASE ReconcileDeletion
  <2>1. PICK c \in {rg, cache} :
          /\ Reads(c) /\ ToDelete(c)
          /\ \/ c.pg /\ pc' = "deletePG"
             \/ ~c.pg /\ c.state # "Deleting" /\ pc' = "setDeleting"
    BY <1>1 DEF ReconcileDeletion
  <2>2. run' = run /\ UNCHANGED Others
    BY <1>1 DEF ReconcileDeletion
  <2>3. RunInv'
    BY <2>1 DEF RunInv, Calls
  <2>4. FreshInv'
    BY <1>r, <2>1, <2>2, ReadStep DEF FreshInv, ToDelete, InProgressCalls
  <2> QED BY <1>i, <1>r, <2>1, <2>2, <2>3, <2>4, ReadStep
<1>2. CASE ReconcileInvalid
  <2>1. PICK c \in {rg, cache} :
          /\ Reads(c) /\ ~ToDelete(c)
          /\ \/ ~c.pg /\ c.state # "Invalid" /\ pc' = "setInvalid"
             \/ c.pg /\ c.state = "Invalid" /\ pc' = "clearInvalid"
    BY <1>2 DEF ReconcileInvalid
  <2>2. run' = run /\ UNCHANGED Others
    BY <1>2 DEF ReconcileInvalid
  <2>3. RunInv'
    BY <2>1 DEF RunInv, Calls
  <2>4. FreshInv'
    BY <1>r, <2>1, <2>2, ReadStep, SMTT(60) DEF FreshInv, InProgressCalls
  <2> QED BY <1>i, <1>r, <2>1, <2>2, <2>3, <2>4, ReadStep
<1>3. CASE ProcessRGInNoState
  <2>1. PICK c \in {rg, cache} :
          /\ Reads(c) /\ ~ToDelete(c) /\ c.pg /\ c.state = ""
          /\ pc' = IF c.fin THEN "setReady" ELSE "addFinalizer"
    BY <1>3, ZenonT(60) DEF ProcessRGInNoState
  <2>2. run' = run /\ UNCHANGED Others
    BY <1>3, ZenonT(60) DEF ProcessRGInNoState
  <2>3. RunInv'
    BY <2>1, ZenonT(60) DEF RunInv, Calls
  <2>4. FreshInv'
    BY <1>r, <2>1, <2>2, ReadStep, ZenonT(60) DEF FreshInv, InProgressCalls
  <2> QED BY <1>i, <1>r, <2>1, <2>2, <2>3, <2>4, ReadStep, ZenonT(60)
<1>4. CASE ProcessRG
  <2>1. PICK c \in {rg, cache} :
          /\ Reads(c) /\ ~ToDelete(c) /\ c.state \in {"Ready", "Error"}
          /\ \/ pc' = "resetAction"
             \/ c.action \in Actions /\ (Parsed(c) => c.ann.done) /\ pc' = "annotate"
             \/ c.action \in Actions /\ Parsed(c) /\ ~c.ann.done /\ pc' = "mark"
    BY <1>4 DEF ProcessRG
  <2>2. run' = run /\ UNCHANGED Others
    BY <1>4 DEF ProcessRG
  <2>3. RunInv'
    BY <2>1 DEF RunInv, Calls
  <2>4. FreshInv'
    BY <1>r, <2>1, <2>2, ReadStep, SMTT(60) DEF FreshInv, InProgressCalls, ToDelete, Parsed
  <2> QED BY <1>i, <1>r, <2>1, <2>2, <2>3, <2>4, ReadStep
<1>5. CASE ProcessRGInProgress
  <2>1. PICK c \in {rg, cache} :
          /\ Reads(c) /\ c.state = "InProgress"
          /\ \/ /\ c.ann \in {None, Broken} /\ UNCHANGED run
                /\ pc' = CASE c.action = None -> "resetEmpty"
                           [] c.action = Bad  -> "resetInvalid"
                           [] OTHER           -> "reannotate"
             \/ /\ Parsed(c) /\ c.ann.done /\ UNCHANGED run
                /\ pc' = IF c.action # None THEN "dropAction" ELSE "recoverStatus"
             \/ pc' = "setError" /\ UNCHANGED run
             \/ /\ Parsed(c) /\ ~c.ann.done /\ c.ann.name # Bad /\ pc' = "execute"
                /\ run' = [NoRun EXCEPT !.name = c.ann.name, !.ff = c.last.ff]
    BY <1>5, ZenonT(60) DEF ProcessRGInProgress
  <2>2. UNCHANGED Others
    BY <1>5 DEF ProcessRGInProgress
  <2>3. c \in RG
    BY <2>1 DEF Inv, TypeOK
  <2>4. CASE Parsed(c) /\ ~c.ann.done /\ c.ann.name # Bad /\ pc' = "execute"
             /\ run' = [NoRun EXCEPT !.name = c.ann.name, !.ff = c.last.ff]
    <3>1. c.ann.name \in Actions /\ c.last.ff \in BOOLEAN
      BY <2>3, <2>4, RGFields, AnnotationFields, ZenonT(60) DEF LastAction
    <3>2. run' \in Run /\ run'.name = c.ann.name
      BY <2>4, <3>1, ZenonT(60) DEF Run, NoRun
    <3>3. RunInv'
      BY <2>4, <3>1, <3>2 DEF RunInv, Calls
    <3>4. FreshInv'
      BY <2>1, <2>2, <2>4, <3>2, ReadStep DEF FreshInv, InProgressCalls, Parsed
    <3> QED BY <1>i, <2>1, <2>2, <2>4, <3>2, <3>3, <3>4, ReadStep
  <2>5. CASE /\ c.ann \in {None, Broken} /\ UNCHANGED run
             /\ pc' = CASE c.action = None -> "resetEmpty"
                        [] c.action = Bad  -> "resetInvalid"
                        [] OTHER           -> "reannotate"
    <3>1. pc' \in {"resetEmpty", "resetInvalid", "reannotate"}
          /\ (pc' = "reannotate" => c.action \in Actions)
      BY <2>3, <2>5, RGFields, ConstantAssumption, ZenonT(60)
    <3>2. RunInv'
      BY <3>1 DEF RunInv, Calls
    <3>3. FreshInv'
      BY <1>r, <2>1, <2>2, <2>5, <3>1, ReadStep DEF FreshInv, InProgressCalls
    <3> QED BY <1>i, <1>r, <2>1, <2>2, <2>5, <3>1, <3>2, <3>3, ReadStep
  <2>6. CASE /\ UNCHANGED run
             /\ \/ Parsed(c) /\ c.ann.done /\ pc' \in {"dropAction", "recoverStatus"}
                \/ pc' = "setError"
    <3>1. RunInv'
      BY <2>6 DEF RunInv, Calls
    <3>2. FreshInv'
      BY <1>r, <2>1, <2>2, <2>6, ReadStep DEF FreshInv, InProgressCalls, Parsed
    <3> QED BY <1>i, <1>r, <2>1, <2>2, <2>6, <3>1, <3>2, ReadStep
  <2> QED BY <2>1, <2>4, <2>5, <2>6
<1> QED
  BY <1>1, <1>2, <1>3, <1>4, <1>5

\* A write of the reconciler from a current copy, as far as it does not touch the deletion.
KeepsUse ==
  /\ rg' \in RG /\ rg'.pg = rg.pg /\ rg'.del = rg.del
  /\ rg.fin => rg'.fin
  /\ rg'.state = "InProgress" => rg.state = "InProgress" \/ ~rg.del
  /\ InUse' => InUse \/ (rg.pg /\ rg.fin)

\* Such a write keeps what concerns deletion and use.
LEMMA UpdateKeeps ==
  ASSUME Inv, fresh, KeepsUse, pc' \notin {"deletePG", "removeFinalizer"},
         UNCHANGED <<exists, pg, cache>>
  PROVE  exists /\ DeletionInv' /\ UseInv'
<1>1. exists
  BY DEF Inv, FreshInv
<1>2. ToDelete(rg) => ToDelete(rg)'
  BY DEF KeepsUse, ToDelete
<1>3. DeletionInv'
  BY <1>2 DEF Inv, DeletionInv, ToDelete
<1>4. UseInv'
  BY <1>1 DEF Inv, UseInv, KeepsUse, InUse
<1> QED
  BY <1>1, <1>3, <1>4

\* The states that are written on their own.
LEMMA NewStates ==
  /\ DOMAIN NewState = {"setDeleting", "setInvalid", "clearInvalid", "setReady", "setError"}
  /\ NewState["setDeleting"] = "Deleting" /\ NewState["setInvalid"] = "Invalid"
  /\ NewState["clearInvalid"] = "" /\ NewState["setReady"] = "Ready"
  /\ NewState["setError"] = "Error"
BY DEF NewState

\* The last call of a reconcile.
LEMMA LastStep ==
  ASSUME Inv, NEW o, Update(o), Last, KeepsUse,
         Parsed(rg)' /\ rg'.ann.done => Parsed(rg) /\ rg.ann = rg'.ann
  PROVE  Inv'
<1>1. /\ fresh /\ pc' = "idle" /\ fresh' = FALSE /\ run' = NoRun /\ won' = won
      /\ UNCHANGED <<exists, pg, cache>> /\ mfresh' = FALSE /\ kfresh' = FALSE
  BY DEF Update, Last, Return
<1>2. DeletionInv' /\ UseInv'
  BY <1>1, UpdateKeeps
<1>3. ResultInv'
  BY <1>1 DEF Inv, ResultInv
<1>4. TypeOK'
  BY <1>1, ZenonT(60) DEF Inv, TypeOK, KeepsUse, NoRun
<1>5. RunInv' /\ FreshInv'
  BY <1>1 DEF RunInv, FreshInv, Calls
<1> QED
  BY <1>2, <1>3, <1>4, <1>5 DEF Inv

\* What the report of a result does.
LEMMA ReportEffect ==
  ASSUME Inv, ReportResult
  PROVE  /\ fresh /\ pc = "report" /\ rg.state = "InProgress"
         /\ rg' \in RG /\ rg'.pg = rg.pg /\ rg'.del = rg.del /\ rg'.fin = rg.fin
         /\ rg'.ann = rg.ann
         /\ run.out \in {"ok", "final", "retry"}
         /\ rg'.state = CASE run.out = "ok" -> "Ready" [] run.out = "final" -> "Error"
                          [] OTHER -> "InProgress"
         /\ rg'.last.name = run.name /\ (rg'.last.cond = "ok" <=> run.out = "ok")
<1> DEFINE s == CASE run.out = "ok" -> "Ready" [] run.out = "final" -> "Error" [] OTHER -> rg.state
           last == [name |-> run.name, cond |-> IF run.out = "ok" THEN "ok" ELSE "err",
                    time |-> TRUE, ff |-> rg.last.ff \/ run.out # "ok"]
           sname == IF run.out = "retry" THEN rg.sname ELSE None
           link == IF run.out = "ok" THEN "source" ELSE rg.link
<1>t. rg \in RG /\ RunInv /\ FreshInv
  BY DEF Inv, TypeOK
<1>1. /\ fresh /\ pc = "report" /\ run.out \in {"ok", "final", "retry"} /\ run.name \in Actions
      /\ rg.state = "InProgress"
  BY <1>t DEF ReportResult, Update, RunInv, FreshInv, InProgressCalls
<1>2. /\ s \in {"Ready", "Error", "InProgress"} /\ last \in LastAction
      /\ last.name = run.name /\ (last.cond = "ok" <=> run.out = "ok")
  BY <1>t, <1>1, RGFields, ZenonT(60) DEF LastAction
<1>3. sname \in Actions \cup {None} /\ link \in {"none", "source", "target"}
  BY <1>t, ZenonT(60) DEF RG
<1>4. rg' = [rg EXCEPT !.state = s, !.sname = sname, !.last = last, !.link = link]
  BY <1>t, ZenonT(60) DEF ReportResult, Update, RG
<1>5. s = CASE run.out = "ok" -> "Ready" [] run.out = "final" -> "Error" [] OTHER -> "InProgress"
  BY <1>1
<1> HIDE DEF s, last, sname, link
<1>6. /\ rg' \in RG /\ rg'.pg = rg.pg /\ rg'.del = rg.del /\ rg'.fin = rg.fin
      /\ rg'.ann = rg.ann /\ rg'.state = s /\ rg'.last = last
  BY <1>t, <1>2, <1>3, <1>4, ZenonT(60) DEF RG
<1> QED
  BY <1>1, <1>2, <1>5, <1>6

\* What a status rebuilt from the annotation is.
LEMMA RecoverEffect ==
  ASSUME Inv, RecoverStatus
  PROVE  /\ fresh /\ rg.state = "InProgress" /\ Parsed(rg) /\ rg.ann.done
         /\ rg' \in RG /\ rg'.pg = rg.pg /\ rg'.del = rg.del /\ rg'.fin = rg.fin
         /\ rg'.ann = rg.ann /\ rg'.state \in {"Ready", "Error"}
         /\ rg'.last.name = rg.ann.name /\ (rg'.last.cond = "ok" <=> ~rg.ann.err)
<1> DEFINE s == IF rg.ann.err THEN "Error" ELSE "Ready"
           last == [name |-> rg.ann.name, cond |-> IF rg.ann.err THEN "err" ELSE "ok",
                    time |-> FALSE, ff |-> rg.last.ff]
           link == IF rg.ann.status THEN "source" ELSE "target"
<1>t. rg \in RG /\ FreshInv /\ ResultInv
  BY DEF Inv, TypeOK
<1>1. /\ fresh /\ pc = "recoverStatus" /\ rg.state = "InProgress" /\ Parsed(rg) /\ rg.ann.done
      /\ rg.ann.name \in Actions
  BY <1>t DEF RecoverStatus, Update, FreshInv, ResultInv, InProgressCalls
<1>2. /\ s \in {"Ready", "Error"} /\ last \in LastAction /\ link \in {"source", "target"}
      /\ last.name = rg.ann.name /\ (last.cond = "ok" <=> ~rg.ann.err)
  BY <1>t, <1>1, RGFields, ZenonT(60) DEF LastAction
<1>3. rg' = [rg EXCEPT !.state = s, !.sname = None, !.last = last, !.link = link]
  BY <1>t, ZenonT(60) DEF RecoverStatus, Update, RG
<1> HIDE DEF s, last, link
<1>4. /\ rg' \in RG /\ rg'.pg = rg.pg /\ rg'.del = rg.del /\ rg'.fin = rg.fin
      /\ rg'.ann = rg.ann /\ rg'.state = s /\ rg'.last = last
  BY <1>t, <1>2, <1>3, ZenonT(60) DEF RG
<1> QED
  BY <1>1, <1>2, <1>4

\* The writes that end a reconcile.
LEMMA LastWrites ==
  ASSUME Inv, UpdateState \/ AddFinalizer \/ ResetUnsupportedAction \/ MarkInProgress
              \/ (ResetInvalidAction /\ pc = "resetInvalid") \/ ReportResult \/ RecoverStatus
  PROVE  Inv'
<1>t. rg \in RG /\ run \in Run /\ FreshInv /\ UseInv /\ RunInv /\ ResultInv
  BY DEF Inv, TypeOK, Run
<1>1. CASE UpdateState
  <2>1. PICK s \in {"Deleting", "Invalid", "", "Ready", "Error"} :
          /\ Update([rg EXCEPT !.state = s, !.sname = None])
          /\ s = "Ready" => pc = "setReady"
          /\ s = "Error" => pc = "setError"
    BY <1>1, NewStates, ZenonT(60) DEF UpdateState
  <2>2. fresh /\ rg' = [rg EXCEPT !.state = s, !.sname = None] /\ Last
    BY <1>1, <2>1, ZenonT(60) DEF Update, UpdateState
  <2>3. /\ rg' \in RG /\ rg'.pg = rg.pg /\ rg'.del = rg.del /\ rg'.fin = rg.fin
        /\ rg'.state = s /\ rg'.ann = rg.ann
    BY <1>t, <2>2, ZenonT(60) DEF RG
  <2>4. KeepsUse
    BY <1>t, <2>1, <2>2, <2>3, ZenonT(60) DEF KeepsUse, FreshInv, InUse, InProgressCalls
  <2> QED BY <2>1, <2>2, <2>3, <2>4, LastStep, ZenonT(60) DEF Parsed
<1>2. CASE AddFinalizer
  <2>1. /\ rg' \in RG /\ rg'.pg = rg.pg /\ rg'.del = rg.del /\ rg'.fin
        /\ rg'.state = rg.state /\ rg'.ann = rg.ann
    BY <1>2, <1>t, ZenonT(60) DEF AddFinalizer, Update, RG
  <2>2. KeepsUse
    BY <2>1 DEF KeepsUse, InUse
  <2> QED BY <1>2, <2>1, <2>2, LastStep DEF AddFinalizer, Parsed
<1>3. CASE ResetUnsupportedAction
  <2>1. /\ rg' \in RG /\ rg'.pg = rg.pg /\ rg'.del = rg.del /\ rg'.fin = rg.fin
        /\ rg'.state = rg.state /\ rg'.ann = rg.ann
    BY <1>3, <1>t, ZenonT(60) DEF ResetUnsupportedAction, Update, RG
  <2>2. KeepsUse
    BY <2>1 DEF KeepsUse, InUse
  <2> QED BY <1>3, <2>1, <2>2, LastStep DEF ResetUnsupportedAction, Parsed
<1>4. CASE MarkInProgress
  <2>1. /\ fresh /\ pc = "mark"
        /\ rg' = [rg EXCEPT !.state = "InProgress", !.sname = rg.action, !.last = NoLast]
    BY <1>4 DEF MarkInProgress, Update
  <2>2. rg.action \in Actions /\ ~rg.del /\ rg.state \in {"Ready", "Error"}
    BY <1>t, <2>1 DEF FreshInv
  <2>3. /\ rg' \in RG /\ rg'.pg = rg.pg /\ rg'.del = rg.del /\ rg'.fin = rg.fin
        /\ rg'.state = "InProgress" /\ rg'.ann = rg.ann
    <3>1. NoLast \in LastAction
      BY DEF NoLast, LastAction
    <3> QED BY <1>t, <2>1, <2>2, <3>1, ZenonT(60) DEF RG
  <2>4. KeepsUse
    BY <2>2, <2>3 DEF KeepsUse, InUse
  <2> QED BY <1>4, <2>3, <2>4, LastStep DEF MarkInProgress, Parsed
<1>5. CASE ResetInvalidAction /\ pc = "resetInvalid"
  <2>1. /\ rg' \in RG /\ rg'.pg = rg.pg /\ rg'.del = rg.del /\ rg'.fin = rg.fin
        /\ rg'.state = rg.state /\ rg'.ann = None
    BY <1>5, <1>t, ZenonT(60) DEF ResetInvalidAction, Update, RG
  <2>2. KeepsUse
    BY <2>1 DEF KeepsUse, InUse
  <2> QED BY <1>5, <2>1, <2>2, LastStep DEF ResetInvalidAction, Parsed
<1>6. CASE ReportResult
  <2>1. KeepsUse
    BY <1>6, ReportEffect DEF KeepsUse, InUse
  <2> QED BY <1>6, <2>1, ReportEffect, LastStep DEF ReportResult, Parsed
<1>7. CASE RecoverStatus
  <2>1. KeepsUse
    BY <1>7, RecoverEffect DEF KeepsUse, InUse
  <2> QED BY <1>7, <2>1, RecoverEffect, LastStep DEF RecoverStatus, Parsed
<1> QED
  BY <1>1, <1>2, <1>3, <1>4, <1>5, <1>6, <1>7

\* The writes that another call follows.
LEMMA InnerWrites ==
  ASSUME Inv, Annotate \/ (ResetInvalidAction /\ pc = "resetEmpty") \/ Reannotate
              \/ RecordResult \/ DropAction
  PROVE  Inv'
<1>t. /\ rg \in RG /\ run \in Run /\ cache \in RG /\ exists \in BOOLEAN /\ pg \in BOOLEAN
      /\ won \in BOOLEAN /\ fresh \in BOOLEAN
      /\ FreshInv /\ UseInv /\ RunInv /\ ResultInv
  BY DEF Inv, TypeOK, Run
<1>f. /\ fresh /\ exists /\ fresh' = fresh /\ UNCHANGED <<exists, pg, cache>>
      /\ mfresh' = FALSE /\ kfresh' = FALSE
  BY <1>t DEF Annotate, ResetInvalidAction, Reannotate, RecordResult, DropAction, Update, Then,
              Last, FreshInv
\* What is left to show for each of them.
<1>i. ASSUME KeepsUse, run' \in Run, won' \in BOOLEAN, RunInv', FreshInv', ResultInv',
             pc' \notin {"deletePG", "removeFinalizer"}
      PROVE  Inv'
  <2>1. DeletionInv' /\ UseInv'
    BY <1>f, <1>i, UpdateKeeps
  <2>2. TypeOK'
    BY <1>f, <1>i, <1>t, ZenonT(60) DEF TypeOK, KeepsUse, Run
  <2> QED BY <1>i, <2>1, <2>2 DEF Inv
<1>1. CASE Annotate
  <2>1. /\ pc = "annotate" /\ rg' = [rg EXCEPT !.ann = Started(rg.action)]
        /\ pc' = "mark" /\ won' = FALSE /\ run' = run
    BY <1>1 DEF Annotate, Update
  <2>2. rg.action \in Actions /\ ~rg.del /\ rg.state \in {"Ready", "Error"}
    BY <1>f, <1>t, <2>1 DEF FreshInv
  <2>3. /\ rg' \in RG /\ rg'.pg = rg.pg /\ rg'.del = rg.del /\ rg'.fin = rg.fin
        /\ rg'.state = rg.state /\ rg'.action = rg.action /\ rg'.ann = Started(rg.action)
    BY <1>t, <2>1, <2>2, NewAnnotation, ZenonT(60) DEF RG
  <2>4. Parsed(rg)' /\ ~rg'.ann.done
    BY <2>2, <2>3, NewAnnotation DEF Parsed
  <2>5. KeepsUse
    BY <2>3 DEF KeepsUse, InUse
  <2>6. RunInv' /\ ResultInv'
    BY <2>1, <2>4 DEF RunInv, ResultInv, Calls
  <2>7. FreshInv'
    BY <1>f, <2>1, <2>2, <2>3, <2>4 DEF FreshInv, InProgressCalls
  <2> QED BY <1>i, <1>t, <2>1, <2>5, <2>6, <2>7, ZenonT(60)
<1>2. CASE ResetInvalidAction /\ pc = "resetEmpty"
  <2>1. /\ rg' = [rg EXCEPT !.action = None, !.ann = None]
        /\ pc' = "setReady" /\ won' = won /\ run' = run
    BY <1>2 DEF ResetInvalidAction, Update, Then
  <2>2. rg.state = "InProgress" /\ rg.fin /\ rg.pg
    BY <1>2, <1>f, <1>t, SMTT(60) DEF FreshInv, UseInv, InUse, InProgressCalls
  <2>3. /\ rg' \in RG /\ rg'.pg = rg.pg /\ rg'.del = rg.del /\ rg'.fin = rg.fin
        /\ rg'.state = rg.state /\ rg'.ann = None
    BY <1>t, <2>1, ZenonT(60) DEF RG
  <2>4. KeepsUse
    BY <2>3 DEF KeepsUse, InUse
  <2>5. RunInv' /\ ResultInv'
    BY <2>1, <2>3 DEF RunInv, ResultInv, Parsed, Calls
  <2>6. FreshInv'
    BY <1>f, <2>1, <2>2, <2>3 DEF FreshInv, InProgressCalls
  <2> QED BY <1>i, <1>t, <2>1, <2>4, <2>5, <2>6
<1>3. CASE Reannotate
  <2>1. /\ pc = "reannotate" /\ rg' = [rg EXCEPT !.ann = Started(rg.action)]
        /\ pc' = "execute" /\ won' = FALSE
        /\ run' = [NoRun EXCEPT !.name = rg.action, !.ff = rg.last.ff]
    BY <1>3 DEF Reannotate, Update
  <2>2. rg.action \in Actions /\ rg.state = "InProgress"
    BY <1>f, <1>t, <2>1 DEF FreshInv, InProgressCalls
  <2>3. /\ rg' \in RG /\ rg'.pg = rg.pg /\ rg'.del = rg.del /\ rg'.fin = rg.fin
        /\ rg'.state = rg.state /\ rg'.ann = Started(rg.action)
    BY <1>t, <2>1, <2>2, NewAnnotation, ZenonT(60) DEF RG
  <2>4. Parsed(rg)' /\ ~rg'.ann.done /\ rg'.ann.name = rg.action
    BY <2>2, <2>3, NewAnnotation DEF Parsed
  <2>5. run' \in Run /\ run'.name = rg.action
    BY <1>t, <2>1, <2>2, RGFields, ZenonT(60) DEF Run, NoRun, LastAction
  <2>6. KeepsUse
    BY <2>3 DEF KeepsUse, InUse
  <2>7. RunInv' /\ ResultInv'
    BY <2>1, <2>2, <2>4, <2>5 DEF RunInv, ResultInv, Calls
  <2>8. FreshInv'
    BY <1>f, <2>1, <2>2, <2>3, <2>4, <2>5 DEF FreshInv, InProgressCalls
  <2> QED BY <1>i, <2>1, <2>5, <2>6, <2>7, <2>8, ZenonT(60)
<1>4. CASE RecordResult
  <2> DEFINE ann == [name |-> run.name, done |-> TRUE, err |-> run.out = "final",
                     status |-> run.out = "ok"]
  <2>1. /\ pc = "record" /\ rg' = [rg EXCEPT !.action = None, !.ann = ann, !.apt = "reset"]
        /\ pc' = "report" /\ won' = won /\ run' = run
    BY <1>4 DEF RecordResult, Update, Then
  <2>2. /\ run.name \in Actions /\ run.out \in {"ok", "final"} /\ rg.state = "InProgress"
        /\ run.out = "ok" => won
    BY <1>f, <1>t, <2>1 DEF FreshInv, RunInv, InProgressCalls
  <2>3. /\ ann \in Annotation /\ ann \notin {None, Broken} /\ ann.name = run.name /\ ann.done
        /\ ann.err = (run.out = "final")
    BY <2>2, ResultAnnotation, ZenonT(60)
  <2> HIDE DEF ann
  <2>4. /\ rg' \in RG /\ rg'.pg = rg.pg /\ rg'.del = rg.del /\ rg'.fin = rg.fin
        /\ rg'.state = rg.state /\ rg'.ann = ann
    BY <1>t, <2>1, <2>3, ZenonT(60) DEF RG
  <2>5. KeepsUse
    BY <2>4 DEF KeepsUse, InUse
  <2>6. RunInv' /\ ResultInv'
    BY <2>1, <2>2, <2>3, <2>4, ZenonT(60) DEF RunInv, ResultInv, Calls
  <2>7. FreshInv'
    BY <1>f, <2>1, <2>2, <2>3, <2>4, ZenonT(60) DEF FreshInv, InProgressCalls, Parsed
  <2> QED BY <1>i, <1>t, <2>1, <2>5, <2>6, <2>7
<1>5. CASE DropAction
  <2>1. /\ pc = "dropAction" /\ rg' = [rg EXCEPT !.action = None]
        /\ pc' = "recoverStatus" /\ won' = won /\ run' = run
    BY <1>5 DEF DropAction, Update, Then
  <2>2. rg.state = "InProgress" /\ Parsed(rg) /\ rg.ann.done
    BY <1>f, <1>t, <2>1 DEF FreshInv, InProgressCalls
  <2>3. /\ rg' \in RG /\ rg'.pg = rg.pg /\ rg'.del = rg.del /\ rg'.fin = rg.fin
        /\ rg'.state = rg.state /\ rg'.ann = rg.ann
    BY <1>t, <2>1, ZenonT(60) DEF RG
  <2>4. KeepsUse
    BY <2>3 DEF KeepsUse, InUse
  <2>5. RunInv' /\ ResultInv'
    BY <1>t, <2>1, <2>3 DEF RunInv, ResultInv, Parsed, Calls
  <2>6. FreshInv'
    BY <1>f, <2>1, <2>2, <2>3 DEF FreshInv, InProgressCalls, Parsed
  <2> QED BY <1>i, <1>t, <2>1, <2>4, <2>5, <2>6
<1> QED
  BY <1>1, <1>2, <1>3, <1>4, <1>5

\* The calls of the driver, and the removal of the finalizer.
LEMMA DriverCalls ==
  ASSUME Inv, Execute \/ DeleteProtectionGroup \/ RemoveFinalizer
  PROVE  Inv'
<1>t. TypeOK /\ rg \in RG /\ run \in Run /\ FreshInv /\ UseInv /\ RunInv /\ ResultInv /\ DeletionInv
  BY DEF Inv, TypeOK, Run
<1>1. CASE Execute
  <2>1. /\ pc = "execute" /\ UNCHANGED <<rg, exists, pg, fresh, cache, mfresh, kfresh>>
        /\ won' \in BOOLEAN /\ (won => won')
    BY <1>1, <1>t, ZenonT(60) DEF Execute, monitor, central, TypeOK
  <2>2. /\ run' \in Run /\ run'.name = run.name
        /\ \/ pc' = "record" /\ run'.out \in {"ok", "final"}
           \/ pc' = "report" /\ run'.out = "retry"
    BY <1>1, <1>t DEF Execute, Run
  <2>3. TypeOK'
    BY <1>t, <2>1, <2>2 DEF TypeOK, Run
  <2>4. RunInv'
    BY <1>t, <2>1, <2>2 DEF RunInv, Calls
  <2>5. DeletionInv' /\ UseInv' /\ ResultInv'
    BY <1>t, <2>1, <2>2 DEF DeletionInv, UseInv, ResultInv, InUse, ToDelete, Parsed
  <2>6. fresh /\ run'.out = "ok" => won'
    <3>1. fresh => Parsed(rg) /\ rg.ann.name = run.name
      BY <1>t, <2>1, ZenonT(60) DEF FreshInv
    <3>2. run'.out = "ok" => won' = (won \/ (Parsed(rg) /\ rg.ann.name = run.name))
      BY <1>1, <1>t DEF Execute, Run
    <3> QED BY <3>1, <3>2, ZenonT(60)
  <2>7. FreshInv'
    <3>1. fresh => /\ exists /\ rg.state = "InProgress"
                   /\ Parsed(rg) /\ ~rg.ann.done /\ rg.ann.name = run.name
      BY <1>t, <2>1, SMTT(60) DEF FreshInv, InProgressCalls
    <3>2. Parsed(rg)' = Parsed(rg)
      BY <2>1 DEF Parsed
    <3> QED BY <2>1, <2>2, <2>6, <3>1, <3>2, SMTT(60) DEF FreshInv, InProgressCalls
  <2> QED BY <2>3, <2>4, <2>5, <2>7 DEF Inv
<1>2. CASE DeleteProtectionGroup
  <2>1. pc = "deletePG" /\ ToDelete(rg) /\ UNCHANGED <<rg, exists, cache, mfresh, kfresh, won>>
    BY <1>2, <1>t DEF DeleteProtectionGroup, DeletionInv, monitor, central
  <2>2. \/ pg' = FALSE /\ pc' = "removeFinalizer" /\ fresh' = fresh /\ run' = run
        \/ pg' = pg /\ pc' = "setDeleting" /\ fresh' = fresh /\ run' = run
        \/ pg' = pg /\ pc' = "idle" /\ fresh' = FALSE /\ run' = NoRun
    BY <1>2 DEF DeleteProtectionGroup, Return
  <2>r. run' \in Run
    BY <1>t, <2>2, NoRunType
  <2>3. TypeOK'
    BY <1>t, <2>1, <2>2, <2>r, ZenonT(60) DEF TypeOK, Run
  <2>4. RunInv'
    BY <2>2 DEF RunInv, Calls
  <2>5. DeletionInv'
    BY <1>t, <2>1, <2>2, SMTT(60) DEF DeletionInv, ToDelete
  <2>6. UseInv' /\ ResultInv'
    BY <1>t, <2>1, <2>2, SMTT(60) DEF UseInv, ResultInv, InUse, Parsed, TypeOK
  <2>7. FreshInv'
    BY <1>t, <2>1, <2>2, ZenonT(60) DEF FreshInv, InProgressCalls, ToDelete
  <2> QED BY <2>3, <2>4, <2>5, <2>6, <2>7 DEF Inv
<1>3. CASE RemoveFinalizer
  <2>1. /\ ToDelete(rg) /\ ~pg /\ UNCHANGED <<pg, cache, mfresh, kfresh, won>>
        /\ rg' = [rg EXCEPT !.fin = FALSE] /\ exists' = FALSE
        /\ pc' = "idle" /\ fresh' = FALSE /\ run' = NoRun
    BY <1>3, <1>t DEF RemoveFinalizer, DeletionInv, Return, monitor, central
  <2>2. /\ rg' \in RG /\ rg'.pg = rg.pg /\ rg'.del = rg.del /\ rg'.state = rg.state
        /\ rg'.ann = rg.ann
    BY <1>t, <2>1, ZenonT(60) DEF RG
  <2>3. TypeOK'
    BY <1>t, <2>1, <2>2, ZenonT(60) DEF TypeOK, NoRun
  <2>4. RunInv' /\ FreshInv'
    BY <2>1 DEF RunInv, FreshInv, Calls
  <2>5. DeletionInv' /\ UseInv' /\ ResultInv'
    BY <1>t, <2>1, <2>2 DEF DeletionInv, UseInv, ResultInv, InUse, ToDelete, Parsed
  <2> QED BY <2>3, <2>4, <2>5 DEF Inv
<1> QED
  BY <1>1, <1>2, <1>3

\* A reconcile that ends early writes nothing; the cache, the monitor and the replication
\* controller may read at any time.
LEMMA OtherReads ==
  ASSUME Inv, Conflict \/ Abort \/ SyncCache \/ MonitorRead \/ MonitorFails
              \/ ProcessLastAction \/ ProcessingFails
  PROVE  Inv'
<1>0. mfresh \in BOOLEAN /\ kfresh \in BOOLEAN
  BY DEF Inv, TypeOK
<1>1. /\ UNCHANGED <<rg, exists, pg, won>> /\ cache' \in {cache, rg}
      /\ mfresh' \in BOOLEAN /\ kfresh' \in BOOLEAN
  BY <1>0, ZenonT(60) DEF Conflict, Abort, SyncCache, MonitorRead, MonitorFails, ProcessLastAction,
         ProcessingFails, monitor, central, recon
<1>2. \/ pc' = "idle" /\ fresh' = FALSE /\ run' = NoRun
      \/ UNCHANGED <<pc, fresh, run>>
  BY ZenonT(60) DEF Conflict, Abort, SyncCache, MonitorRead, MonitorFails, ProcessLastAction,
         ProcessingFails, recon, Return
<1>r. run' \in Run
  <2>1. run \in Run
    BY DEF Inv, TypeOK, Run
  <2> QED BY <1>2, <2>1, NoRunType
<1>3. TypeOK'
  BY <1>1, <1>2, <1>r, ZenonT(60) DEF Inv, TypeOK, Run
<1>4. RunInv' /\ FreshInv'
  <2>1. CASE pc' = "idle" /\ fresh' = FALSE
    BY <2>1, SMTT(60) DEF RunInv, FreshInv, Calls
  <2>2. CASE UNCHANGED <<pc, fresh, run>>
    BY <1>1, <2>2, SMTT(60) DEF Inv, RunInv, FreshInv, ToDelete, Parsed
  <2> QED BY <1>2, <2>1, <2>2, ZenonT(60)
<1>5. DeletionInv' /\ UseInv' /\ ResultInv'
  BY <1>1, <1>2, SMTT(60) DEF Inv, DeletionInv, UseInv, ResultInv, InUse, ToDelete, Parsed
<1> QED
  BY <1>3, <1>4, <1>5 DEF Inv

\* A write of another process makes the reconciler's copy stale; none of them changes the
\* state, takes the finalizer or completes an action.
LEMMA ForeignWrites ==
  ASSUME Inv, MonitorWrite \/ MarkProcessed \/ User
  PROVE  Inv'
<1>t. TypeOK /\ rg \in RG /\ UseInv /\ RunInv /\ ResultInv /\ DeletionInv
  BY DEF Inv, TypeOK
<1>1. /\ UNCHANGED <<pg, pc, run, cache, won>> /\ fresh' = FALSE /\ exists
      /\ mfresh' \in BOOLEAN /\ kfresh' \in BOOLEAN
  BY <1>t, ZenonT(60)
     DEF MonitorWrite, MarkProcessed, User, RequestAction, SetProtectionGroup, DeleteRG,
              EditAnnotation, UserWrites, TypeOK
<1>2. /\ rg' \in RG /\ rg'.state = rg.state /\ rg'.fin = rg.fin
      /\ (rg.pg => rg'.pg) /\ (rg.del => rg'.del)
      /\ Parsed(rg)' /\ rg'.ann.done => rg'.ann = rg.ann
  <2>1. CASE MonitorWrite
    <3>1. \/ rg' = rg
          \/ \E l \in {"none", "source", "target"} : rg' = [rg EXCEPT !.link = l]
      <4>1. rg.link \in {"none", "source", "target"}
        BY <1>t, ZenonT(60) DEF RG
      <4> QED BY <2>1, <4>1 DEF MonitorWrite
    <3>2. CASE rg' = rg
      BY <1>t, <3>2, ZenonT(60)
    <3>3. ASSUME NEW l \in {"none", "source", "target"}, rg' = [rg EXCEPT !.link = l]
          PROVE  /\ rg' \in RG /\ rg'.state = rg.state /\ rg'.fin = rg.fin
                 /\ (rg.pg => rg'.pg) /\ (rg.del => rg'.del)
                 /\ Parsed(rg)' /\ rg'.ann.done => rg'.ann = rg.ann
      BY <1>t, <3>3, ZenonT(60) DEF RG
    <3> QED BY <3>1, <3>2, <3>3
  <2>2. CASE MarkProcessed
    BY <1>t, <2>2, ZenonT(60) DEF MarkProcessed, RG
  <2>3. ASSUME NEW a \in Actions \cup {Bad}, RequestAction(a)
        PROVE  rg' \in RG /\ rg'.state = rg.state /\ rg'.fin = rg.fin /\ rg'.pg = rg.pg
               /\ rg'.del = rg.del /\ rg'.ann = rg.ann
    BY <1>t, <2>3, ZenonT(60) DEF RequestAction, UserWrites, RG
  <2>4. CASE SetProtectionGroup
    BY <1>t, <2>4, ZenonT(60) DEF SetProtectionGroup, UserWrites, RG
  <2>5. CASE DeleteRG
    BY <1>t, <2>5, ZenonT(60) DEF DeleteRG, UserWrites, RG
  <2>6. CASE EditAnnotation
    <3>1. PICK ann \in {None, Broken, Started(Bad)} : rg' = [rg EXCEPT !.ann = ann]
      BY <2>6 DEF EditAnnotation, UserWrites
    <3>2. ann \in Annotation \cup {None, Broken} /\ (ann \notin {None, Broken} => ~ann.done)
      BY NewAnnotation
    <3>3. /\ rg' \in RG /\ rg'.state = rg.state /\ rg'.fin = rg.fin /\ rg'.pg = rg.pg
          /\ rg'.del = rg.del /\ rg'.ann = ann
      BY <1>t, <3>1, <3>2, ZenonT(60) DEF RG
    <3> QED BY <3>2, <3>3, ZenonT(60) DEF Parsed
  <2> QED BY <2>1, <2>2, <2>3, <2>4, <2>5, <2>6, ZenonT(60) DEF User
<1>3. exists' \in BOOLEAN /\ (exists' \/ ~rg.fin)
  BY <1>t, <1>1, RGFields, ZenonT(60) DEF MonitorWrite, MarkProcessed, User, RequestAction,
     SetProtectionGroup, DeleteRG, EditAnnotation, TypeOK
<1>4. TypeOK'
  BY <1>1, <1>2, <1>3, <1>t, ZenonT(60) DEF TypeOK
<1>5. RunInv' /\ FreshInv'
  BY <1>1, <1>t, ZenonT(60) DEF RunInv, FreshInv
<1>6. ToDelete(rg) => ToDelete(rg)'
  BY <1>2 DEF ToDelete
<1>7. DeletionInv'
  BY <1>1, <1>6, <1>t DEF DeletionInv, ToDelete
<1>8. UseInv'
  BY <1>1, <1>2, <1>3, <1>t DEF UseInv, InUse
<1>9. ResultInv'
  BY <1>1, <1>2, <1>t DEF ResultInv, Parsed
<1> QED
  BY <1>4, <1>5, <1>7, <1>8, <1>9 DEF Inv

\* Inv is inductive.
LEMMA Inductive == Inv /\ [Next]_vars => Inv'
<1> SUFFICES ASSUME Inv, [Next]_vars PROVE Inv'
  OBVIOUS
<1>1. CASE Reconcile
  <2>1. CASE ResetInvalidAction
    BY <2>1, LastWrites, InnerWrites DEF ResetInvalidAction
  <2> QED
    BY <1>1, <2>1, ReconcileReads, LastWrites, InnerWrites, DriverCalls, OtherReads DEF Reconcile
<1>2. CASE UNCHANGED vars
  <2>t. TypeOK'
    BY <1>2, ZenonT(60) DEF vars, recon, monitor, central, Inv, TypeOK
  <2>1. RunInv' /\ FreshInv'
    BY <1>2, ZenonT(60) DEF vars, recon, monitor, central, Inv, RunInv, FreshInv, ToDelete, Parsed
  <2>2. DeletionInv' /\ UseInv' /\ ResultInv'
    BY <1>2 DEF vars, recon, monitor, central, Inv, DeletionInv, UseInv, ResultInv, InUse,
                ToDelete, Parsed
  <2> QED
    BY <2>t, <2>1, <2>2 DEF Inv
<1> QED
  BY <1>1, <1>2, OtherReads, ForeignWrites DEF Next

-----------------------------------------------------------------------------
(* Safety *)

\* For any set of actions, a result recorded as success comes from a successful execution of
\* the action the annotation names, whatever was stale, repeated or edited by the user.
THEOREM RealSuccess == Spec => []SuccessIsReal
<1>1. Inv => SuccessIsReal
  BY DEF Inv, ResultInv, SuccessIsReal, SuccessRecorded
<1> QED
  BY <1>1, InitInv, Inductive, PTL DEF Spec

\* The protection group is never deleted under an action in progress, also when the
\* deletion is decided on from a stale copy.
THEOREM NotInAction == Spec => []NoGroupDeletedInAction
<1>1. Inv => NoGroupDeletedInAction
  BY DEF Inv, DeletionInv, ToDelete, NoGroupDeletedInAction
<1> QED
  BY <1>1, InitInv, Inductive, PTL DEF Spec

\* A group that has been taken into use does not leave its protection group behind.
THEOREM NotOrphaned == Spec => []NoOrphanedGroup
<1>1. Inv => NoOrphanedGroup
  BY DEF Inv, UseInv, InUse, NoOrphanedGroup
<1> QED
  BY <1>1, InitInv, Inductive, PTL DEF Spec

-----------------------------------------------------------------------------
(* The lifecycle *)

\* The name and the report that the annotation and the status stand for.
NameOf == IF Parsed(rg) THEN rg.ann.name ELSE None
ReportOf == IF Phase = "reported" THEN <<rg.last.name, rg.last.cond = "ok">> ELSE None

\* A step that changes neither the annotation, nor the last action, nor whether an action
\* is in progress, is none of the lifecycle.
LEMMA LifecycleKept ==
  ASSUME rg'.ann = rg.ann, rg'.last = rg.last,
         rg'.state = "InProgress" <=> rg.state = "InProgress"
  PROVE  UNCHANGED Lifecycle!vars
<1>1. Parsed(rg)' = Parsed(rg)
  BY DEF Parsed
<1>2. SuccessRecorded' = SuccessRecorded
  BY <1>1 DEF SuccessRecorded
<1>3. Phase' = Phase
  BY <1>1 DEF Phase
<1> QED
  BY <1>1, <1>2, <1>3 DEF Lifecycle!vars

\* AnnotationInv is inductive when the user leaves the annotation alone.
LEMMA AnnotationStep ==
  ASSUME UserEdits = FALSE, Inv, Inv', AnnotationInv, [Next]_vars
  PROVE  AnnotationInv'
<1>t. rg \in RG /\ rg' \in RG /\ run \in Run /\ FreshInv /\ RunInv
  BY DEF Inv, TypeOK, Run
\* A step that leaves the group and the calls of the reconciler alone.
<1>k. ASSUME rg'.ann = rg.ann, rg'.state = "InProgress" => rg.state = "InProgress",
             cache' \in {cache, rg}, pc' \in {pc, "idle"}, fresh' => fresh /\ rg' = rg
      PROVE  AnnotationInv'
  BY <1>k, ZenonT(60) DEF AnnotationInv, Parsed
\* A read of the reconciler.
<1>r. ASSUME NEW c \in {rg, cache}, Reads(c), UNCHANGED Others,
             pc' \notin {"resetEmpty", "resetInvalid", "reannotate", "setError"},
             pc' = "setReady" => c.state = ""
      PROVE  AnnotationInv'
  <2>1. rg' = rg /\ cache' \in {cache, rg} /\ (fresh' => c = rg)
    BY <1>r, ZenonT(60) DEF Reads, Others
  <2> QED BY <1>r, <2>1, ZenonT(60) DEF AnnotationInv, Parsed
<1>1. CASE ReconcileDeletion \/ ReconcileInvalid \/ ProcessRGInNoState \/ ProcessRG
  <2>1. PICK c \in {rg, cache} :
          /\ Reads(c)
          /\ \/ pc' \in {"deletePG", "setDeleting", "setInvalid", "clearInvalid", "addFinalizer",
                         "resetAction", "annotate", "mark"}
             \/ c.state = "" /\ pc' = "setReady"
    BY <1>1, ZenonT(60) DEF ReconcileDeletion, ReconcileInvalid, ProcessRGInNoState, ProcessRG
  <2>2. UNCHANGED Others
    BY <1>1, ZenonT(60) DEF ReconcileDeletion, ReconcileInvalid, ProcessRGInNoState, ProcessRG
  <2> QED BY <1>r, <2>1, <2>2, ZenonT(60)
<1>2. CASE ProcessRGInProgress
  <2>1. PICK c \in {rg, cache} :
          /\ Reads(c) /\ c.state = "InProgress"
          /\ \/ c.ann \in {None, Broken}
             \/ Parsed(c) /\ c.ann.name = Bad
             \/ pc' \in {"dropAction", "recoverStatus", "execute"}
    BY <1>2 DEF ProcessRGInProgress
  <2>2. Parsed(c) /\ c.ann.name # Bad
    BY <2>1, ConstantAssumption, ZenonT(60) DEF AnnotationInv
  <2>3. UNCHANGED Others
    BY <1>2 DEF ProcessRGInProgress
  <2> QED BY <1>r, <2>1, <2>2, <2>3, ZenonT(60) DEF Parsed
<1>3. CASE UpdateState
  <2>1. PICK s \in {"Deleting", "Invalid", "", "Ready", "Error"} :
          rg' = [rg EXCEPT !.state = s, !.sname = None]
    BY <1>3, NewStates, ZenonT(60) DEF UpdateState, Update
  <2>2. rg'.ann = rg.ann /\ rg'.state # "InProgress"
    BY <1>t, <2>1, ZenonT(60) DEF RG
  <2> QED BY <1>3, <1>k, <2>2, ZenonT(60) DEF UpdateState, Update, Last, Return
<1>4. CASE AddFinalizer \/ ResetUnsupportedAction \/ ReportResult \/ RecoverStatus \/ DropAction
           \/ RemoveFinalizer
  <2>1. rg'.ann = rg.ann /\ (rg'.state = "InProgress" => rg.state = "InProgress")
    <3>1. CASE AddFinalizer
      BY <1>t, <3>1, ZenonT(60) DEF AddFinalizer, Update, RG
    <3>2. CASE ResetUnsupportedAction
      BY <1>t, <3>2, ZenonT(60) DEF ResetUnsupportedAction, Update, RG
    <3>3. CASE ReportResult
      BY <3>3, ReportEffect
    <3>4. CASE RecoverStatus
      BY <3>4, RecoverEffect
    <3>5. CASE DropAction
      BY <1>t, <3>5, ZenonT(60) DEF DropAction, Update, RG
    <3>6. CASE RemoveFinalizer
      BY <1>t, <3>6, ZenonT(60) DEF RemoveFinalizer, RG
    <3> QED BY <1>4, <3>1, <3>2, <3>3, <3>4, <3>5, <3>6, SMTT(60)
  <2>2. CASE ~DropAction
    <3>1. cache' = cache /\ pc' = "idle" /\ fresh' = FALSE
      BY <1>4, <2>2 DEF AddFinalizer, ResetUnsupportedAction, ReportResult, RecoverStatus,
                        RemoveFinalizer, Update, Last, Return
    <3> QED BY <1>k, <2>1, <3>1
  <2>3. CASE DropAction
    <3>1. cache' = cache /\ pc' = "recoverStatus"
      BY <2>3 DEF DropAction, Update, Then
    <3> QED BY <2>1, <3>1, ZenonT(60) DEF AnnotationInv, Parsed
  <2> QED BY <2>2, <2>3
<1>5. CASE Annotate
  <2>1. /\ pc = "annotate" /\ fresh /\ rg' = [rg EXCEPT !.ann = Started(rg.action)]
        /\ pc' = "mark" /\ cache' = cache
    BY <1>5 DEF Annotate, Update
  <2>2. rg.action \in Actions
    BY <1>t, <2>1 DEF FreshInv
  <2>3. rg'.ann = Started(rg.action)
    BY <1>t, <2>1, ZenonT(60) DEF RG
  <2>4. rg'.ann \notin {None, Broken} /\ rg'.ann.name \in Actions
    BY <2>2, <2>3, NewAnnotation
  <2> QED BY <2>1, <2>4 DEF AnnotationInv, Parsed
<1>6. CASE MarkInProgress
  <2>1. /\ Parsed(rg) /\ pc' = "idle" /\ cache' = cache
        /\ rg' = [rg EXCEPT !.state = "InProgress", !.sname = rg.action, !.last = NoLast]
    BY <1>6, <1>t DEF MarkInProgress, Update, FreshInv, Last, Return
  <2>2. rg'.ann = rg.ann
    BY <1>t, <2>1, ZenonT(60) DEF RG
  <2> QED BY <2>1, <2>2, ZenonT(60) DEF AnnotationInv, Parsed
<1>7. CASE ResetInvalidAction \/ Reannotate
  BY <1>7, ZenonT(60) DEF ResetInvalidAction, Reannotate, AnnotationInv
<1>8. CASE Execute \/ DeleteProtectionGroup
  BY <1>8, ZenonT(60) DEF Execute, DeleteProtectionGroup, Return, AnnotationInv, Parsed
<1>9. CASE RecordResult
  <2> DEFINE ann == [name |-> run.name, done |-> TRUE, err |-> run.out = "final",
                     status |-> run.out = "ok"]
  <2>1. /\ pc = "record" /\ rg' = [rg EXCEPT !.action = None, !.ann = ann, !.apt = "reset"]
        /\ pc' = "report" /\ cache' = cache
    BY <1>9 DEF RecordResult, Update, Then
  <2>2. run.name \in Actions
    BY <1>t, <2>1 DEF RunInv
  <2>3. ann \notin {None, Broken} /\ ann.name \in Actions
    BY <2>2, ResultAnnotation, ZenonT(60)
  <2> HIDE DEF ann
  <2>4. rg'.ann = ann
    BY <1>t, <2>1, ZenonT(60) DEF RG
  <2> QED BY <2>1, <2>3, <2>4 DEF AnnotationInv, Parsed
<1>10. CASE Conflict \/ Abort \/ SyncCache \/ MonitorRead \/ MonitorFails \/ ProcessLastAction
            \/ ProcessingFails \/ UNCHANGED vars
  <2>1. /\ rg' = rg /\ cache' \in {cache, rg}
        /\ UNCHANGED <<pc, fresh>> \/ (pc' = "idle" /\ fresh' = FALSE)
    BY <1>10, ZenonT(60) DEF Conflict, Abort, SyncCache, MonitorRead, MonitorFails, ProcessLastAction,
                 ProcessingFails, Return, vars, recon
  <2> QED BY <1>k, <2>1
<1>11. CASE MonitorWrite \/ MarkProcessed \/ User
  <2>1. rg'.ann = rg.ann /\ rg'.state = rg.state
    <3>1. CASE MonitorWrite \/ MarkProcessed
      BY <1>t, <3>1, ZenonT(60) DEF MonitorWrite, MarkProcessed, RG
    <3>2. CASE User
      BY <1>t, <3>2, ZenonT(60)
         DEF User, RequestAction, SetProtectionGroup, DeleteRG, EditAnnotation,
                        UserWrites, RG
    <3> QED BY <1>11, <3>1, <3>2
  <2>2. fresh' = FALSE /\ pc' = pc /\ cache' = cache
    BY <1>11 DEF MonitorWrite, MarkProcessed, User, RequestAction, SetProtectionGroup, DeleteRG,
                 EditAnnotation, UserWrites
  <2> QED BY <1>k, <2>1, <2>2
<1> QED
  BY <1>1, <1>2, <1>3, <1>4, <1>5, <1>6, <1>7, <1>8, <1>9, <1>10, <1>11 DEF Next, Reconcile

\* Every step of the sidecar is one of the lifecycle, or none.
LEMMA LifecycleStep ==
  ASSUME UserEdits = FALSE, Inv, AnnotationInv, [Next]_vars
  PROVE  [Lifecycle!Next]_(Lifecycle!vars)
<1>t. rg \in RG /\ run \in Run /\ FreshInv /\ RunInv /\ ResultInv /\ UseInv
  BY DEF Inv, TypeOK, Run
<1>1. CASE Annotate
  <2>1. /\ pc = "annotate" /\ fresh /\ rg' = [rg EXCEPT !.ann = Started(rg.action)]
    BY <1>1 DEF Annotate, Update
  <2>2. /\ rg.action \in Actions /\ rg.state \in {"Ready", "Error"}
        /\ Parsed(rg) => rg.ann.done
    BY <1>t, <2>1 DEF FreshInv
  <2>3. rg'.ann = Started(rg.action)
    BY <1>t, <2>1, ZenonT(60) DEF RG
  <2>4. Parsed(rg)' /\ ~rg'.ann.done /\ rg'.ann.name = rg.action
    BY <2>2, <2>3, NewAnnotation, ZenonT(60) DEF Parsed
  <2>5. Phase \in {"idle", "reported"}
    BY <2>2 DEF Phase
  <2>6. Phase' = "accepted"
    BY <2>4 DEF Phase
  <2>7. NameOf' = rg.action /\ ReportOf' = None /\ SuccessRecorded' = FALSE
    BY <2>4, <2>6 DEF NameOf, ReportOf, SuccessRecorded
  <2>8. Lifecycle!Accept(rg.action)
    BY <2>5, <2>6, <2>7, SMTT(60) DEF Lifecycle!Accept, NameOf, ReportOf
  <2> QED BY <2>2, <2>8 DEF Lifecycle!Next
<1>2. CASE MarkInProgress
  <2>1. /\ Parsed(rg) /\ ~rg.ann.done
        /\ rg' = [rg EXCEPT !.state = "InProgress", !.sname = rg.action, !.last = NoLast]
    BY <1>2, <1>t DEF MarkInProgress, Update, FreshInv
  <2>2. rg'.ann = rg.ann /\ Parsed(rg)'
    BY <1>t, <2>1, ZenonT(60) DEF RG, Parsed
  <2>3. Phase = "accepted" /\ Phase' = "accepted"
    BY <2>1, <2>2 DEF Phase
  <2>4. NameOf' = NameOf /\ ReportOf' = ReportOf /\ SuccessRecorded' = SuccessRecorded
    BY <2>1, <2>2, <2>3 DEF NameOf, ReportOf, SuccessRecorded
  <2> QED BY <2>3, <2>4, ZenonT(60) DEF Lifecycle!vars, NameOf, ReportOf
<1>3. CASE RecordResult
  <2> DEFINE ann == [name |-> run.name, done |-> TRUE, err |-> run.out = "final",
                     status |-> run.out = "ok"]
  <2>1. /\ pc = "record" /\ fresh
        /\ rg' = [rg EXCEPT !.action = None, !.ann = ann, !.apt = "reset"]
    BY <1>3 DEF RecordResult, Update
  <2>2. /\ run.name \in Actions /\ rg.state = "InProgress"
        /\ Parsed(rg) /\ ~rg.ann.done /\ rg.ann.name = run.name
    BY <1>t, <2>1 DEF FreshInv, RunInv, InProgressCalls
  <2>3. ann \notin {None, Broken} /\ ann.name = run.name /\ ann.done
    BY <2>2, ResultAnnotation, ZenonT(60)
  <2> HIDE DEF ann
  <2>4. rg'.ann = ann /\ rg'.state = "InProgress"
    BY <1>t, <2>1, <2>2, ZenonT(60) DEF RG
  <2>5. Parsed(rg)' /\ rg'.ann.done /\ rg'.ann.name = rg.ann.name
    BY <2>2, <2>3, <2>4 DEF Parsed
  <2>6. Phase = "accepted" /\ Phase' = "finished"
    BY <2>2, <2>4, <2>5 DEF Phase
  <2>7. NameOf' = NameOf /\ ReportOf' = ReportOf
    BY <2>2, <2>5, <2>6, SMTT(60) DEF NameOf, ReportOf
  <2>8. Lifecycle!Finish(SuccessRecorded') /\ SuccessRecorded' \in BOOLEAN
    BY <2>6, <2>7, ZenonT(60) DEF Lifecycle!Finish, NameOf, ReportOf, SuccessRecorded
  <2> QED BY <2>8 DEF Lifecycle!Next
<1>4. CASE ReportResult /\ run.out = "retry"
  <2>1. /\ rg'.ann = rg.ann /\ Parsed(rg) /\ Parsed(rg)' /\ ~rg.ann.done
    BY <1>4, <1>t, ReportEffect DEF FreshInv, Parsed
  <2>2. Phase = "accepted" /\ Phase' = "accepted"
    BY <2>1 DEF Phase
  <2>3. NameOf' = NameOf /\ ReportOf' = ReportOf /\ SuccessRecorded' = SuccessRecorded
    BY <2>1, <2>2, SMTT(60) DEF NameOf, ReportOf, SuccessRecorded
  <2> QED BY <2>2, <2>3 DEF Lifecycle!vars, NameOf, ReportOf
\* The result is reported, by the reconcile that got it or by a later one.
<1>5. CASE (ReportResult /\ run.out # "retry") \/ RecoverStatus
  <2>1. /\ Parsed(rg) /\ rg.ann.done /\ rg.state = "InProgress"
        /\ rg'.ann = rg.ann /\ rg'.state # "InProgress"
        /\ rg'.last.name = rg.ann.name /\ (rg'.last.cond = "ok" <=> ~rg.ann.err)
    <3>1. CASE ReportResult /\ run.out # "retry"
      <4>1. /\ Parsed(rg) /\ rg.ann.name = run.name /\ rg.ann.done
            /\ rg.ann.err <=> run.out = "final"
        BY <1>t, <3>1, ReportEffect DEF FreshInv
      <4> QED BY <3>1, <4>1, ReportEffect
    <3>2. CASE RecoverStatus
      BY <3>2, RecoverEffect, SMTT(60)
    <3> QED BY <1>5, <3>1, <3>2, ZenonT(60)
  <2>2. Parsed(rg)'
    BY <2>1 DEF Parsed
  <2>3. Phase = "finished" /\ Phase' = "reported"
    BY <2>1, <2>2 DEF Phase
  <2>4. /\ NameOf = rg.ann.name /\ NameOf' = NameOf
        /\ SuccessRecorded' = SuccessRecorded /\ (SuccessRecorded = (rg'.last.cond = "ok"))
    BY <2>1, <2>2, ZenonT(60) DEF NameOf, SuccessRecorded
  <2>5. ReportOf' = <<NameOf, SuccessRecorded>>
    BY <2>1, <2>3, <2>4, SMTT(60) DEF ReportOf
  <2>6. Lifecycle!Report
    BY <2>3, <2>4, <2>5, ZenonT(60) DEF Lifecycle!Report, NameOf, ReportOf
  <2> QED BY <2>6 DEF Lifecycle!Next
<1>6. CASE UpdateState
  <2>1. PICK s \in {"Deleting", "Invalid", "", "Ready", "Error"} :
          rg' = [rg EXCEPT !.state = s, !.sname = None]
    BY <1>6, NewStates, ZenonT(60) DEF UpdateState, Update
  <2>2. rg.state # "InProgress"
    <3>1. fresh /\ pc \in {"setDeleting", "setInvalid", "clearInvalid", "setReady"}
      BY <1>6, NewStates, ZenonT(60) DEF UpdateState, Update, AnnotationInv
    <3> QED BY <1>t, <3>1, ZenonT(60) DEF FreshInv, ToDelete, UseInv, InUse, AnnotationInv
  <2>3. rg'.ann = rg.ann /\ rg'.last = rg.last /\ rg'.state # "InProgress"
    BY <1>t, <2>1, ZenonT(60) DEF RG
  <2> QED BY <2>2, <2>3, LifecycleKept, ZenonT(60)
<1>7. CASE AddFinalizer \/ ResetUnsupportedAction \/ DropAction \/ RemoveFinalizer
  <2>1. rg'.ann = rg.ann /\ rg'.last = rg.last /\ rg'.state = rg.state
    BY <1>7, <1>t, ZenonT(60)
       DEF AddFinalizer, ResetUnsupportedAction, DropAction, RemoveFinalizer, Update, RG
  <2> QED BY <2>1, LifecycleKept
<1>8. CASE ResetInvalidAction \/ Reannotate
  BY <1>8, ZenonT(60) DEF ResetInvalidAction, Reannotate, AnnotationInv
<1>9. CASE MonitorWrite \/ MarkProcessed \/ User
  <2>1. rg'.ann = rg.ann /\ rg'.last = rg.last /\ rg'.state = rg.state
    <3>1. CASE MonitorWrite \/ MarkProcessed
      BY <1>t, <3>1, ZenonT(60) DEF MonitorWrite, MarkProcessed, RG
    <3>2. CASE User
      BY <1>t, <3>2, ZenonT(60) DEF User, RequestAction, SetProtectionGroup, DeleteRG, EditAnnotation,
                        UserWrites, RG
    <3> QED BY <1>9, <3>1, <3>2
  <2> QED BY <2>1, LifecycleKept
<1>10. CASE rg' = rg
  BY <1>10, LifecycleKept
<1>11. ASSUME ReconcileDeletion \/ ReconcileInvalid \/ ProcessRGInNoState \/ ProcessRG
              \/ ProcessRGInProgress \/ Execute \/ DeleteProtectionGroup \/ Conflict \/ Abort
              \/ SyncCache \/ MonitorRead \/ MonitorFails \/ ProcessLastAction
              \/ ProcessingFails \/ UNCHANGED vars
       PROVE  rg' = rg
  BY <1>11, ZenonT(60) DEF ReconcileDeletion, ReconcileInvalid, ProcessRGInNoState, ProcessRG,
       ProcessRGInProgress, Others, Execute, DeleteProtectionGroup, Conflict, Abort, SyncCache,
       MonitorRead, MonitorFails, ProcessLastAction, ProcessingFails, vars
<1> QED
  BY <1>1, <1>2, <1>3, <1>4, <1>5, <1>6, <1>7, <1>8, <1>9, <1>10, <1>11 DEF Next, Reconcile

\* The sidecar implements the lifecycle for any set of actions, as long as the user leaves
\* the Action annotation alone: one action at a time, with one result that is never changed
\* and is reported before the next action is accepted.
THEOREM Refinement ==
  ASSUME UserEdits = FALSE
  PROVE  Spec => ImplementsLifecycle
<1>1. Init => AnnotationInv
  <2> SUFFICES ASSUME Init PROVE AnnotationInv
    OBVIOUS
  <2>1. cache = rg /\ pc = "idle" /\ ~fresh
    BY ZenonT(60) DEF Init
  <2> QED BY <2>1, InitGroup, ConstantAssumption, ZenonT(60) DEF AnnotationInv, Parsed
<1>2. Inv /\ Inv' /\ AnnotationInv /\ [Next]_vars => AnnotationInv'
  BY AnnotationStep, ZenonT(60)
<1>3. Init => Lifecycle!Init
  <2> SUFFICES ASSUME Init PROVE Lifecycle!Init
    OBVIOUS
  <2>1. ~Parsed(rg)
    BY InitGroup, ZenonT(60) DEF Parsed
  <2>2. Phase = "idle"
    BY <2>1 DEF Phase
  <2> QED BY <2>1, <2>2 DEF Lifecycle!Init, SuccessRecorded
<1>4. Inv /\ AnnotationInv /\ [Next]_vars => [Lifecycle!Next]_(Lifecycle!vars)
  BY LifecycleStep, ZenonT(60)
<1> QED
  BY <1>1, <1>2, <1>3, <1>4, InitInv, Inductive, PTL
  DEF Spec, ImplementsLifecycle, Lifecycle!Spec
=============================================================================
