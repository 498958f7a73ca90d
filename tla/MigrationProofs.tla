-------------------------- MODULE MigrationProofs ---------------------------
(**************************************************************************)
(* Proofs about the two parts of a migration.  MigrationGroup: the state   *)
(* of a group never runs ahead of the array and never moves back, for any  *)
(* number of groups and nodes; a group that is alone is committed only     *)
(* after a rescan of every node.  VolumeMigration: a migration without     *)
(* disruption loses no data, for any number of volumes and of commands.    *)
(**************************************************************************)
EXTENDS MigrationGroup, TLAPS

\* The states a reconcile can fail in.
Working == {"Ready", "Migrated", "CommitReady"}

\* The state of a group fits the call the migrator makes next for it.
CallInv(g) ==
  /\ pc[g] = "migrate" => mg[g].state = "Ready"
  /\ pc[g] = "commit" => mg[g].state = "CommitReady"
  /\ pc[g] = "advance" => mg[g].state \in Working \cup {"Committed"}
  /\ pc[g] = "error" => mg[g].state \in Working
  /\ mg[g].state = "Error" => mg[g].last \in Working

\* The array is as far as the state says, and already as far as the next state when
\* that is about to be written.
ArrayInv(g) ==
  /\ Reached(g) \in {"Migrated", "CommitReady"} => array[g] # "source"
  /\ Reached(g) \in {"Committed", "Deleting"} => array[g] = "committed"
  /\ pc[g] = "advance" /\ mg[g].state = "Ready" => array[g] # "source"
  /\ pc[g] = "advance" /\ mg[g].state = "CommitReady" => array[g] = "committed"

StateInv == TypeOK /\ \A g \in Groups : CallInv(g) /\ ArrayInv(g)

\* How far a group has come.
Rank == [s \in States |->
  IF s = "" THEN 0 ELSE IF s = "Ready" THEN 1 ELSE IF s = "Migrated" THEN 2
  ELSE IF s = "CommitReady" THEN 3 ELSE IF s = "Committed" THEN 4 ELSE 5]

\* No error, retry or conflict throws a group back to an earlier state.
NeverBack == \A g \in Groups : Rank[Reached(g)] <= Rank[Reached(g)']

OneGroup == \A g, h \in Groups : g = h

\* A label, and what the migrator remembers of the labels, stand for rescans after the
\* migration by the array.
RescanInv(g) ==
  /\ \A n \in Nodes : npc[n][g] = "rescan" => array[g] # "source"
  /\ \A n \in Nodes : npc[n][g] = "label" \/ label[n] => n \in rescanned[g]
  /\ \/ AllSynced
     \/ pc[g] = "advance" /\ mg[g].state = "Migrated"
     \/ Reached(g) \in {"CommitReady", "Committed", "Deleting"}
     \/ array[g] = "committed"
     => rescanned[g] = Nodes

-----------------------------------------------------------------------------
(* Lemmas *)

\* A group has a state and a last action.
LEMMA MGFields ==
  ASSUME NEW o \in MG
  PROVE  o.state \in States /\ o.last \in States /\ o.st \in {"absent", "present", "gone"}
BY DEF MG

\* The order of the states.
LEMMA NextStates ==
  /\ NextState["Ready"] = "Migrated" /\ NextState["Migrated"] = "CommitReady"
  /\ NextState["CommitReady"] = "Committed" /\ NextState["Committed"] = "Deleting"
BY DEF NextState

\* A step of the migrator or the user for one group leaves the others alone.
LEMMA OthersKept ==
  ASSUME NEW h \in Groups, CallInv(h), ArrayInv(h),
         mg'[h] = mg[h], pc'[h] = pc[h], array'[h] = array[h]
  PROVE  CallInv(h)' /\ ArrayInv(h)'
BY DEF CallInv, ArrayInv, Reached

\* Initially.
LEMMA InitState == Init => StateInv
<1> SUFFICES ASSUME Init PROVE StateInv
  OBVIOUS
<1>1. NewMG \in MG /\ NewMG.state = ""
  BY DEF NewMG, MG, States
<1>2. TypeOK
  BY <1>1, ZenonT(60) DEF Init, TypeOK
<1>3. \A g \in Groups : CallInv(g) /\ ArrayInv(g)
  BY <1>1, ZenonT(60) DEF Init, CallInv, ArrayInv, Reached
<1> QED
  BY <1>2, <1>3 DEF StateInv

\* The steps of a group's reconcile, and of the user for it, keep types and invariant.
LEMMA GroupStep ==
  ASSUME StateInv, NEW g \in Groups,
         Migrator(g) \/ CreateMG(g) \/ DeleteMG(g) \/ AnnotateMG(g) \/ Fail(g)
  PROVE  StateInv'
<1>t. TypeOK /\ \A h \in Groups : CallInv(h) /\ ArrayInv(h)
  BY DEF StateInv
<1>m. /\ mg[g] \in MG /\ mg[g].state \in States /\ mg[g].last \in States
      /\ mg[g].st \in {"absent", "present", "gone"}
  BY <1>t, MGFields DEF TypeOK
<1>c. CallInv(g) /\ ArrayInv(g)
  BY <1>t
\* What is left to show for each action: the types, and the invariant for g itself.
<1>o. ASSUME TypeOK', CallInv(g)', ArrayInv(g)',
             \A h \in Groups : h # g => mg'[h] = mg[h] /\ pc'[h] = pc[h] /\ array'[h] = array[h]
      PROVE  StateInv'
  BY <1>o, <1>t, OthersKept DEF StateInv
<1>1. CASE ProcessMGInNoState(g)
  <2>1. PICK o \in MG : /\ mg' = [mg EXCEPT ![g] = o]
                        /\ o.state = IF mg[g].fin THEN "Ready" ELSE ""
    <3> DEFINE w == IF mg[g].fin THEN [mg[g] EXCEPT !.state = "Ready"]
                                 ELSE [mg[g] EXCEPT !.fin = TRUE]
    <3>0. mg[g].state = ""
      BY <1>1, ZenonT(60) DEF ProcessMGInNoState
    <3>1. w \in MG /\ w.state = IF mg[g].fin THEN "Ready" ELSE ""
      BY <1>m, <3>0, ZenonT(60) DEF MG, States
    <3>2. mg' = [mg EXCEPT ![g] = w]
      BY <1>1, ZenonT(60) DEF ProcessMGInNoState, Write
    <3> QED BY <3>1, <3>2, ZenonT(60)
  <2>2. /\ pc' = pc /\ array' = array /\ pc[g] = "idle"
        /\ UNCHANGED <<migrator, nodes, array, rescanned>>
    BY <1>1, ZenonT(60) DEF ProcessMGInNoState, Reconciles, migrator
  <2>3. TypeOK' BY <1>t, <2>1, <2>2, ZenonT(60) DEF TypeOK, migrator, nodes
  <2>4. mg'[g] = o /\ pc'[g] = "idle" BY <1>t, <2>1, <2>2, ZenonT(60) DEF TypeOK
  <2>5. CallInv(g)' /\ ArrayInv(g)' BY <2>1, <2>4, ZenonT(60) DEF CallInv, ArrayInv, Reached
  <2> QED BY <1>o, <1>t, <2>1, <2>2, <2>3, <2>5, ZenonT(60) DEF TypeOK
<1>2. CASE Retry(g)
  <2>0. mg[g].state = "Error" /\ mg[g].last \in Working /\ pc[g] = "idle"
    BY <1>2, <1>c DEF Retry, Reconciles, CallInv
  <2>1. PICK o \in MG : mg' = [mg EXCEPT ![g] = o] /\ o.state = mg[g].last
    <3> DEFINE w == [mg[g] EXCEPT !.state = mg[g].last, !.last = "Error"]
    <3>1. w \in MG /\ w.state = mg[g].last
      BY <1>m, ZenonT(60) DEF MG, States
    <3>2. mg' = [mg EXCEPT ![g] = w]
      BY <1>2, <2>0, ZenonT(60) DEF Retry, Write, Working
    <3> QED BY <3>1, <3>2, ZenonT(60)
  <2>2. UNCHANGED <<migrator, nodes, array, rescanned>>
    BY <1>2 DEF Retry
  <2>3. TypeOK' BY <1>t, <2>1, <2>2 DEF TypeOK, migrator, nodes
  <2>4. mg'[g] = o /\ pc'[g] = "idle" /\ array' = array
    BY <1>t, <2>0, <2>1, <2>2 DEF TypeOK, migrator
  <2>5. CallInv(g)' /\ ArrayInv(g)'
    BY <1>c, <2>0, <2>1, <2>4 DEF CallInv, ArrayInv, Reached, Working
  <2> QED BY <1>o, <1>t, <2>1, <2>2, <2>3, <2>5 DEF TypeOK, migrator
<1>3. CASE StartArrayMigrate(g)
  <2>1. TypeOK' BY <1>3, <1>t DEF TypeOK, StartArrayMigrate, Begin, nodes
  <2>2. CallInv(g)' /\ ArrayInv(g)'
    BY <1>3, <1>c, <1>t DEF TypeOK, StartArrayMigrate, Begin, CallInv, ArrayInv, Reached, Working
  <2> QED BY <1>3, <1>o, <1>t, <2>1, <2>2 DEF StartArrayMigrate, Begin, TypeOK
<1>4. CASE ArrayMigrate(g)
  <2>1. TypeOK' BY <1>4, <1>t, ZenonT(60) DEF TypeOK, ArrayMigrate, nodes
  <2>2. CallInv(g)' /\ ArrayInv(g)'
    BY <1>4, <1>c, <1>t DEF TypeOK, ArrayMigrate, CallInv, ArrayInv, Reached, Working
  <2> QED BY <1>4, <1>o, <1>t, <2>1, <2>2 DEF ArrayMigrate, TypeOK
<1>5. CASE NodeRescan(g)
  <2>1. PICK step \in {"advance", "error"} :
          Begin(g, step) /\ UNCHANGED <<mg, nodes, array, rescanned>> /\ AllSynced' \in BOOLEAN
    BY <1>5, <1>t DEF NodeRescan, TypeOK
  <2>2. TypeOK' BY <2>1, <1>t DEF TypeOK, Begin, nodes
  <2>3. CallInv(g)' /\ ArrayInv(g)'
    BY <1>5, <1>c, <1>t, <2>1, SMTT(60)
    DEF TypeOK, NodeRescan, Begin, CallInv, ArrayInv, Reached, Working
  <2> QED BY <1>o, <1>t, <2>1, <2>2, <2>3 DEF Begin, TypeOK
<1>6. CASE ResetNodes(g)
  <2>1. TypeOK' BY <1>6, <1>t, ZenonT(60) DEF TypeOK, ResetNodes, Begin, nodes
  <2>2. CallInv(g)' /\ ArrayInv(g)'
    BY <1>6, <1>c, <1>t DEF TypeOK, ResetNodes, Begin, CallInv, ArrayInv, Reached, Working
  <2> QED BY <1>6, <1>o, <1>t, <2>1, <2>2 DEF ResetNodes, Begin, TypeOK
<1>7. CASE UpdateMGSpecWithState(g)
  <2>0. /\ pc[g] = "advance"
        /\ mg[g].state \in Working \cup {"Committed"}
        /\ NextState[mg[g].state] \in States
        /\ mg[g].state = "Ready" => NextState[mg[g].state] = "Migrated"
        /\ mg[g].state = "Migrated" => NextState[mg[g].state] = "CommitReady"
        /\ mg[g].state = "CommitReady" => NextState[mg[g].state] = "Committed"
        /\ mg[g].state = "Committed" => NextState[mg[g].state] = "Deleting"
    BY <1>7, <1>c, NextStates, ZenonT(60) DEF UpdateMGSpecWithState, CallInv, Working, States
  <2>1. PICK o \in MG : mg' = [mg EXCEPT ![g] = o] /\ o.state = NextState[mg[g].state]
    <3> DEFINE w == [mg[g] EXCEPT !.state = NextState[mg[g].state], !.last = mg[g].state]
    <3>1. w \in MG /\ w.state = NextState[mg[g].state]
      BY <1>m, <2>0, ZenonT(60) DEF MG
    <3>2. mg' = [mg EXCEPT ![g] = w]
      BY <1>7 DEF UpdateMGSpecWithState, Write
    <3> QED BY <3>1, <3>2, ZenonT(60)
  <2>2. End(g) /\ UNCHANGED <<AllSynced, nodes, array, rescanned>>
    BY <1>7 DEF UpdateMGSpecWithState
  <2>3. TypeOK' BY <1>t, <2>1, <2>2, SMTT(60) DEF TypeOK, End, nodes
  <2>4. mg'[g] = o /\ pc'[g] = "idle" /\ array' = array
    BY <1>t, <2>1, <2>2 DEF TypeOK, End
  <2>5. CallInv(g)' /\ ArrayInv(g)'
    BY <1>c, <2>0, <2>1, <2>4, SMTT(60) DEF CallInv, ArrayInv, Reached, Working
  <2> QED BY <1>o, <1>t, <2>1, <2>2, <2>3, <2>5, ZenonT(60) DEF End, TypeOK
<1>8. CASE UpdateMGOnError(g)
  <2>0. pc[g] = "error" /\ mg[g].state \in Working
    BY <1>8, <1>c DEF UpdateMGOnError, CallInv
  <2>1. PICK o \in MG : mg' = [mg EXCEPT ![g] = o] /\ o.state = "Error" /\ o.last = mg[g].state
    <3> DEFINE w == [mg[g] EXCEPT !.state = "Error", !.last = mg[g].state]
    <3>1. w \in MG /\ w.state = "Error" /\ w.last = mg[g].state
      BY <1>m, ZenonT(60) DEF MG, States
    <3>2. mg' = [mg EXCEPT ![g] = w]
      BY <1>8 DEF UpdateMGOnError, Write
    <3> QED BY <3>1, <3>2, ZenonT(60)
  <2>2. End(g) /\ UNCHANGED <<AllSynced, nodes, array, rescanned>>
    BY <1>8 DEF UpdateMGOnError
  <2>3. TypeOK' BY <1>t, <2>1, <2>2 DEF TypeOK, End, nodes
  <2>4. mg'[g] = o /\ pc'[g] = "idle" /\ array' = array
    BY <1>t, <2>1, <2>2 DEF TypeOK, End
  <2>5. CallInv(g)' /\ ArrayInv(g)'
    BY <1>c, <2>0, <2>1, <2>4, SMTT(60) DEF CallInv, ArrayInv, Reached, Working
  <2> QED BY <1>o, <1>t, <2>1, <2>2, <2>3, <2>5 DEF End, TypeOK
<1>9. CASE ProcessMGForDeletion(g) \/ CreateMG(g) \/ DeleteMG(g)
  <2>1. PICK o \in MG : /\ mg' = [mg EXCEPT ![g] = o]
                        /\ o.state = mg[g].state /\ o.last = mg[g].last
    <3>1. CASE ProcessMGForDeletion(g)
      <4> DEFINE w == [mg[g] EXCEPT !.fin = FALSE, !.st = IF mg[g].del THEN "gone" ELSE @]
      <4>1. w \in MG /\ w.state = mg[g].state /\ w.last = mg[g].last
        BY <1>m, ZenonT(60) DEF MG
      <4>2. mg' = [mg EXCEPT ![g] = w]
        BY <3>1 DEF ProcessMGForDeletion, Write
      <4> QED BY <4>1, <4>2, ZenonT(60)
    <3>2. CASE CreateMG(g)
      <4> DEFINE w == [mg[g] EXCEPT !.st = "present"]
      <4>1. w \in MG /\ w.state = mg[g].state /\ w.last = mg[g].last
        BY <1>m DEF MG
      <4>2. mg' = [mg EXCEPT ![g] = w]
        BY <3>2 DEF CreateMG, Write
      <4> QED BY <4>1, <4>2, ZenonT(60)
    <3>3. CASE DeleteMG(g)
      <4> DEFINE w == [mg[g] EXCEPT !.del = TRUE, !.st = IF mg[g].fin THEN @ ELSE "gone"]
      <4>1. w \in MG /\ w.state = mg[g].state /\ w.last = mg[g].last
        BY <1>m, ZenonT(60) DEF MG
      <4>2. mg' = [mg EXCEPT ![g] = w]
        BY <3>3 DEF DeleteMG, Write
      <4> QED BY <4>1, <4>2, ZenonT(60)
    <3> QED BY <1>9, <3>1, <3>2, <3>3
  <2>2. /\ UNCHANGED <<pc, AllSynced, label, npc, array, rescanned>>
        /\ fresh' \in {fresh, [fresh EXCEPT ![g] = FALSE]}
    BY <1>9 DEF ProcessMGForDeletion, CreateMG, DeleteMG, migrator, nodes
  <2>3. TypeOK' BY <1>t, <2>1, <2>2, ZenonT(60) DEF TypeOK
  <2>4. mg'[g] = o BY <1>t, <2>1 DEF TypeOK
  <2>5. CallInv(g)' /\ ArrayInv(g)'
    BY <1>c, <2>1, <2>2, <2>4, SMTT(60) DEF CallInv, ArrayInv, Reached
  <2> QED BY <1>o, <1>t, <2>1, <2>2, <2>3, <2>5 DEF TypeOK
<1>10. CASE AnnotateMG(g)
  <2>1. TypeOK' BY <1>10, <1>t DEF TypeOK, AnnotateMG, nodes
  <2>2. CallInv(g)' /\ ArrayInv(g)'
    BY <1>10, <1>c, SMTT(60) DEF AnnotateMG, CallInv, ArrayInv, Reached
  <2> QED BY <1>10, <1>o, <2>1, <2>2, SMTT(60) DEF AnnotateMG
<1>11. CASE Fail(g)
  <2>1. TypeOK' BY <1>11, <1>t DEF TypeOK, Fail, End, nodes
  <2>2. CallInv(g)' /\ ArrayInv(g)'
    BY <1>11, <1>c, <1>t, SMTT(60) DEF TypeOK, Fail, End, CallInv, ArrayInv, Reached
  <2> QED BY <1>11, <1>o, <1>t, <2>1, <2>2 DEF Fail, End, TypeOK
<1> QED
  BY <1>1, <1>2, <1>3, <1>4, <1>5, <1>6, <1>7, <1>8, <1>9, <1>10, <1>11 DEF Migrator

\* A rescanner writes neither the groups nor what the migrator works with.
LEMMA NodeStep ==
  ASSUME StateInv, NEW n \in Nodes, NEW g \in Groups, Node(n, g) \/ NodeFails(n, g)
  PROVE  StateInv'
<1>1. UNCHANGED <<mg, pc, fresh, AllSynced, array>>
  BY DEF Node, ProcessMGForRescan, RescanNode, LabelPod, ProcessMGinDeletingState, UnlabelPod,
         NodeFails, migrator
<1>2. label' \in [Nodes -> BOOLEAN]
  BY ZenonT(60)
     DEF Node, ProcessMGForRescan, RescanNode, LabelPod, ProcessMGinDeletingState, UnlabelPod,
         NodeFails, StateInv, TypeOK
<1>3. rescanned' \in [Groups -> SUBSET Nodes]
  <2>1. CASE rescanned' = rescanned
    BY <2>1 DEF StateInv, TypeOK
  <2>2. CASE RescanNode(n, g)
    BY <2>2 DEF RescanNode, StateInv, TypeOK
  <2> QED
    BY <2>1, <2>2 DEF Node, ProcessMGForRescan, LabelPod, ProcessMGinDeletingState, UnlabelPod,
                      NodeFails
<1>4. npc' \in [Nodes -> [Groups -> {"idle", "rescan", "label", "unlabel"}]]
  <2>1. PICK step \in {"idle", "rescan", "label", "unlabel"} : SetNode(n, g, step)
    BY DEF Node, ProcessMGForRescan, RescanNode, LabelPod, ProcessMGinDeletingState, UnlabelPod,
           NodeFails
  <2> QED BY <2>1 DEF SetNode, StateInv, TypeOK
<1>5. TypeOK'
  BY <1>1, <1>2, <1>3, <1>4 DEF StateInv, TypeOK
<1> QED
  BY <1>1, <1>5, OthersKept, ZenonT(60) DEF StateInv

\* StateInv is inductive.
LEMMA StateStep == StateInv /\ [Next]_vars => StateInv'
<1> SUFFICES ASSUME StateInv, [Next]_vars PROVE StateInv'
  OBVIOUS
<1>1. CASE \E g \in Groups : Migrator(g) \/ CreateMG(g) \/ DeleteMG(g) \/ AnnotateMG(g) \/ Fail(g)
  BY <1>1, GroupStep
<1>2. CASE \E n \in Nodes, g \in Groups : Node(n, g) \/ NodeFails(n, g)
  BY <1>2, NodeStep
<1>3. CASE MigratorCrash
  <2>1. TypeOK' BY <1>3, ZenonT(60) DEF StateInv, TypeOK, MigratorCrash, nodes
  <2>2. ASSUME NEW h \in Groups PROVE CallInv(h)' /\ ArrayInv(h)'
    BY <1>3, <2>2 DEF StateInv, MigratorCrash, CallInv, ArrayInv, Reached
  <2> QED BY <2>1, <2>2 DEF StateInv
<1>4. CASE UNCHANGED vars
  BY <1>4, OthersKept DEF vars, migrator, nodes, StateInv, TypeOK
<1> QED
  BY <1>1, <1>2, <1>3, <1>4 DEF Next, Faults

-----------------------------------------------------------------------------
(* The state and the array *)

\* Whatever fails, conflicts or crashes, the state of a group (of any number of groups)
\* is never ahead of what the array did for it.
THEOREM NotAhead == Spec => []StateNotAhead
<1>1. StateInv => StateNotAhead
  BY ZenonT(60) DEF StateInv, ArrayInv, StateNotAhead
<1> QED
  BY <1>1, InitState, StateStep, PTL DEF Spec

\* The order of the ranks.
LEMMA Ranks ==
  /\ \A s \in States : Rank[s] \in Nat
  /\ Rank[""] = 0 /\ Rank["Ready"] = 1 /\ Rank["Migrated"] = 2
  /\ Rank["CommitReady"] = 3 /\ Rank["Committed"] = 4 /\ Rank["Deleting"] = 5
BY DEF Rank, States

\* A step moves a group forward, or leaves it where it is or failed.
LEMMA ForwardStep == StateInv /\ [Next]_vars => NeverBack
<1> SUFFICES ASSUME StateInv, [Next]_vars, NEW h \in Groups
             PROVE  Rank[Reached(h)] <= Rank[Reached(h)']
  BY DEF NeverBack
<1>t. mg \in [Groups -> MG] /\ mg[h] \in MG /\ CallInv(h)
  BY DEF StateInv, TypeOK
<1>m. mg[h].state \in States /\ mg[h].last \in States
  BY <1>t, MGFields
<1>s. ASSUME Reached(h)' = Reached(h) PROVE Rank[Reached(h)] <= Rank[Reached(h)']
  <2>1. Rank[Reached(h)] \in Nat
    BY <1>m, Ranks, ZenonT(60) DEF Reached
  <2> QED BY <1>s, <2>1
<1>1. CASE ProcessMGInNoState(h)
  <2>1. mg[h].state = "" /\ Reached(h) = ""
    BY <1>1, ZenonT(60) DEF ProcessMGInNoState, Reached
  <2>2. Reached(h)' \in {"", "Ready"}
    BY <1>1, <1>t, <2>1, ZenonT(60) DEF ProcessMGInNoState, Write, Reached, MG
  <2>3. Rank[Reached(h)] = 0 /\ Rank[Reached(h)'] \in {0, 1}
    BY <2>1, <2>2, Ranks, ZenonT(60)
  <2> QED BY <2>3
<1>2. CASE Retry(h)
  <2>1. mg[h].state = "Error" /\ mg[h].last \in Working
    BY <1>2, <1>t DEF Retry, CallInv
  <2>2. mg'[h].state = mg[h].last
    BY <1>2, <1>t, <2>1, ZenonT(60) DEF Retry, Write, MG, Working
  <2>3. Reached(h)' = Reached(h)
    BY <2>1, <2>2 DEF Reached, Working
  <2> QED BY <1>s, <2>3
<1>3. CASE UpdateMGSpecWithState(h)
  <2>1. mg[h].state \in Working \cup {"Committed"}
    BY <1>3, <1>t DEF UpdateMGSpecWithState, CallInv
  <2>2. mg'[h].state = NextState[mg[h].state]
    BY <1>3, <1>t DEF UpdateMGSpecWithState, Write, MG
  <2>3. Reached(h) = mg[h].state /\ Reached(h)' = NextState[mg[h].state]
    BY <2>1, <2>2, NextStates DEF Reached, Working
  <2>4. \/ Rank[mg[h].state] = 1 /\ Rank[NextState[mg[h].state]] = 2
        \/ Rank[mg[h].state] = 2 /\ Rank[NextState[mg[h].state]] = 3
        \/ Rank[mg[h].state] = 3 /\ Rank[NextState[mg[h].state]] = 4
        \/ Rank[mg[h].state] = 4 /\ Rank[NextState[mg[h].state]] = 5
    BY <2>1, NextStates, Ranks, ZenonT(60) DEF Working
  <2> QED BY <2>3, <2>4
<1>4. CASE UpdateMGOnError(h)
  <2>1. mg[h].state \in Working
    BY <1>4, <1>t DEF UpdateMGOnError, CallInv
  <2>2. mg'[h].state = "Error" /\ mg'[h].last = mg[h].state
    BY <1>4, <1>t DEF UpdateMGOnError, Write, MG
  <2>3. Reached(h)' = Reached(h)
    BY <2>1, <2>2 DEF Reached, Working
  <2> QED BY <1>s, <2>3
<1>5. CASE ProcessMGForDeletion(h) \/ CreateMG(h) \/ DeleteMG(h)
  <2>1. mg'[h].state = mg[h].state /\ mg'[h].last = mg[h].last
    <3>1. CASE ProcessMGForDeletion(h)
      BY <1>t, <3>1 DEF ProcessMGForDeletion, Write, MG
    <3>2. CASE CreateMG(h)
      BY <1>t, <3>2 DEF CreateMG, Write, MG
    <3>3. CASE DeleteMG(h)
      BY <1>t, <3>3 DEF DeleteMG, Write, MG
    <3> QED BY <1>5, <3>1, <3>2, <3>3
  <2> QED BY <1>s, <2>1 DEF Reached
<1>6. CASE mg'[h] = mg[h]
  BY <1>s, <1>6 DEF Reached
\* Every other step leaves h alone: it is one for another group, of a rescanner, a call of
\* the driver, or a crash.
<1>7. ASSUME NEW g \in Groups, Migrator(g) \/ CreateMG(g) \/ DeleteMG(g) \/ AnnotateMG(g), g # h
      PROVE  mg'[h] = mg[h]
  BY <1>7, <1>t, ZenonT(60) DEF Migrator, ProcessMGInNoState, Retry, StartArrayMigrate, ArrayMigrate,
       NodeRescan, ResetNodes, UpdateMGSpecWithState, UpdateMGOnError, ProcessMGForDeletion,
       CreateMG, DeleteMG, AnnotateMG, Write
<1>8. ASSUME \/ StartArrayMigrate(h) \/ ArrayMigrate(h) \/ NodeRescan(h) \/ ResetNodes(h)
             \/ AnnotateMG(h)
      PROVE  mg'[h] = mg[h]
  BY <1>8, ZenonT(60) DEF StartArrayMigrate, ArrayMigrate, NodeRescan, ResetNodes, AnnotateMG
<1>9. ASSUME \/ \E n \in Nodes, g \in Groups : Node(n, g)
             \/ Faults \/ MigratorCrash \/ UNCHANGED vars
      PROVE  mg'[h] = mg[h]
  BY <1>9 DEF Node, ProcessMGForRescan, RescanNode, LabelPod, ProcessMGinDeletingState,
       UnlabelPod, Faults, Fail, NodeFails, MigratorCrash, vars
<1> QED
  BY <1>1, <1>2, <1>3, <1>4, <1>5, <1>6, <1>7, <1>8, <1>9, ZenonT(60) DEF Next, Migrator

\* A group never moves back to an earlier state, however often it fails and is retried
\* from the state that LastAction recorded.
THEOREM Forward == Spec => [][NeverBack]_vars
<1>1. StateInv /\ [Next]_vars => [NeverBack]_vars
  BY ForwardStep
<1> QED
  BY <1>1, InitState, StateStep, PTL DEF Spec

-----------------------------------------------------------------------------
(* The rescan of the nodes *)

\* Labels, rescans and what the migrator remembers fit, initially and after every step.
LEMMA RescanStep ==
  ASSUME OneGroup, ListErrors = FALSE, StateInv, StateInv',
         \A h \in Groups : RescanInv(h), [Next]_vars, NEW h \in Groups
  PROVE  RescanInv(h)'
<1>t. TypeOK /\ TypeOK' /\ CallInv(h) /\ ArrayInv(h) /\ RescanInv(h)
  BY DEF StateInv
<1>g. \A g \in Groups : g = h
  BY DEF OneGroup
\* The rescanner's side is kept by steps that leave it alone while the array never goes back.
<1>n. ASSUME UNCHANGED <<label, npc, rescanned>>, array[h] # "source" => array'[h] # "source"
      PROVE  /\ \A n \in Nodes : npc'[n][h] = "rescan" => array'[h] # "source"
             /\ \A n \in Nodes : npc'[n][h] = "label" \/ label'[n] => n \in rescanned'[h]
  BY <1>n, <1>t DEF RescanInv
\* The migrator's side is kept by steps that bring the group no closer to the commit.
<1>p. ASSUME AllSynced' => AllSynced,
             pc'[h] = "advance" /\ mg'[h].state = "Migrated"
               => AllSynced \/ (pc[h] = "advance" /\ mg[h].state = "Migrated"),
             Reached(h)' \in {"CommitReady", "Committed", "Deleting"}
               => \/ Reached(h) \in {"CommitReady", "Committed", "Deleting"}
                  \/ pc[h] = "advance" /\ mg[h].state = "Migrated",
             array'[h] = "committed"
               => array[h] = "committed" \/ Reached(h) \in {"CommitReady", "Committed", "Deleting"},
             rescanned[h] \subseteq rescanned'[h]
      PROVE  \/ AllSynced'
             \/ pc'[h] = "advance" /\ mg'[h].state = "Migrated"
             \/ Reached(h)' \in {"CommitReady", "Committed", "Deleting"}
             \/ array'[h] = "committed"
             => rescanned'[h] = Nodes
  <2>1. rescanned'[h] \subseteq Nodes
    BY <1>t DEF TypeOK
  <2> QED BY <1>p, <1>t, <2>1, ZenonT(60) DEF RescanInv
<1>1. CASE ProcessMGInNoState(h)
  <2>0. mg[h].state = "" /\ mg[h] \in MG /\ mg \in [Groups -> MG]
    BY <1>1, <1>t, ZenonT(60) DEF ProcessMGInNoState, TypeOK
  <2>1. mg'[h].state \in {"", "Ready"}
    BY <1>1, <2>0, ZenonT(60) DEF ProcessMGInNoState, Write, MG
  <2>2. Reached(h)' \in {"", "Ready"}
    BY <2>1, ZenonT(60) DEF Reached
  <2> QED BY <1>1, <1>n, <1>p, <2>1, <2>2, ZenonT(60)
  DEF ProcessMGInNoState, RescanInv, migrator, nodes
<1>2. CASE Retry(h)
  <2>1. mg[h].state = "Error" /\ mg[h].last \in Working /\ pc[h] = "idle"
    BY <1>2, <1>t DEF Retry, Reconciles, CallInv
  <2>2. mg'[h].state = mg[h].last
    BY <1>2, <1>t, <2>1, ZenonT(60) DEF Retry, Write, TypeOK, MG, Working
  <2>3. Reached(h)' = Reached(h)
    BY <2>1, <2>2 DEF Reached, Working
  <2> QED BY <1>2, <1>n, <1>p, <2>1, <2>3 DEF Retry, RescanInv, migrator, nodes
<1>3. CASE StartArrayMigrate(h)
  <2>1. pc'[h] # "advance"
    BY <1>3, <1>t DEF StartArrayMigrate, Begin, TypeOK
  <2>2. Reached(h)' = Reached(h)
    BY <1>3 DEF StartArrayMigrate, Reached
  <2> QED BY <1>3, <1>n, <1>p, <2>1, <2>2, ZenonT(60) DEF StartArrayMigrate, RescanInv, nodes
<1>4. CASE ArrayMigrate(h)
  <2>1. mg[h].state # "Migrated" /\ (pc[h] = "commit" => Reached(h) = "CommitReady")
    BY <1>4, <1>t DEF ArrayMigrate, CallInv, Reached
  <2>2. /\ array'[h] = "committed" => array[h] = "committed" \/ pc[h] = "commit"
        /\ array[h] # "source" => array'[h] # "source"
    BY <1>4, <1>t DEF ArrayMigrate, TypeOK
  <2>3. Reached(h)' = Reached(h)
    BY <1>4 DEF ArrayMigrate, Reached
  <2> QED BY <1>4, <1>n, <1>p, <2>1, <2>2, <2>3, ZenonT(60) DEF ArrayMigrate, RescanInv, nodes
<1>5. CASE NodeRescan(h)
  <2>0. PICK listed \in {Nodes} \cup (IF ListErrors THEN {{}} ELSE {}) :
          LET synced == AllSynced \/ \A n \in listed : label[n]
          IN  AllSynced' = synced /\ Begin(h, IF synced THEN "advance" ELSE "error")
    BY <1>5 DEF NodeRescan
  <2>l. listed = Nodes
    OBVIOUS
  <2>1. /\ AllSynced' = (AllSynced \/ \A n \in Nodes : label[n])
        /\ pc'[h] = "advance" => AllSynced'
    BY <1>t, <2>0, <2>l, ZenonT(60) DEF Begin, TypeOK
  <2>2. AllSynced' => rescanned[h] = Nodes
    <3>1. rescanned[h] \subseteq Nodes
      BY <1>t DEF TypeOK
    <3> QED BY <1>t, <2>1, <3>1, ZenonT(60) DEF RescanInv
  <2>3. Reached(h)' = Reached(h)
    BY <1>5, ZenonT(60) DEF NodeRescan, Reached
  <2> QED BY <1>5, <1>n, <1>t, <2>1, <2>2, <2>3, ZenonT(60) DEF NodeRescan, RescanInv, nodes
<1>6. CASE ResetNodes(h)
  <2>1. Reached(h)' = Reached(h) /\ mg'[h].state = "Committed" /\ AllSynced' = FALSE
    BY <1>6 DEF ResetNodes, Reached
  <2> QED BY <1>6, <1>n, <1>p, <2>1, ZenonT(60) DEF ResetNodes, RescanInv, nodes
<1>7. CASE UpdateMGSpecWithState(h)
  <2>1. mg[h].state \in Working \cup {"Committed"} /\ pc[h] = "advance"
    BY <1>7, <1>t DEF UpdateMGSpecWithState, CallInv
  <2>2. mg'[h].state = NextState[mg[h].state] /\ pc'[h] = "idle"
    BY <1>7, <1>t DEF UpdateMGSpecWithState, End, Write, TypeOK, MG
  <2>3. Reached(h) = mg[h].state /\ Reached(h)' = NextState[mg[h].state]
    BY <2>1, <2>2, NextStates DEF Reached, Working
  <2> QED
    BY <1>7, <1>n, <1>p, <2>1, <2>2, <2>3, NextStates
    DEF UpdateMGSpecWithState, RescanInv, nodes, Working
<1>8. CASE UpdateMGOnError(h)
  <2>1. mg[h].state \in Working
    BY <1>8, <1>t DEF UpdateMGOnError, CallInv
  <2>2. mg'[h].state = "Error" /\ mg'[h].last = mg[h].state
    BY <1>8, <1>t DEF UpdateMGOnError, Write, TypeOK, MG
  <2>3. Reached(h)' = Reached(h)
    BY <2>1, <2>2 DEF Reached, Working
  <2> QED BY <1>8, <1>n, <1>p, <2>2, <2>3 DEF UpdateMGOnError, RescanInv, nodes
<1>9. CASE ProcessMGForDeletion(h) \/ CreateMG(h) \/ DeleteMG(h)
  <2>1. mg'[h].state = mg[h].state /\ mg'[h].last = mg[h].last
    <3>1. CASE ProcessMGForDeletion(h)
      BY <1>t, <3>1 DEF ProcessMGForDeletion, Write, TypeOK, MG
    <3>2. CASE CreateMG(h)
      BY <1>t, <3>2 DEF CreateMG, Write, TypeOK, MG
    <3>3. CASE DeleteMG(h)
      BY <1>t, <3>3 DEF DeleteMG, Write, TypeOK, MG
    <3> QED BY <1>9, <3>1, <3>2, <3>3, SMTT(60)
  <2>2. UNCHANGED <<pc, AllSynced, label, npc, array, rescanned>>
    BY <1>9 DEF ProcessMGForDeletion, CreateMG, DeleteMG, migrator, nodes
  <2> QED BY <1>n, <1>p, <2>1, <2>2, ZenonT(60) DEF RescanInv, Reached
<1>10. CASE AnnotateMG(h) \/ Fail(h) \/ MigratorCrash \/ UNCHANGED vars
  <2>1. UNCHANGED <<mg, label, npc, array, rescanned>> /\ (AllSynced' => AllSynced)
    BY <1>10, SMTT(60) DEF AnnotateMG, Fail, MigratorCrash, vars, migrator, nodes
  <2>2. pc'[h] \in {pc[h], "idle"}
    BY <1>10, <1>t DEF AnnotateMG, Fail, End, MigratorCrash, vars, migrator, TypeOK
  <2> QED BY <1>n, <1>p, <2>1, <2>2, ZenonT(60) DEF RescanInv, Reached
<1>11. ASSUME NEW n \in Nodes, Node(n, h) \/ NodeFails(n, h)
       PROVE  RescanInv(h)'
  <2>1. UNCHANGED <<mg, pc, AllSynced, array>>
    BY <1>11, SMTT(60) DEF Node, ProcessMGForRescan, RescanNode, LabelPod, ProcessMGinDeletingState,
                 UnlabelPod, NodeFails, migrator
  \* A node starts a rescan, or goes on, only after the migration by the array.
  <2>2. \A m \in Nodes : npc'[m][h] = "rescan" => array'[h] # "source"
    <3>1. ASSUME NEW m \in Nodes, npc'[m][h] = "rescan", npc[m][h] # "rescan"
          PROVE  mg[h].state = "Migrated"
      <4>1. CASE ProcessMGForRescan(n, h)
        BY <4>1, ZenonT(60) DEF ProcessMGForRescan
      <4>2. CASE ~ProcessMGForRescan(n, h)
        <5>1. \E step \in {"label", "idle", "unlabel"} : SetNode(n, h, step)
          BY <1>11, <4>2, ZenonT(60) DEF Node, RescanNode, LabelPod, ProcessMGinDeletingState,
             UnlabelPod, NodeFails
        <5> QED BY <1>t, <3>1, <5>1 DEF SetNode, TypeOK
      <4> QED BY <4>1, <4>2, ZenonT(60)
    <3> QED BY <1>t, <2>1, <3>1, SMTT(60) DEF RescanInv, ArrayInv, Reached
  \* It labels its pod only after the rescan.
  <2>3. rescanned[h] \subseteq rescanned'[h]
    BY <1>11 DEF Node, ProcessMGForRescan, RescanNode, LabelPod, ProcessMGinDeletingState,
                 UnlabelPod, NodeFails
  <2>4. ASSUME NEW m \in Nodes, npc'[m][h] = "label" \/ label'[m]
        PROVE  m \in rescanned'[h]
    <3>1. CASE RescanNode(n, h)
      <4>1. array[h] # "source" /\ rescanned'[h] = rescanned[h] \cup {n}
        BY <1>t, <3>1, ZenonT(60) DEF RescanNode, RescanInv
      <4>2. m # n => npc'[m][h] = npc[m][h]
        BY <1>t, <3>1, SMTT(60) DEF RescanNode, SetNode, TypeOK
      <4> QED BY <1>t, <2>4, <3>1, <4>1, <4>2, ZenonT(60) DEF RescanNode, RescanInv
    <3>2. CASE ~RescanNode(n, h)
      <4>1. npc'[m][h] = "label" => npc[m][h] = "label"
        BY <1>11, <1>t, <3>2, SMTT(60)
           DEF Node, ProcessMGForRescan, LabelPod, ProcessMGinDeletingState,
             UnlabelPod, NodeFails, SetNode, TypeOK
      <4>2. label'[m] => label[m] \/ npc[m][h] = "label"
        BY <1>11, <1>t, <3>2, SMTT(60)
           DEF Node, ProcessMGForRescan, LabelPod, ProcessMGinDeletingState,
             UnlabelPod, NodeFails, TypeOK
      <4> QED BY <1>t, <2>3, <2>4, <4>1, <4>2, SMTT(60) DEF RescanInv
    <3> QED BY <3>1, <3>2, SMTT(60)
  <2> QED BY <1>p, <2>1, <2>2, <2>3, <2>4, ZenonT(60) DEF RescanInv, Reached
<1> QED
  BY <1>1, <1>2, <1>3, <1>4, <1>5, <1>6, <1>7, <1>8, <1>9, <1>10, <1>11, <1>g
  DEF Next, Migrator, Faults

\* A group that is the only one, on any number of nodes whose pods can be listed, is
\* committed on the array only after every node has gone through its SCSI hosts since
\* the migration; hosts that fail meanwhile do not keep a node from being labelled.
THEOREM Rescanned ==
  ASSUME OneGroup, ListErrors = FALSE
  PROVE  Spec => []RescannedBeforeCommit
<1> DEFINE Resc == \A h \in Groups : RescanInv(h)
<1>1. Init => Resc
  <2> SUFFICES ASSUME Init, NEW h \in Groups PROVE RescanInv(h)
    BY ZenonT(60)
  <2>1. mg[h].state = "" /\ pc[h] = "idle" /\ array[h] = "source" /\ ~AllSynced
    BY ZenonT(60) DEF Init, NewMG
  <2>2. \A n \in Nodes : npc[n][h] = "idle" /\ ~label[n]
    BY DEF Init
  <2> QED BY <2>1, <2>2, ZenonT(60) DEF RescanInv, Reached
<1>2. StateInv /\ StateInv' /\ Resc /\ [Next]_vars => Resc'
  BY RescanStep, ZenonT(60)
<1>3. Resc => RescannedBeforeCommit
  BY DEF RescanInv, RescannedBeforeCommit
<1> HIDE DEF Resc
<1> QED
  BY <1>1, <1>2, <1>3, InitState, StateStep, PTL DEF Spec

-----------------------------------------------------------------------------
(* The migration of volumes with repctl and csi-migrator.                    *)

CONSTANTS Volumes, MaxCommands

VARIABLES pv, mig, data, claim, pod, sts, rec, current, cmd, go, count, recycled

\* current[v] is VolumeMigration's fresh[v].
V == INSTANCE VolumeMigration WITH fresh <- current

Command ==
  [step : {"migrate", "createSts", "filter", "claims", "pod", "ready"}, wait : BOOLEAN,
   ndu : BOOLEAN, class : {"valid", "bad"}, vols : SUBSET Volumes, pods : SUBSET Volumes,
   cur : SUBSET Volumes]

PVObject ==
  [phase : {"none", "bound", "released", "gone"}, policy : {"Delete", "Retain"},
   req : {"no", "valid", "bad"}]

Pod == [st : {"none", "running", "terminating", "gone"}, owned : BOOLEAN]

VolumeTypes ==
  /\ pv \in [Volumes -> PVObject]
  /\ mig \in [Volumes -> {"none", "made", "foreign"}]
  /\ data \in [Volumes -> SUBSET {"src", "dst"}]
  /\ claim \in [Volumes -> {"none", "bound", "terminating", "gone", "other"}]
  /\ pod \in [Volumes -> Pod]
  /\ sts \in {"present", "orphaning", "absent"}
  /\ rec \in [Volumes -> {"idle", "migrate", "create", "update"}]
  /\ current \in [Volumes -> BOOLEAN]
  /\ cmd \in Command \cup {V!Idle}
  /\ go \in [Volumes -> {"none", "annotate", "wait", "done"}]
  /\ count \in Nat
  /\ recycled \in SUBSET Volumes

\* A migrated PV stands for a volume that holds the data; a volume that does not exist
\* yet has neither.
MigratedInv(v) ==
  /\ mig[v] = "made" \/ rec[v] \in {"create", "update"} => "dst" \in data[v]
  /\ mig[v] = "made" \/ rec[v] # "idle" => pv[v].phase # "none"
  /\ pv[v].phase # "none" => pod[v].st # "none"
  /\ v \in recycled => mig[v] # "none"

\* A command with --ndu recycles only what it has seen migrated.
CommandInv ==
  cmd # V!Idle =>
    /\ \A v \in cmd.vols : go[v] # "none"
    /\ cmd.ndu => \A v \in Volumes : go[v] = "done" => mig[v] # "none"
    /\ cmd.step # "migrate" => cmd.ndu /\ \A v \in Volumes : go[v] \in {"none", "done"}

Inv == VolumeTypes /\ (\A v \in Volumes : MigratedInv(v)) /\ CommandInv

-----------------------------------------------------------------------------
\* Updates of some fields keep the type of a PV.
LEMMA PVFields ==
  ASSUME NEW o \in PVObject
  PROVE  /\ [[o EXCEPT !.policy = "Retain"] EXCEPT !.req = "no"] \in PVObject
         /\ \A c \in {"valid", "bad"} : [o EXCEPT !.req = c] \in PVObject
         /\ \A c \in {"bound", "released"} : [o EXCEPT !.phase = c] \in PVObject
         /\ [[o EXCEPT !.phase = "gone"] EXCEPT !.req = "no"] \in PVObject
<1>1. [[o EXCEPT !.policy = "Retain"] EXCEPT !.req = "no"] \in PVObject
  BY ZenonT(60) DEF PVObject
<1>2. [[o EXCEPT !.phase = "gone"] EXCEPT !.req = "no"] \in PVObject
  BY ZenonT(60) DEF PVObject
<1> QED
  BY <1>1, <1>2 DEF PVObject

\* The same for a pod.
LEMMA PodFields ==
  ASSUME NEW o \in Pod
  PROVE  /\ \A c \in {"terminating", "gone"} : [o EXCEPT !.st = c] \in Pod
         /\ \A c \in BOOLEAN : [o EXCEPT !.owned = c] \in Pod
         /\ [st |-> "running", owned |-> TRUE] \in Pod
BY DEF Pod

\* Every step keeps the types.
LEMMA TypeStep == VolumeTypes /\ [V!Next]_(V!vars) => VolumeTypes'
<1> SUFFICES ASSUME VolumeTypes, [V!Next]_(V!vars) PROVE VolumeTypes'
  OBVIOUS
<1> USE DEF VolumeTypes
<1>0. \A step : V!AtStep(step) => cmd \in Command
  BY DEF V!AtStep
<1>p. \A v \in Volumes :
        /\ [[pv[v] EXCEPT !.policy = "Retain"] EXCEPT !.req = "no"] \in PVObject
        /\ \A c \in {"valid", "bad"} : [pv[v] EXCEPT !.req = c] \in PVObject
        /\ \A c \in {"bound", "released"} : [pv[v] EXCEPT !.phase = c] \in PVObject
        /\ [[pv[v] EXCEPT !.phase = "gone"] EXCEPT !.req = "no"] \in PVObject
  BY PVFields, ZenonT(60)
<1>d. \A v \in Volumes :
        /\ \A c \in {"terminating", "gone"} : [pod[v] EXCEPT !.st = c] \in Pod
        /\ \A c \in BOOLEAN : [pod[v] EXCEPT !.owned = c] \in Pod
        /\ [st |-> "running", owned |-> TRUE] \in Pod
  BY PodFields
<1>1. ASSUME NEW v \in Volumes, V!Reconcile(v) \/ V!Fail(v) PROVE VolumeTypes'
  <2>1. CASE V!UpdatePV(v)
    BY <1>p, <2>1, ZenonT(60) DEF V!UpdatePV, V!SetPV, V!repctl
  <2>2. CASE V!ReconcilePV(v) \/ V!EndReconcile(v)
    BY <2>2, ZenonT(60) DEF V!ReconcilePV, V!EndReconcile, V!objects, V!repctl
  <2>3. CASE V!VolumeMigrate(v) \/ V!CreateMigratedPV(v)
    BY <2>3, SMTT(60) DEF V!VolumeMigrate, V!CreateMigratedPV, V!repctl
  <2> QED
    BY <1>1, <2>1, <2>2, <2>3, ZenonT(60) DEF V!Reconcile, V!Refuse, V!Fail
<1>2. ASSUME NEW v \in Volumes, V!MigratePV(v) PROVE VolumeTypes'
  <2>1. cmd \in Command /\ cmd.class \in {"valid", "bad"}
    BY <1>2 DEF V!MigratePV, Command
  <2> QED
    BY <1>p, <1>2, <2>1, ZenonT(60) DEF V!MigratePV, V!SetPV
<1>3. ASSUME NEW v \in Volumes, V!WaitForPVToBeBound(v) PROVE VolumeTypes'
  BY <1>3 DEF V!WaitForPVToBeBound, V!objects, V!migrator
<1>4. ASSUME NEW v \in Volumes, V!DeleteClaims(v) PROVE VolumeTypes'
  <2>1. cmd' \in Command
    BY <1>0, <1>4, ZenonT(60) DEF V!DeleteClaims, Command
  <2> QED
    BY <1>4, <2>1 DEF V!DeleteClaims, V!migrator
<1>5. ASSUME NEW v \in Volumes, V!DeletePod(v) PROVE VolumeTypes'
  <2>1. cmd' \in Command
    BY <1>0, <1>5, SMTT(60) DEF V!DeletePod, Command
  <2> QED
    BY <1>d, <1>5, <2>1, ZenonT(60) DEF V!DeletePod, V!migrator
<1>6. ASSUME NEW v \in Volumes, V!WaitForPodToBeReady(v) PROVE VolumeTypes'
  <2>1. cmd' \in Command
    BY <1>0, <1>6, ZenonT(60) DEF V!WaitForPodToBeReady, Command
  <2> QED
    BY <1>6, <2>1 DEF V!WaitForPodToBeReady, V!objects, V!migrator
<1>7. ASSUME NEW v \in Volumes, V!Adopt(v) \/ V!PodGone(v) \/ V!RecreatePod(v) PROVE VolumeTypes'
  <2>1. pod' \in [Volumes -> Pod]
    BY <1>d, <1>7, ZenonT(60) DEF V!Adopt, V!PodGone, V!RecreatePod
  <2>2. claim' \in [Volumes -> {"none", "bound", "terminating", "gone", "other"}]
    BY <1>7 DEF V!Adopt, V!PodGone, V!RecreatePod
  <2> QED
    BY <1>7, <2>1, <2>2 DEF V!Adopt, V!PodGone, V!RecreatePod, V!migrator, V!repctl
<1>8. ASSUME NEW v \in Volumes, V!ScaleUp(v) PROVE VolumeTypes'
  BY <1>p, <1>d, <1>8, ZenonT(60) DEF V!ScaleUp, V!SetPV, V!repctl
<1>9. ASSUME NEW v \in Volumes, V!ClaimRemoved(v) \/ V!Reclaim(v) PROVE VolumeTypes'
  <2>1. CASE V!ClaimRemoved(v)
    BY <1>p, <2>1, ZenonT(60) DEF V!ClaimRemoved, V!SetPV, V!repctl
  <2>2. CASE V!Reclaim(v)
    BY <1>p, <2>2, ZenonT(60) DEF V!Reclaim, V!SetPV, V!repctl
  <2> QED
    BY <1>9, <2>1, <2>2, SMTT(60)
<1>10. ASSUME NEW vols \in SUBSET Volumes, NEW wait \in BOOLEAN, NEW ndu \in BOOLEAN,
              NEW class \in {"valid", "bad"}, V!Start(vols, wait, ndu, class)
       PROVE  VolumeTypes'
  <2>1. cmd' \in Command
    BY <1>10, ZenonT(60) DEF V!Start, Command
  <2> QED
    BY <1>10, <2>1, SMTT(60) DEF V!Start, V!objects, V!migrator
<1>11. CASE V!Exit
  BY <1>11 DEF V!Exit, V!objects, V!migrator
<1>12. CASE V!DeleteStsOrphan
  <2>1. cmd' \in Command
    BY <1>0, <1>12 DEF V!DeleteStsOrphan, Command
  <2> QED
    BY <1>12, <2>1 DEF V!DeleteStsOrphan, V!migrator
<1>13. CASE V!CreateStatefulSet
  <2>1. cmd' \in Command
    BY <1>0, <1>13 DEF V!CreateStatefulSet, Command
  <2> QED
    BY <1>13, <2>1 DEF V!CreateStatefulSet, V!migrator
<1>14. CASE V!ListPodsAgain
  <2>1. cmd' \in Command
    BY <1>0, <1>14, ZenonT(60) DEF V!ListPodsAgain, V!FilterPods, Command
  <2> QED
    BY <1>14, <2>1 DEF V!ListPodsAgain, V!objects, V!migrator
<1>15. CASE V!Orphan
  BY <1>d, <1>15, ZenonT(60) DEF V!Orphan, V!migrator, V!repctl
<1>16. CASE UNCHANGED V!vars
  BY <1>16, SMTT(60) DEF V!vars, V!objects, V!migrator, V!repctl
<1>17. CASE V!MigratePVCommand
  <2>1. PICK v \in Volumes, wait \in BOOLEAN, class \in {"valid", "bad"} :
          V!Start({v}, wait, FALSE, class)
    BY <1>17, ZenonT(60) DEF V!MigratePVCommand
  <2>2. {v} \in SUBSET Volumes /\ FALSE \in BOOLEAN
    OBVIOUS
  <2> QED
    BY <1>10, <2>1, <2>2, ZenonT(60)
<1>18. CASE V!MigrateSTSCommand
  <2>1. {v \in V!FilterPods : claim[v] \in {"bound", "terminating"}} \in SUBSET Volumes
    BY DEF V!FilterPods
  <2> QED
    BY <1>10, <1>18, <2>1, ZenonT(60) DEF V!MigrateSTSCommand
<1> QED
  BY <1>1, <1>2, <1>3, <1>4, <1>5, <1>6, <1>7, <1>8, <1>9, <1>11, <1>12, <1>13, <1>14, ZenonT(60),
     <1>15, <1>16, <1>17, <1>18, ZenonT(60) DEF V!Next

\* csi-migrator makes the migrated PV after the data is on the migrated volume, and the
\* commands, the StatefulSet and the reclaim leave that volume alone.
LEMMA MigratedStep ==
  ASSUME Inv, [V!Next]_(V!vars), NEW u \in Volumes
  PROVE  MigratedInv(u)'
<1>0. VolumeTypes /\ MigratedInv(u) /\ CommandInv /\ pv[u] \in PVObject /\ pod[u] \in Pod
  BY DEF Inv, VolumeTypes
<1>1. ASSUME NEW v \in Volumes, V!Reconcile(v) \/ V!Fail(v) PROVE MigratedInv(u)'
  <2>1. CASE V!ReconcilePV(v)
    BY <1>0, <2>1, ZenonT(60) DEF V!ReconcilePV, V!objects, V!repctl, MigratedInv, VolumeTypes
  <2>2. CASE V!VolumeMigrate(v)
    BY <1>0, <2>2, ZenonT(60) DEF V!VolumeMigrate, V!repctl, MigratedInv, VolumeTypes
  <2>3. CASE V!CreateMigratedPV(v)
    BY <1>0, <2>3, SMTT(60) DEF V!CreateMigratedPV, V!repctl, MigratedInv, VolumeTypes
  <2>4. CASE V!UpdatePV(v)
    <3>1. pv'[u].phase = pv[u].phase
      BY <1>0, <2>4 DEF V!UpdatePV, V!SetPV, PVObject, VolumeTypes
    <3> QED
      BY <1>0, <2>4, <3>1 DEF V!UpdatePV, V!repctl, MigratedInv, VolumeTypes
  <2>5. CASE V!EndReconcile(v)
    BY <1>0, <2>5, SMTT(60) DEF V!EndReconcile, V!objects, V!repctl, MigratedInv, VolumeTypes
  <2> QED
    BY <1>1, <2>1, <2>2, <2>3, <2>4, <2>5, ZenonT(60) DEF V!Reconcile, V!Refuse, V!Fail
<1>2. ASSUME NEW v \in Volumes, V!MigratePV(v) PROVE MigratedInv(u)'
  <2>1. pv'[u].phase = pv[u].phase
    BY <1>0, <1>2 DEF V!MigratePV, V!SetPV, PVObject, VolumeTypes
  <2> QED
    BY <1>0, <1>2, <2>1 DEF V!MigratePV, MigratedInv
<1>3. ASSUME NEW v \in Volumes, V!DeleteClaims(v) PROVE MigratedInv(u)'
  <2>1. v \in cmd.vols => mig[v] # "none"
    BY <1>0, <1>3 DEF V!DeleteClaims, V!AtStep, CommandInv
  <2> QED
    BY <1>0, <1>3, <2>1 DEF V!DeleteClaims, V!migrator, MigratedInv
<1>4. ASSUME NEW v \in Volumes, V!DeletePod(v) \/ V!Adopt(v) \/ V!PodGone(v) \/ V!RecreatePod(v)
      PROVE  MigratedInv(u)'
  <2>1. pod[u].st # "none" => pod'[u].st # "none"
    <3>1. CASE V!DeletePod(v) \/ V!PodGone(v)
      BY <1>0, <3>1 DEF V!DeletePod, V!PodGone, Pod, VolumeTypes
    <3>2. CASE V!Adopt(v)
      BY <1>0, <3>2 DEF V!Adopt, Pod, VolumeTypes
    <3>3. CASE V!RecreatePod(v)
      BY <1>0, <3>3 DEF V!RecreatePod, Pod, VolumeTypes
    <3> QED
      BY <1>4, <3>1, <3>2, <3>3, ZenonT(60)
  <2> QED
    BY <1>0, <1>4, <2>1 DEF V!DeletePod, V!Adopt, V!PodGone, V!RecreatePod, V!migrator,
       V!repctl, MigratedInv
<1>5. ASSUME NEW v \in Volumes, V!ScaleUp(v) PROVE MigratedInv(u)'
  <2>1. /\ pv'[u].phase = IF u = v THEN "bound" ELSE pv[u].phase
        /\ pod'[u].st = IF u = v THEN "running" ELSE pod[u].st
        /\ u # v => data'[u] = data[u]
    BY <1>0, <1>5 DEF V!ScaleUp, V!SetPV, PVObject, VolumeTypes
  <2> QED
    BY <1>0, <1>5, <2>1 DEF V!ScaleUp, V!repctl, MigratedInv, VolumeTypes
<1>6. ASSUME NEW v \in Volumes, V!ClaimRemoved(v) PROVE MigratedInv(u)'
  <2>1. pv'[u].phase = IF u = v THEN "released" ELSE pv[u].phase
    BY <1>0, <1>6 DEF V!ClaimRemoved, V!SetPV, PVObject, VolumeTypes
  <2> QED
    BY <1>0, <1>6, <2>1 DEF V!ClaimRemoved, V!repctl, MigratedInv
<1>7. ASSUME NEW v \in Volumes, V!Reclaim(v) PROVE MigratedInv(u)'
  <2>1. /\ pv'[u].phase = IF u = v THEN "gone" ELSE pv[u].phase
        /\ "dst" \in data[u] => "dst" \in data'[u]
    BY <1>0, <1>7 DEF V!Reclaim, V!SetPV, PVObject, VolumeTypes
  <2> QED
    BY <1>0, <1>7, <2>1 DEF V!Reclaim, V!repctl, MigratedInv
<1>8. CASE V!Orphan
  <2>1. pod'[u].st = pod[u].st
    BY <1>0, <1>8 DEF V!Orphan, Pod
  <2> QED
    BY <1>0, <1>8, <2>1 DEF V!Orphan, V!migrator, V!repctl, MigratedInv
<1>9. CASE UNCHANGED <<pv, mig, data, pod, rec, recycled>>
  BY <1>0, <1>9 DEF MigratedInv
<1> QED
  BY <1>1, <1>2, <1>3, <1>4, <1>5, <1>6, <1>7, <1>8, <1>9, ZenonT(60)
  DEF V!Next, V!vars, V!objects, V!migrator, V!repctl, V!WaitForPVToBeBound, V!WaitForPodToBeReady,
      V!MigratePVCommand, V!MigrateSTSCommand, V!Start, V!Exit, V!DeleteStsOrphan,
      V!CreateStatefulSet,
      V!ListPodsAgain

\* A command waits for the migrated PV of each of its volumes before it goes on.
LEMMA CommandStep ==
  ASSUME Inv, [V!Next]_(V!vars)
  PROVE  CommandInv'
<1>0. VolumeTypes /\ CommandInv /\ \A step : V!AtStep(step) => cmd \in Command
  BY DEF Inv, VolumeTypes, V!AtStep
<1>1. ASSUME NEW v \in Volumes, V!Reconcile(v) \/ V!Fail(v) PROVE CommandInv'
  <2>1. UNCHANGED <<cmd, go>> /\ \A u \in Volumes : mig[u] # "none" => mig'[u] # "none"
    BY <1>0, <1>1 DEF V!Reconcile, V!ReconcilePV, V!VolumeMigrate, V!CreateMigratedPV,
       V!UpdatePV, V!Refuse,
         V!Fail, V!EndReconcile, V!objects, V!repctl, VolumeTypes
  <2> QED
    BY <1>0, <2>1 DEF CommandInv
<1>2. ASSUME NEW v \in Volumes, V!MigratePV(v) PROVE CommandInv'
  BY <1>0, <1>2 DEF V!MigratePV, CommandInv, VolumeTypes
<1>3. ASSUME NEW v \in Volumes, V!WaitForPVToBeBound(v) PROVE CommandInv'
  <2>1. mig' = mig /\ cmd' = cmd /\ mig[v] # "none"
    BY <1>3, ZenonT(60) DEF V!WaitForPVToBeBound, V!objects
  <2>2. go'[v] = "done" /\ \A u \in Volumes : u # v => go'[u] = go[u]
    BY <1>0, <1>3 DEF V!WaitForPVToBeBound, VolumeTypes
  <2>3. \A u \in Volumes : u = v \/ go'[u] = go[u]
    BY <2>2, ZenonT(60)
  <2>4. cmd # V!Idle => cmd.vols \subseteq Volumes
    BY <1>0 DEF VolumeTypes, Command
  <2> QED
    BY <1>0, <2>1, <2>2, <2>3, <2>4 DEF CommandInv
<1>4. ASSUME NEW v \in Volumes, V!DeleteClaims(v) \/ V!DeletePod(v) \/ V!WaitForPodToBeReady(v)
      PROVE  CommandInv'
  <2>1. /\ cmd \in Command /\ cmd # V!Idle /\ cmd.step # "migrate"
        /\ cmd'.vols = cmd.vols /\ cmd'.ndu = cmd.ndu /\ UNCHANGED <<go, mig>>
    BY <1>0, <1>4, ZenonT(60)
       DEF V!DeleteClaims, V!DeletePod, V!WaitForPodToBeReady, V!AtStep, Command, V!objects
  <2> QED
    BY <1>0, <2>1, ZenonT(60) DEF CommandInv
<1>5. ASSUME NEW vols \in SUBSET Volumes, NEW wait \in BOOLEAN, NEW ndu \in BOOLEAN,
             NEW class \in {"valid", "bad"}, V!Start(vols, wait, ndu, class)
      PROVE  CommandInv'
  BY <1>5 DEF V!Start, CommandInv
<1>6. CASE V!Exit
  BY <1>6 DEF V!Exit, CommandInv
<1>7. CASE V!DeleteStsOrphan
  <2>1. /\ cmd \in Command /\ cmd # V!Idle /\ cmd.ndu /\ UNCHANGED <<go, mig>>
        /\ cmd'.vols = cmd.vols /\ cmd'.ndu = cmd.ndu
        /\ \A v \in Volumes : go[v] \in {"none", "done"}
    BY <1>0, <1>7, ZenonT(60) DEF V!DeleteStsOrphan, V!AtStep, Command
  <2> QED
    BY <1>0, <2>1, ZenonT(60) DEF CommandInv
<1>8. CASE V!CreateStatefulSet \/ V!ListPodsAgain
  <2>1. /\ cmd \in Command /\ cmd # V!Idle /\ cmd.step # "migrate"
        /\ cmd'.vols = cmd.vols /\ cmd'.ndu = cmd.ndu /\ UNCHANGED <<go, mig>>
    BY <1>0, <1>8, ZenonT(60) DEF V!CreateStatefulSet, V!ListPodsAgain, V!AtStep, Command, V!objects
  <2> QED
    BY <1>0, <2>1 DEF CommandInv
<1>9. CASE UNCHANGED <<cmd, go, mig>>
  BY <1>0, <1>9 DEF CommandInv
<1>10. CASE V!MigratePVCommand \/ V!MigrateSTSCommand
  BY <1>5, <1>10, ZenonT(60) DEF V!MigratePVCommand, V!MigrateSTSCommand, V!FilterPods
<1> QED
  BY <1>1, <1>2, <1>3, <1>4, <1>6, <1>7, <1>8, <1>9, <1>10, ZenonT(60)
  DEF V!Next, V!vars, V!objects, V!repctl, V!Adopt, V!ScaleUp, V!PodGone, V!ClaimRemoved, V!Reclaim,
      V!RecreatePod, V!Orphan

\* The data of a volume whose claim a migration without disruption deleted is on the
\* source or on the migrated volume from then on, in whatever order csi-migrator
\* retains, Kubernetes reclaims and users scale (recreateStsNdu, waitForPVToBeBound).
THEOREM Kept == V!Spec => []V!DataKept
<1>1. V!Init => Inv
  <2> SUFFICES ASSUME V!Init PROVE Inv
    OBVIOUS
  <2>1. PICK up \in SUBSET Volumes, policy \in {"Delete", "Retain"} :
          /\ pv = [v \in Volumes |-> [phase  |-> IF v \in up THEN "bound" ELSE "none",
                                     policy |-> policy, req |-> "no"]]
          /\ data = [v \in Volumes |-> IF v \in up THEN {"src"} ELSE {}]
          /\ claim = [v \in Volumes |-> IF v \in up THEN "bound" ELSE "none"]
          /\ pod = [v \in Volumes |-> [st    |-> IF v \in up THEN "running" ELSE "none",
                                      owned |-> v \in up]]
    BY ZenonT(60) DEF V!Init
  <2>2. \A v \in Volumes : /\ pv[v] \in PVObject /\ pod[v] \in Pod
                           /\ pv[v].phase # "none" => pod[v].st # "none"
    BY <2>1, SMTT(60) DEF PVObject, Pod
  <2>3. pv \in [Volumes -> PVObject] /\ pod \in [Volumes -> Pod]
    BY <2>1, <2>2, SMTT(60)
  <2>4. VolumeTypes
    BY <2>1, <2>3, ZenonT(60) DEF V!Init, VolumeTypes
  <2>5. \A v \in Volumes : MigratedInv(v)
    BY <2>2, ZenonT(60) DEF V!Init, MigratedInv
  <2> QED
    BY <2>4, <2>5, ZenonT(60) DEF V!Init, Inv, CommandInv
<1>2. Inv /\ [V!Next]_(V!vars) => Inv'
  BY TypeStep, MigratedStep, CommandStep DEF Inv
<1>3. Inv => V!DataKept
  BY DEF Inv, VolumeTypes, MigratedInv, V!DataKept
<1> QED
  BY <1>1, <1>2, <1>3, PTL DEF V!Spec

=============================================================================
