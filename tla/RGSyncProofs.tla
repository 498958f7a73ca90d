---------------------------- MODULE RGSyncProofs ----------------------------
(***************************************************************************)
(* Proofs about RGSync, for every set of retention policies and of RGs     *)
(* that the target may hold already and lose: a group has one RG on the    *)
(* target cluster, and the controllers of the two clusters implement       *)
(* PairLifecycle.                                                          *)
(***************************************************************************)
EXTENDS RGSync, TLAPS

\* The end of a reconcile only takes copies away.
LEMMA KeepFacts ==
  ASSUME NEW f \in [Slots -> BOOLEAN], Keep(f)
  PROVE  fresh' \in [Slots -> BOOLEAN] /\ \A l \in Slots : fresh'[l] => f[l]
BY DEF Keep

\* What a write of the RG in l leaves: the other RGs, and no current copy of l.
LEMMA PutFacts ==
  ASSUME TypeOK, NEW l \in Slots, NEW o \in RG, Put(l, o)
  PROVE  /\ rg' \in [Slots -> RG] /\ fresh' \in [Slots -> BOOLEAN]
         /\ rg'[l] = o /\ ~fresh'[l]
         /\ \A k \in Slots : k # l => rg'[k] = rg[k]
         /\ \A k \in Slots : fresh'[k] => fresh[k]
<1> DEFINE f == [fresh EXCEPT ![l] = FALSE]
<1>1. f \in [Slots -> BOOLEAN] /\ Keep(f)
  BY DEF TypeOK, Put
<1>2. ~f[l] /\ \A k \in Slots : f[k] => fresh[k]
  BY DEF TypeOK
<1>3. /\ rg' \in [Slots -> RG] /\ rg'[l] = o
      /\ \A k \in Slots : k # l => rg'[k] = rg[k]
  BY DEF TypeOK, Put
<1> QED
  BY <1>1, <1>2, <1>3, KeepFacts, ZenonT(60)

\* A step without a write keeps the RGs and may lose copies.
LEMMA NoWriteFacts ==
  ASSUME TypeOK, NoWrite
  PROVE  /\ rg' \in [Slots -> RG] /\ fresh' \in [Slots -> BOOLEAN]
         /\ \A k \in Slots : rg'[k] = rg[k] /\ (fresh'[k] => fresh[k])
BY KeepFacts DEF TypeOK, NoWrite

\* An update writes the RG or, on an old copy, does nothing.
LEMMA UpdateFacts ==
  ASSUME TypeOK, NEW l \in Slots, NEW o \in RG, Update(l, o)
  PROVE  /\ rg' \in [Slots -> RG] /\ fresh' \in [Slots -> BOOLEAN]
         /\ rg'[l] = IF fresh[l] THEN o ELSE rg[l]
         /\ \A k \in Slots : k # l => rg'[k] = rg[k]
         /\ \A k \in Slots : fresh'[k] => fresh[k]
<1>1. CASE fresh[l]
  BY <1>1, PutFacts, ZenonT(60) DEF Update
<1>2. CASE ~fresh[l]
  BY <1>2, NoWriteFacts, ZenonT(60) DEF Update
<1> QED
  BY <1>1, <1>2

\* The values that the reconcilers write are RGs.
LEMMA WrittenRGs ==
  ASSUME NEW c \in RG
  PROVE  /\ \A b \in BOOLEAN : [c EXCEPT !.fin = b] \in RG /\ [c EXCEPT !.sidefin = b] \in RG
         /\ [c EXCEPT !.del = TRUE] \in RG /\ [c EXCEPT !.dreq = TRUE] \in RG
         /\ \A n \in Slots : [c EXCEPT !.remote = n, !.synced = TRUE] \in RG
         /\ \A l \in Slots : [NoRG EXCEPT !.st = "present", !.remote = l] \in RG
         /\ NoRG \in RG
BY ZenonT(60) DEF RG, NoRG

CtlType == [pc : Steps, name : Slots \cup {"none"}, done : BOOLEAN]

\* The next call of one controller.
LEMMA CtlFacts ==
  ASSUME TypeOK, NEW l \in Slots, NEW step \in Steps, Ctl(l, step)
  PROVE  /\ ctl' \in [Slots -> CtlType]
         /\ ctl'[l].pc = step /\ (step = "annotate" => ctl'[l].name = ctl[l].name)
         /\ \A k \in Slots : k # l => ctl'[k] = ctl[k]
BY ZenonT(60) DEF TypeOK, Ctl, Idle, Steps, CtlType

-----------------------------------------------------------------------------
(* The inductive invariant.                                                  *)

\* The slot of the target that this group's RG has: it depends on who has the name, and
\* stays what it is once the RG has been created under the other name.  A slot's mate is
\* where its peer lives.
Twin == IF rg["same"].st = "owner" \/ renamed THEN "alt" ELSE "same"
Mate(l) == IF l = "src" THEN Twin ELSE "src"

\* The RG in l is one of the pair and names its peer, the source possibly not yet.
Placed(l) ==
  Present(l) =>
    /\ l \in {"src", Twin}
    /\ rg[l].remote = Mate(l) \/ (l = "src" /\ rg[l].remote = "none")

\* A reconcile of l that is in state c is one of the pair and uses the name of its peer;
\* before the two are synchronised the source's may be the name of somebody else's RG.
NamedAs(l, c) ==
  /\ c.pc # "idle" => l \in {"src", Twin}
  /\ c.pc = "lookup" => c.name \in {"none", Mate(l)}
  /\ c.pc = "sync" => c.name = Mate(l) \/ (l = "src" /\ c.name = "same")
  /\ c.pc = "annotate" => c.name = Mate(l)

SlotInv ==
  /\ rg["src"].st \in {"absent", "present"} /\ rg["alt"].st \in {"absent", "present"}
  /\ \A l \in Slots : Placed(l) /\ NamedAs(l, ctl[l])

HeldIn(l) == Present(l) /\ (rg[l].del => rg[l].fin)

\* What a controller read still justifies the call it is about to make.
Justified(l) ==
  /\ rg[l].del => asked[Site(l)] \/ rg[l].dreq
  /\ ctl[l].pc = "lookup" => asked[Site(l)]
  /\ ctl[l].pc = "delete" => asked[Site(l)] \/ (Present(l) /\ rg[l].dreq /\ ~rg[l].del)
  /\ ctl[l].pc = "addFin" /\ fresh[l] => ~rg[l].del
  /\ ctl[l].pc \in {"lookup", "removeFin"} /\ fresh[l] => rg[l].del
  /\ ctl[l].pc = "removeFin" /\ fresh[l] /\ policy = "delete" /\ ~rg[l].dreq /\ rg[l].remote # "none"
       => ~HeldIn(Mate(l))

ReconcileInv == \A l \in Slots : Justified(l)

IInv == TypeOK /\ SlotInv /\ ReconcileInv

\* The name that a reconcile of the source will use.
NameOf(c) == IF c.pc \in {"lookup", "sync", "annotate"} THEN c.name ELSE "none"

\* The other name is not used before an RG is created under it.
UnusedInv ==
  ~renamed =>
    /\ rg["alt"].st # "present" /\ ctl["alt"].pc = "idle"
    /\ rg["src"].remote # "alt" /\ NameOf(ctl["src"]) # "alt"

\* When the first name has come free after that, the source knows the other one.
RecordedInv == renamed /\ rg["same"].st # "owner" => ~Unrecorded

NameInv == UnusedInv /\ RecordedInv

\* The two slots of the pair are each other's mates.
LEMMA MateFacts ==
  /\ Twin \in Slots \ {"src"} /\ Site("src") = "src" /\ Site(Twin) = "tgt"
  /\ \A l \in {"src", Twin} : Mate(l) \in {"src", Twin} /\ Mate(l) # l /\ Mate(Mate(l)) = l
BY DEF Twin, Slots, Site, Mate

\* The step of PairLifecycle, with its stuttering.
PairStep == [Pair!Next]_(Pair!vars)
Good == IInv' /\ PairStep

\* The RG in l keeps what the pair is about.
Same(l) ==
  /\ rg'[l].st = rg[l].st /\ rg'[l].fin = rg[l].fin /\ rg'[l].del = rg[l].del
  /\ rg'[l].dreq = rg[l].dreq /\ rg'[l].remote = rg[l].remote

\* A controller goes on to no call that needs a justification, or keeps the one it had.
CtlQuiet(l) ==
  \/ ctl'[l].pc \notin {"lookup", "delete", "addFin", "removeFin"}
  \/ ctl'[l].pc = ctl[l].pc /\ (fresh'[l] => fresh[l])

\* Then it stays justified while the RGs stay the same.
LEMMA CtlRests ==
  ASSUME NEW l \in Slots, Justified(l), CtlQuiet(l), \A k \in Slots : Same(k),
         asked' = asked, policy' = policy, renamed' = renamed
  PROVE  Justified(l)'
<1>1. /\ \A k \in Slots : HeldIn(k)' = HeldIn(k) /\ Present(k)' = Present(k)
      /\ Mate(l)' = Mate(l) /\ Mate(l) \in Slots
  BY DEF Same, HeldIn, Present, Mate, Twin, Slots
<1> QED
  BY <1>1 DEF Same, Justified, CtlQuiet

\* The RGs that stay the same stay where they are.
LEMMA SlotsRest ==
  ASSUME SlotInv, \A k \in Slots : Same(k), \A k \in Slots : NamedAs(k, ctl'[k]),
         renamed' = renamed
  PROVE  SlotInv'
<1>1. Twin' = Twin /\ \A k \in Slots : Mate(k)' = Mate(k) /\ (Present(k)' <=> Present(k))
  BY DEF Same, Present, Mate, Twin, Slots
<1>2. \A k \in Slots : Placed(k)'
  BY <1>1 DEF SlotInv, Placed, Same
<1>3. \A k \in Slots : NamedAs(k, ctl[k])'
  BY <1>1 DEF NamedAs
<1> QED
  BY <1>2, <1>3 DEF SlotInv, Same, Slots

\* The pair does not change when its RGs stay the same.
LEMMA PairStutters ==
  ASSUME \A l \in Slots : Same(l), asked' = asked, policy' = policy
  PROVE  PairStep
<1>1. Target' = Target /\ Target \in Slots
  BY DEF Same, Target, Present, Slots
<1>2. \A s \in Sites :
        /\ Here(s)'.st = Here(s).st /\ Here(s)'.fin = Here(s).fin /\ Here(s)'.del = Here(s).del
        /\ Here(s)'.dreq = Here(s).dreq /\ Here(s)'.remote = Here(s).remote
  BY <1>1 DEF Same, Here, Slots
<1>3. \A s \in Sites : Held(s)' = Held(s)
  BY <1>2 DEF Held
<1> QED
  BY <1>2, <1>3 DEF PairStep, Pair!vars

\* A step that keeps the RGs and the justifications does no harm.
LEMMA QuietStep ==
  ASSUME IInv, TypeOK', asked' = asked, policy' = policy, renamed' = renamed,
         \A l \in Slots : Same(l) /\ CtlQuiet(l) /\ NamedAs(l, ctl'[l])
  PROVE  Good
<1>1. SlotInv' /\ ReconcileInv'
  BY SlotsRest, CtlRests DEF IInv, ReconcileInv
<1> QED
  BY <1>1, PairStutters DEF Good, IInv

-----------------------------------------------------------------------------
(* The steps of the pair.                                                    *)

\* What the refinement mapping makes of a site, and of the RG in a slot.
ObjOf(s) == IF ~Held(s) THEN "absent" ELSE IF Here(s).del THEN "leaving" ELSE "live"
TiedOf(s) == Held(s) /\ Here(s).fin /\ Here(s).remote # "none"
ToldOf(s) == Held(s) /\ Here(s).dreq
ObjIn(l) == IF ~HeldIn(l) THEN "absent" ELSE IF rg[l].del THEN "leaving" ELSE "live"
TiedIn(l) == HeldIn(l) /\ rg[l].fin /\ rg[l].remote # "none"
ToldIn(l) == HeldIn(l) /\ rg[l].dreq

\* The site of a slot of the pair shows the RG in that slot.
LEMMA Shows ==
  ASSUME SlotInv, NEW l \in {"src", Twin}
  PROVE  /\ ObjOf(Site(l)) = ObjIn(l) /\ TiedOf(Site(l)) = TiedIn(l)
         /\ ToldOf(Site(l)) = ToldIn(l) /\ (Held(Site(l)) <=> HeldIn(l))
<1>1. CASE l = "src"
  BY <1>1 DEF Site, ObjOf, ObjIn, TiedOf, TiedIn, ToldOf, ToldIn, Held, HeldIn, Here, Present
<1>2. CASE l # "src" /\ Target = l
  <2>1. Site(l) = "tgt" /\ Here(Site(l)) = rg[l]
    BY <1>2 DEF Site, Here
  <2> QED
    BY <2>1 DEF ObjOf, ObjIn, TiedOf, TiedIn, ToldOf, ToldIn, Held, HeldIn, Present
<1>3. CASE l # "src" /\ Target # l
  <2>1. Site(l) = "tgt" /\ Target = "alt" /\ l = "same" /\ Twin = "same" /\ ~Present(l)
    BY <1>3 DEF SlotInv, Placed, Slots, Site, Target, Twin, Present
  <2>2. ~Present("alt")
    BY <2>1 DEF SlotInv, Placed, Slots
  <2>3. ~Held(Site(l)) /\ ~HeldIn(l)
    BY <2>1, <2>2 DEF Held, HeldIn, Here, Present
  <2> QED
    BY <2>3 DEF ObjOf, ObjIn, TiedOf, TiedIn, ToldOf, ToldIn
<1> QED
  BY <1>1, <1>2, <1>3

\* Every slot of the pair is seen at its site.
Seen ==
  \A l \in {"src", Twin} :
    /\ ObjOf(Site(l)) = ObjIn(l) /\ TiedOf(Site(l)) = TiedIn(l)
    /\ ToldOf(Site(l)) = ToldIn(l) /\ (Held(Site(l)) <=> HeldIn(l))

\* That is so in every state, the next one included.
LEMMA SeenAlways == (SlotInv => Seen) /\ (SlotInv => Seen)'
<1>1. SlotInv => Seen
  BY Shows DEF Seen
<1> QED
  BY <1>1, PTL

\* The steps of the RG in l as the pair sees them: it is tied, told to leave, made, on its
\* way or gone.
Ties(l) ==
  /\ ObjIn(l)' = ObjIn(l) /\ ToldIn(l)' = ToldIn(l) /\ asked' = asked
  /\ TiedIn(l)' = TiedIn(l) \/ (ObjIn(l) # "absent" /\ TiedIn(l)' = TRUE)
Tells(l) ==
  /\ ObjIn(l)' = ObjIn(l) /\ TiedIn(l)' = TiedIn(l) /\ asked' = asked
  /\ ObjIn(l) # "absent" => policy = "delete" /\ asked[Site(Mate(l))] /\ ToldIn(l)' = TRUE
  /\ ObjIn(l) = "absent" => ToldIn(l)' = ToldIn(l)
Makes(l) ==
  /\ ObjIn(l) = "absent" /\ ObjIn(l)' = "live" /\ ToldIn(l)' = ToldIn(l)
  /\ asked' = asked /\ TiedIn(l)' \in BOOLEAN
Leaves(l) ==
  /\ ObjIn(l) = "live"
  /\ asked' = [asked EXCEPT ![Site(l)] = TRUE] \/ (ToldIn(l) /\ asked' = asked)
  /\ \/ ObjIn(l)' = "leaving" /\ TiedIn(l)' = TiedIn(l) /\ ToldIn(l)' = ToldIn(l)
     \/ ~TiedIn(l) /\ ObjIn(l)' = "absent" /\ TiedIn(l)' = FALSE /\ ToldIn(l)' = FALSE
Goes(l) ==
  /\ ObjIn(l) = "leaving" /\ ObjIn(l)' = "absent" /\ TiedIn(l)' = FALSE /\ ToldIn(l)' = FALSE
  /\ asked' = asked
  /\ policy = "delete" /\ TiedIn(l) /\ ~ToldIn(l) => ~HeldIn(Mate(l))

\* Each of them, in one slot while the mate keeps its RG, is a step of PairLifecycle.
LEMMA PairAt ==
  ASSUME SlotInv, SlotInv', Twin' = Twin, NEW l \in {"src", Twin}, Same(Mate(l)),
         policy' = policy, Ties(l) \/ Tells(l) \/ Makes(l) \/ Leaves(l) \/ Goes(l)
  PROVE  PairStep
<1>0. PICK m \in {"src", Twin} : m = Mate(l)
  BY MateFacts
<1> DEFINE s == Site(l)
           r == Site(m)
           ob == [t \in Sites |-> ObjOf(t)]
           ti == [t \in Sites |-> TiedOf(t)]
           to == [t \in Sites |-> ToldOf(t)]
<1>1. /\ s \in Sites /\ r = Pair!Other(s) /\ r \in Sites /\ s # r
      /\ \A t \in Sites : t = s \/ t = r
  BY <1>0, MateFacts DEF Sites, Site, Pair!Other, Mate, Twin
<1>2. HeldIn(m)' = HeldIn(m)
  BY <1>0 DEF Same, HeldIn, Present
<1>3. ObjIn(m)' = ObjIn(m) /\ TiedIn(m)' = TiedIn(m) /\ ToldIn(m)' = ToldIn(m)
  BY <1>0, <1>2 DEF Same, ObjIn, TiedIn, ToldIn
<1>4. /\ ObjOf(s) = ObjIn(l) /\ TiedOf(s) = TiedIn(l) /\ ToldOf(s) = ToldIn(l)
      /\ ObjOf(s)' = ObjIn(l)' /\ TiedOf(s)' = TiedIn(l)' /\ ToldOf(s)' = ToldIn(l)'
      /\ ObjOf(r)' = ObjOf(r) /\ TiedOf(r)' = TiedOf(r) /\ ToldOf(r)' = ToldOf(r)
      /\ Held(r) <=> HeldIn(m)
  BY <1>0, <1>3, SeenAlways DEF Seen, Site
<1>5. /\ ob' = [ob EXCEPT ![s] = ObjIn(l)']
      /\ ti' = [ti EXCEPT ![s] = TiedIn(l)']
      /\ to' = [to EXCEPT ![s] = ToldIn(l)']
  BY <1>1, <1>4, ZenonT(60)
<1>6. /\ ob[s] = ObjIn(l) /\ ti[s] = TiedIn(l) /\ to[s] = ToldIn(l)
      /\ ob[r] = "absent" <=> ~HeldIn(m)
  BY <1>1, <1>4 DEF ObjOf
<1>7. /\ ob = [t \in Sites |-> IF ~Held(t) THEN "absent"
                              ELSE IF Here(t).del THEN "leaving" ELSE "live"]
      /\ ti = [t \in Sites |-> Held(t) /\ Here(t).fin /\ Here(t).remote # "none"]
      /\ to = [t \in Sites |-> Held(t) /\ Here(t).dreq]
  BY ZenonT(60) DEF ObjOf, TiedOf, ToldOf
<1>8. /\ ob' = [t \in Sites |-> IF ~Held(t) THEN "absent"
                               ELSE IF Here(t).del THEN "leaving" ELSE "live"]'
      /\ ti' = [t \in Sites |-> Held(t) /\ Here(t).fin /\ Here(t).remote # "none"]'
      /\ to' = [t \in Sites |-> Held(t) /\ Here(t).dreq]'
  BY ZenonT(60) DEF ObjOf, TiedOf, ToldOf
<1>9. /\ [ob EXCEPT ![s] = ob[s]] = ob /\ [ti EXCEPT ![s] = ti[s]] = ti
      /\ [to EXCEPT ![s] = to[s]] = to
  BY ZenonT(60)
<1> HIDE DEF ob, ti, to, s, r
<1>a. CASE Ties(l)
  <2>1. CASE TiedIn(l)' = TiedIn(l)
    <3>1. ob' = ob /\ ti' = ti /\ to' = to
      BY <1>a, <2>1, <1>5, <1>6, <1>9, ZenonT(60) DEF Ties
    <3> QED
      BY <1>a, <3>1, <1>7, <1>8, ZenonT(60) DEF PairStep, Pair!vars, Ties
  <2>2. CASE ObjIn(l) # "absent" /\ TiedIn(l)' = TRUE
    <3>1. ob' = ob /\ to' = to /\ ti' = [ti EXCEPT ![s] = TRUE] /\ ob[s] # "absent"
      BY <1>a, <2>2, <1>5, <1>6, <1>9 DEF Ties
    <3>2. Pair!Tie(s)
      BY <1>a, <3>1, <1>7, <1>8, ZenonT(60) DEF Pair!Tie, Ties
    <3> QED
      BY <1>1, <3>2 DEF PairStep, Pair!Next, Pair!Sites, Sites
  <2> QED
    BY <1>a, <2>1, <2>2, ZenonT(60) DEF Ties
<1>b. CASE Tells(l)
  <2>1. CASE ObjIn(l) = "absent"
    <3>1. ob' = ob /\ ti' = ti /\ to' = to
      BY <1>b, <2>1, <1>5, <1>6, <1>9, ZenonT(60) DEF Tells
    <3> QED
      BY <1>b, <3>1, <1>7, <1>8, ZenonT(60) DEF PairStep, Pair!vars, Tells
  <2>2. CASE ObjIn(l) # "absent"
    <3>1. ob' = ob /\ ti' = ti /\ to' = [to EXCEPT ![s] = TRUE] /\ ob[s] # "absent"
      BY <1>b, <2>2, <1>5, <1>6, <1>9 DEF Tells
    <3>2. asked[Pair!Other(s)]
      BY <1>b, <2>2, <1>0, <1>1 DEF Tells, r
    <3>3. Pair!Tell(s)
      BY <1>b, <2>2, <3>1, <3>2, <1>7, <1>8, ZenonT(60) DEF Pair!Tell, Tells
    <3> QED
      BY <1>1, <3>3 DEF PairStep, Pair!Next, Pair!Sites, Sites
  <2> QED
    BY <2>1, <2>2
<1>c. CASE Makes(l)
  <2>1. /\ ob[s] = "absent" /\ ob' = [ob EXCEPT ![s] = "live"] /\ to' = to
        /\ ti' = [ti EXCEPT ![s] = TiedIn(l)'] /\ TiedIn(l)' \in BOOLEAN
    BY <1>c, <1>5, <1>6, <1>9 DEF Makes
  <2>2. Pair!Replicate(s)
    BY <1>c, <2>1, <1>7, <1>8, ZenonT(60) DEF Pair!Replicate, Makes
  <2> QED
    BY <1>1, <2>2 DEF PairStep, Pair!Next, Pair!Sites, Sites
<1>d. CASE Leaves(l)
  <2>1. /\ ob[s] = "live"
        /\ \/ ob' = [ob EXCEPT ![s] = "leaving"] /\ ti' = ti /\ to' = to
           \/ /\ ~ti[s] /\ ob' = [ob EXCEPT ![s] = "absent"]
              /\ ti' = [ti EXCEPT ![s] = FALSE] /\ to' = [to EXCEPT ![s] = FALSE]
    BY <1>d, <1>5, <1>6, <1>9, ZenonT(60) DEF Leaves
  <2>2. Pair!StartLeaving(s)
    BY <2>1, <1>7, <1>8, ZenonT(60) DEF Pair!StartLeaving, Pair!Vanish
  <2>3. Pair!UserDelete(s) \/ Pair!Leave(s)
    BY <1>d, <2>1, <2>2, <1>6, <1>7, ZenonT(60) DEF Pair!UserDelete, Pair!Leave, Leaves, s
  <2> QED
    BY <1>1, <2>3 DEF PairStep, Pair!Next, Pair!Sites, Sites
<1>e. CASE Goes(l)
  <2>1. /\ ob[s] = "leaving" /\ ob' = [ob EXCEPT ![s] = "absent"]
        /\ ti' = [ti EXCEPT ![s] = FALSE] /\ to' = [to EXCEPT ![s] = FALSE]
        /\ policy = "delete" /\ ti[s] /\ ~to[s] => ob[Pair!Other(s)] = "absent"
    BY <1>e, <1>0, <1>1, <1>5, <1>6, ZenonT(60) DEF Goes
  <2>2. Pair!Gone(s)
    BY <1>e, <2>1, <1>7, <1>8, ZenonT(60) DEF Pair!Gone, Pair!Vanish, Goes
  <2> QED
    BY <1>1, <2>2 DEF PairStep, Pair!Next, Pair!Sites, Sites
<1> QED
  BY <1>a, <1>b, <1>c, <1>d, <1>e

-----------------------------------------------------------------------------
(* The steps that change an RG.                                              *)

\* A step that changes the RG in l keeps the invariant if the new RG is placed and justified
\* and no call of a controller loses its justification.
LEMMA WriteStep ==
  ASSUME IInv, TypeOK', NEW l \in {"src", Twin}, policy' = policy,
         renamed' = renamed \/ (rg["same"].st = "owner" /\ renamed'),
         \A s \in Sites : asked[s] => asked'[s],
         \A k \in Slots : k # l => Same(k) /\ CtlQuiet(k),
         \A k \in Slots : NamedAs(k, ctl'[k]),
         rg'[l].st \in {"absent", "present", rg[l].st},
         Present(l)' => rg'[l].remote = Mate(l) \/ (l = "src" /\ rg'[l].remote = "none"),
         rg'[l].del => asked'[Site(l)] \/ rg'[l].dreq,
         ctl'[Mate(l)].pc = "removeFin" => (HeldIn(l)' => HeldIn(l)),
         ctl'[l].pc = "lookup" => asked'[Site(l)],
         ctl'[l].pc = "delete" => asked'[Site(l)] \/ (Present(l)' /\ rg'[l].dreq /\ ~rg'[l].del),
         fresh'[l] => ctl'[l].pc \notin {"lookup", "addFin", "removeFin"}
  PROVE  IInv' /\ SlotInv /\ SlotInv' /\ Twin' = Twin
<1>1. l \in Slots /\ Twin \in Slots /\ \A k \in Slots : Site(k) \in Sites
  BY MateFacts, SMTT(60) DEF Slots, Site, Sites
<1>2. /\ rg'["same"].st = "owner" => rg["same"].st = "owner"
      /\ rg["same"].st = "owner" => rg'["same"].st = "owner" \/ l = "same"
  BY <1>1 DEF Same, Twin, Slots
<1>3. Twin' = Twin /\ \A k \in Slots : Mate(k)' = Mate(k)
  BY <1>2 DEF Twin, Mate
<1>4. \A k \in Slots : k # l => (Present(k)' <=> Present(k))
  BY DEF Same, Present
<1>5. SlotInv'
  <2>1. \A k \in Slots : NamedAs(k, ctl[k])'
    BY <1>3, ZenonT(60) DEF NamedAs
  <2>2. Placed(l)'
    BY <1>1, <1>3, ZenonT(60) DEF Placed
  <2>3. \A k \in Slots : k # l => Placed(k)'
    BY <1>3, <1>4, SMTT(60) DEF IInv, SlotInv, Placed, Same
  <2>4. rg'["src"].st \in {"absent", "present"} /\ rg'["alt"].st \in {"absent", "present"}
    BY ZenonT(60) DEF IInv, SlotInv, Same, Slots
  <2> QED
    BY <2>1, <2>2, <2>3, <2>4, ZenonT(60) DEF SlotInv
<1>6. Justified(l)'
  BY ZenonT(60) DEF Justified
<1>7. ASSUME NEW k \in Slots, k # l PROVE Justified(k)'
  <2>1. Justified(k) /\ Same(k) /\ CtlQuiet(k)
    BY <1>7, ZenonT(60) DEF IInv, ReconcileInv
  <2>2. /\ rg'[k].del => asked'[Site(k)] \/ rg'[k].dreq
        /\ ctl'[k].pc = "lookup" => asked'[Site(k)]
        /\ ctl'[k].pc = "delete" => asked'[Site(k)] \/ (Present(k)' /\ rg'[k].dreq /\ ~rg'[k].del)
        /\ ctl'[k].pc = "addFin" /\ fresh'[k] => ~rg'[k].del
        /\ ctl'[k].pc \in {"lookup", "removeFin"} /\ fresh'[k] => rg'[k].del
    BY <1>1, <1>4, <1>7, <2>1, ZenonT(60) DEF Justified, Same, CtlQuiet
  <2>3. ASSUME ctl'[k].pc = "removeFin", fresh'[k], policy' = "delete", ~rg'[k].dreq,
               rg'[k].remote # "none"
        PROVE  ~HeldIn(Mate(k))'
    <3>1. CASE k \in {"src", Twin}
      <4>1. k = Mate(l) /\ Mate(k) = l /\ Mate(k)' = l
        BY <1>3, <1>7, <3>1, SMTT(60) DEF Mate, Twin
      <4> QED
        BY <2>1, <2>3, <4>1, ZenonT(60) DEF Justified, Same, CtlQuiet
    <3>2. CASE k \notin {"src", Twin}
      BY <2>3, <3>2, ZenonT(60) DEF NamedAs
    <3> QED
      BY <3>1, <3>2, ZenonT(60)
  <2> QED
    BY <2>2, <2>3, ZenonT(60) DEF Justified
<1>8. ReconcileInv'
  BY <1>6, <1>7 DEF ReconcileInv
<1> QED
  BY <1>3, <1>5, <1>8, SMTT(60) DEF IInv

\* A reconcile that ends, or goes on as before, does no harm.
LEMMA CtlEnds ==
  ASSUME IInv, \A k \in Slots : ctl'[k].pc = "idle" \/ ctl'[k] = ctl[k],
         \A k \in Slots : fresh'[k] => fresh[k]
  PROVE  \A k \in Slots : NamedAs(k, ctl'[k]) /\ CtlQuiet(k)
BY DEF IInv, SlotInv, NamedAs, CtlQuiet

\* Only the RGs of the pair are there and are reconciled.
LEMMA InPair ==
  ASSUME IInv, NEW l \in Slots, Present(l) \/ ctl[l].pc # "idle"
  PROVE  l \in {"src", Twin} /\ Mate(l) \in Slots /\ Site(l) \in Sites
<1>1. l \in {"src", Twin}
  BY DEF IInv, SlotInv, Placed, NamedAs
<1> QED
  BY <1>1, MateFacts DEF Slots, Sites, Site

\* A failing reconcile only forgets.
LEMMA ReconcileFailsStep == ASSUME IInv, NEW l \in Slots, ReconcileFails(l) PROVE Good
<1>1. /\ rg' \in [Slots -> RG] /\ fresh' \in [Slots -> BOOLEAN]
      /\ \A k \in Slots : rg'[k] = rg[k] /\ (fresh'[k] => fresh[k])
  BY NoWriteFacts DEF IInv, ReconcileFails
<1>2. /\ ctl' \in [Slots -> CtlType]
      /\ ctl'[l].pc = "idle" /\ \A k \in Slots : k # l => ctl'[k] = ctl[k]
  BY CtlFacts DEF IInv, ReconcileFails, Steps
<1>3. TypeOK'
  BY <1>1, <1>2 DEF IInv, TypeOK, ReconcileFails, CtlType
<1>4. \A k \in Slots : Same(k) /\ CtlQuiet(k) /\ NamedAs(k, ctl'[k])
  BY <1>1, <1>2, CtlEnds, ZenonT(60) DEF Same
<1> QED
  BY <1>3, <1>4, QuietStep DEF ReconcileFails

\* The sidecar's finalizer does not matter to the pair.
LEMMA SidecarStep ==
  ASSUME IInv, NEW l \in Slots, Sidecar(l) \/ SidecarWrites(l)
  PROVE  Good
<1>1. PICK b \in BOOLEAN : Put(l, [rg[l] EXCEPT !.sidefin = b])
  <2>1. rg[l] \in RG /\ rg[l] = [rg[l] EXCEPT !.sidefin = rg[l].sidefin] /\ rg[l].sidefin \in BOOLEAN
    BY DEF IInv, TypeOK, RG
  <2> QED
    BY <2>1, ZenonT(60) DEF Sidecar, SidecarProtects, SidecarReleases, SidecarWrites
<1> DEFINE c == [rg[l] EXCEPT !.sidefin = b]
<1>2. c \in RG /\ rg[l] \in RG
  BY WrittenRGs, ZenonT(60) DEF IInv, TypeOK
<1>3. /\ rg' \in [Slots -> RG] /\ fresh' \in [Slots -> BOOLEAN] /\ rg'[l] = c
      /\ \A k \in Slots : k # l => rg'[k] = rg[k]
      /\ \A k \in Slots : fresh'[k] => fresh[k]
  BY <1>1, <1>2, PutFacts DEF IInv
<1>4. ctl' = ctl /\ policy' = policy /\ asked' = asked /\ renamed' = renamed /\ upset' \in BOOLEAN
  BY ZenonT(60) DEF IInv, TypeOK, Sidecar, SidecarProtects, SidecarReleases, SidecarWrites, history
<1>5. TypeOK'
  BY <1>3, <1>4 DEF IInv, TypeOK
<1>6. \A k \in Slots : Same(k)
  BY <1>2, <1>3 DEF Same, RG
<1>7. \A k \in Slots : CtlQuiet(k) /\ NamedAs(k, ctl'[k])
  BY <1>3, <1>4, CtlEnds
<1> QED
  BY <1>4, <1>5, <1>6, <1>7, QuietStep

\* The finalizer is added to an RG that is not being deleted.
LEMMA AddFinalizerStep == ASSUME IInv, NEW l \in Slots, AddFinalizer(l) PROVE Good
<1> DEFINE c == [rg[l] EXCEPT !.fin = TRUE]
<1>1. c \in RG /\ rg[l] \in RG
  BY WrittenRGs, ZenonT(60) DEF IInv, TypeOK
<1>2. /\ rg' \in [Slots -> RG] /\ fresh' \in [Slots -> BOOLEAN]
      /\ rg'[l] = IF fresh[l] THEN c ELSE rg[l]
      /\ \A k \in Slots : k # l => rg'[k] = rg[k]
      /\ \A k \in Slots : fresh'[k] => fresh[k]
  BY <1>1, UpdateFacts DEF IInv, AddFinalizer
<1>3. /\ ctl' \in [Slots -> CtlType]
      /\ ctl'[l].pc = "idle" /\ \A k \in Slots : k # l => ctl'[k] = ctl[k]
  BY CtlFacts DEF IInv, AddFinalizer, Steps
<1>4. TypeOK' /\ asked' = asked /\ policy' = policy /\ renamed' = renamed
  BY <1>2, <1>3 DEF IInv, TypeOK, AddFinalizer, history, CtlType
<1>5. \A k \in Slots : CtlQuiet(k) /\ NamedAs(k, ctl'[k])
  BY <1>2, <1>3, CtlEnds
<1>6. \A k \in Slots : k # l => Same(k)
  BY <1>2 DEF Same
<1>7. CASE ~fresh[l]
  <2>1. \A k \in Slots : Same(k)
    BY <1>2, <1>7 DEF Same
  <2> QED
    BY <2>1, <1>4, <1>5, QuietStep
<1>8. CASE fresh[l]
  <2>1. /\ ~rg[l].del /\ rg'[l].del = rg[l].del /\ rg'[l].st = rg[l].st /\ rg'[l].fin = TRUE
        /\ rg'[l].dreq = rg[l].dreq /\ rg'[l].remote = rg[l].remote
    BY <1>1, <1>2, <1>8 DEF IInv, ReconcileInv, Justified, AddFinalizer, RG
  <2>2. (HeldIn(l)' <=> HeldIn(l)) /\ (Present(l)' <=> Present(l))
    BY <2>1 DEF HeldIn, Present
  <2>3. l \in {"src", Twin} /\ Mate(l) \in Slots
    BY InPair DEF AddFinalizer
  <2>4. Present(l)' => rg'[l].remote = Mate(l) \/ (l = "src" /\ rg'[l].remote = "none")
    BY <2>1, <2>2 DEF IInv, SlotInv, Placed
  <2>5. IInv' /\ SlotInv /\ SlotInv' /\ Twin' = Twin
    BY <1>3, <1>4, <1>5, <1>6, <2>1, <2>2, <2>3, <2>4, WriteStep, ZenonT(60)
  <2>6. Ties(l)
    BY <1>4, <2>1, <2>2, ZenonT(60) DEF Ties, ObjIn, TiedIn, ToldIn
  <2>7. Same(Mate(l))
    BY <1>6, <2>3, MateFacts
  <2> QED
    BY <1>4, <2>3, <2>5, <2>6, <2>7, PairAt DEF Good
<1> QED
  BY <1>7, <1>8

\* The finalizer is removed from an RG that is being deleted and need not wait for its peer.
LEMMA RemoveFinalizerStep == ASSUME IInv, NEW l \in Slots, RemoveFinalizer(l) PROVE Good
<1> DEFINE c == [rg[l] EXCEPT !.fin = FALSE]
<1>1. c \in RG /\ rg[l] \in RG
  BY WrittenRGs, ZenonT(60) DEF IInv, TypeOK
<1>2. /\ rg' \in [Slots -> RG] /\ fresh' \in [Slots -> BOOLEAN]
      /\ rg'[l] = IF fresh[l] THEN c ELSE rg[l]
      /\ \A k \in Slots : k # l => rg'[k] = rg[k]
      /\ \A k \in Slots : fresh'[k] => fresh[k]
  BY <1>1, UpdateFacts DEF IInv, RemoveFinalizer
<1>3. /\ ctl' \in [Slots -> CtlType]
      /\ ctl'[l].pc = "idle" /\ \A k \in Slots : k # l => ctl'[k] = ctl[k]
  BY CtlFacts DEF IInv, RemoveFinalizer, Steps
<1>4. TypeOK' /\ asked' = asked /\ policy' = policy /\ renamed' = renamed
  BY <1>2, <1>3 DEF IInv, TypeOK, RemoveFinalizer, history, CtlType
<1>5. \A k \in Slots : CtlQuiet(k) /\ NamedAs(k, ctl'[k])
  BY <1>2, <1>3, CtlEnds
<1>6. \A k \in Slots : k # l => Same(k)
  BY <1>2 DEF Same
<1>7. CASE ~fresh[l]
  <2>1. \A k \in Slots : Same(k)
    BY <1>2, <1>7 DEF Same
  <2> QED
    BY <2>1, <1>4, <1>5, QuietStep
<1>8. CASE fresh[l]
  <2>1. /\ rg'[l].del = rg[l].del /\ rg'[l].st = rg[l].st /\ rg'[l].fin = FALSE
        /\ rg'[l].dreq = rg[l].dreq /\ rg'[l].remote = rg[l].remote
    BY <1>1, <1>2, <1>8 DEF RG
  <2>2. /\ rg[l].del /\ (asked[Site(l)] \/ rg[l].dreq)
        /\ policy = "delete" /\ rg[l].remote # "none" /\ ~rg[l].dreq => ~HeldIn(Mate(l))
    BY <1>8 DEF IInv, ReconcileInv, Justified, RemoveFinalizer
  <2>3. ~HeldIn(l)' /\ (HeldIn(l) => rg[l].fin) /\ (Present(l)' <=> Present(l))
    BY <2>1, <2>2, ZenonT(60) DEF HeldIn, Present
  <2>4. l \in {"src", Twin} /\ Mate(l) \in Slots
    BY InPair DEF RemoveFinalizer
  <2>5. Present(l)' => rg'[l].remote = Mate(l) \/ (l = "src" /\ rg'[l].remote = "none")
    BY <2>1, <2>3, SMTT(60) DEF IInv, SlotInv, Placed
  <2>6. IInv' /\ SlotInv /\ SlotInv' /\ Twin' = Twin
    BY <1>3, <1>4, <1>5, <1>6, <2>1, <2>2, <2>3, <2>4, <2>5, WriteStep, ZenonT(60)
  <2>7. Ties(l) \/ Goes(l)
    BY <1>4, <2>2, <2>3, ZenonT(60) DEF Ties, Goes, ObjIn, TiedIn, ToldIn
  <2>8. Same(Mate(l))
    BY <1>6, <2>4, MateFacts
  <2> QED
    BY <1>4, <2>4, <2>6, <2>7, <2>8, PairAt DEF Good
<1> QED
  BY <1>7, <1>8

\* The RG gets the name of its peer: from now on its deletion waits for it.
LEMMA AnnotateStep == ASSUME IInv, NEW l \in Slots, AnnotateSync(l) PROVE Good
<1> DEFINE n == ctl[l].name
           c == [rg[l] EXCEPT !.remote = n, !.synced = TRUE]
<1>1. l \in {"src", Twin} /\ Mate(l) \in Slots /\ n = Mate(l) /\ n \in Slots
  BY InPair DEF IInv, SlotInv, NamedAs, AnnotateSync
<1>2. c \in RG /\ rg[l] \in RG
  BY <1>1, WrittenRGs, ZenonT(60) DEF IInv, TypeOK
<1>3. /\ rg' \in [Slots -> RG] /\ fresh' \in [Slots -> BOOLEAN]
      /\ rg'[l] = IF fresh[l] THEN c ELSE rg[l]
      /\ \A k \in Slots : k # l => rg'[k] = rg[k]
      /\ \A k \in Slots : fresh'[k] => fresh[k]
  BY <1>2, UpdateFacts DEF IInv, AnnotateSync
<1>4. /\ ctl' \in [Slots -> CtlType]
      /\ ctl'[l].pc = "idle" /\ \A k \in Slots : k # l => ctl'[k] = ctl[k]
  BY CtlFacts DEF IInv, AnnotateSync, Steps
<1>5. TypeOK' /\ asked' = asked /\ policy' = policy /\ renamed' = renamed
  BY <1>3, <1>4 DEF IInv, TypeOK, AnnotateSync, history, CtlType
<1>6. \A k \in Slots : CtlQuiet(k) /\ NamedAs(k, ctl'[k])
  BY <1>3, <1>4, CtlEnds
<1>7. \A k \in Slots : k # l => Same(k)
  BY <1>3 DEF Same
<1>8. CASE ~fresh[l]
  <2>1. \A k \in Slots : Same(k)
    BY <1>3, <1>8 DEF Same
  <2> QED
    BY <2>1, <1>5, <1>6, QuietStep
<1>9. CASE fresh[l]
  <2>1. /\ rg'[l].del = rg[l].del /\ rg'[l].st = rg[l].st /\ rg'[l].fin = rg[l].fin
        /\ rg'[l].dreq = rg[l].dreq /\ rg'[l].remote = n
    BY <1>2, <1>3, <1>9 DEF RG
  <2>2. (HeldIn(l)' <=> HeldIn(l)) /\ (Present(l)' <=> Present(l))
    BY <2>1, ZenonT(60) DEF HeldIn, Present
  <2>3. rg[l].del => asked[Site(l)] \/ rg[l].dreq
    BY ZenonT(60) DEF IInv, ReconcileInv, Justified
  <2> HIDE DEF n
  <2>4. IInv' /\ SlotInv /\ SlotInv' /\ Twin' = Twin
    BY <1>1, <1>4, <1>5, <1>6, <1>7, <2>1, <2>2, <2>3, WriteStep, ZenonT(60)
  <2>5. Ties(l)
    <3>1. n # "none"
      BY <1>1 DEF Slots
    <3> QED
      BY <1>5, <2>1, <2>2, <3>1, ZenonT(60) DEF Ties, ObjIn, TiedIn, ToldIn
  <2>6. Same(Mate(l))
    BY <1>1, <1>7, MateFacts
  <2> QED
    BY <1>1, <1>5, <2>4, <2>5, <2>6, PairAt DEF Good
<1> QED
  BY <1>8, <1>9

\* A user deletes the RG.
LEMMA UserDeleteStep == ASSUME IInv, NEW l \in Slots, UserDelete(l) PROVE Good
<1> DEFINE c == [rg[l] EXCEPT !.del = TRUE]
<1>1. c \in RG /\ rg[l] \in RG
  BY WrittenRGs, ZenonT(60) DEF IInv, TypeOK
<1>2. /\ rg' \in [Slots -> RG] /\ fresh' \in [Slots -> BOOLEAN]
      /\ rg'[l] = c /\ ~fresh'[l]
      /\ \A k \in Slots : k # l => rg'[k] = rg[k]
      /\ \A k \in Slots : fresh'[k] => fresh[k]
  BY <1>1, PutFacts DEF IInv, UserDelete
<1>3. l \in {"src", Twin} /\ Mate(l) \in Slots /\ Site(l) \in Sites
  BY InPair DEF UserDelete
<1>4. /\ TypeOK' /\ ctl' = ctl /\ policy' = policy /\ renamed' = renamed /\ asked'[Site(l)] = TRUE
      /\ \A s \in Sites : asked[s] => asked'[s]
  BY <1>2, <1>3 DEF IInv, TypeOK, UserDelete
<1>5. \A k \in Slots : CtlQuiet(k) /\ NamedAs(k, ctl'[k])
  BY <1>2, <1>4, CtlEnds
<1>6. \A k \in Slots : k # l => Same(k)
  BY <1>2 DEF Same
<1>7. /\ rg'[l].del = TRUE /\ rg'[l].st = rg[l].st /\ rg'[l].fin = rg[l].fin
      /\ rg'[l].dreq = rg[l].dreq /\ rg'[l].remote = rg[l].remote
  BY <1>1, <1>2 DEF RG
<1>8. HeldIn(l) /\ (HeldIn(l)' <=> rg[l].fin) /\ Present(l)' /\ Present(l)
  BY <1>7 DEF HeldIn, Present, UserDelete
<1>9. rg'[l].remote = Mate(l) \/ (l = "src" /\ rg'[l].remote = "none")
  BY <1>7, <1>8, ZenonT(60) DEF IInv, SlotInv, Placed
<1>10. IInv' /\ SlotInv /\ SlotInv' /\ Twin' = Twin
  BY <1>2, <1>3, <1>4, <1>5, <1>6, <1>7, <1>8, <1>9, WriteStep, ZenonT(60)
<1>11. Leaves(l)
  BY <1>7, <1>8 DEF Leaves, ObjIn, TiedIn, ToldIn, UserDelete
<1>12. Same(Mate(l))
  BY <1>3, <1>6, MateFacts
<1> QED
  BY <1>3, <1>4, <1>10, <1>11, <1>12, PairAt, SMTT(60) DEF Good

\* A controller deletes the RG that it read with a request, or that the user deleted.
LEMMA DeleteOnRequestStep == ASSUME IInv, NEW l \in Slots, DeleteOnRequest(l) PROVE Good
<1> DEFINE c == [rg[l] EXCEPT !.del = TRUE]
<1>1. c \in RG /\ rg[l] \in RG
  BY WrittenRGs, ZenonT(60) DEF IInv, TypeOK
<1>2. /\ rg' \in [Slots -> RG] /\ fresh' \in [Slots -> BOOLEAN]
      /\ rg'[l] = IF Present(l) THEN c ELSE rg[l]
      /\ \A k \in Slots : k # l => rg'[k] = rg[k]
      /\ \A k \in Slots : fresh'[k] => fresh[k]
  <2>1. CASE Present(l)
    BY <2>1, <1>1, PutFacts DEF IInv, DeleteOnRequest
  <2>2. CASE ~Present(l)
    BY <2>2, NoWriteFacts DEF IInv, DeleteOnRequest
  <2> QED
    BY <2>1, <2>2
<1>3. /\ ctl' \in [Slots -> CtlType]
      /\ ctl'[l].pc = "idle" /\ \A k \in Slots : k # l => ctl'[k] = ctl[k]
  BY CtlFacts DEF IInv, DeleteOnRequest, Steps
<1>4. TypeOK' /\ asked' = asked /\ policy' = policy /\ renamed' = renamed
  BY <1>2, <1>3 DEF IInv, TypeOK, DeleteOnRequest, history, CtlType
<1>5. \A k \in Slots : CtlQuiet(k) /\ NamedAs(k, ctl'[k])
  BY <1>2, <1>3, CtlEnds
<1>6. \A k \in Slots : k # l => Same(k)
  BY <1>2 DEF Same
<1>7. Present(l) =>
        /\ rg'[l].del = TRUE /\ rg'[l].st = rg[l].st /\ rg'[l].fin = rg[l].fin
        /\ rg'[l].dreq = rg[l].dreq /\ rg'[l].remote = rg[l].remote
  BY <1>1, <1>2 DEF RG
<1>8. CASE ~Present(l) \/ rg[l].del
  <2>1. \A k \in Slots : Same(k)
    BY <1>1, <1>2, <1>7, <1>8 DEF Same, RG
  <2> QED
    BY <2>1, <1>4, <1>5, QuietStep
<1>9. CASE Present(l) /\ ~rg[l].del
  <2>1. HeldIn(l) /\ (HeldIn(l)' <=> rg[l].fin) /\ Present(l)'
    BY <1>7, <1>9, ZenonT(60) DEF HeldIn, Present
  <2>2. asked[Site(l)] \/ rg[l].dreq
    BY DEF IInv, ReconcileInv, Justified, DeleteOnRequest
  <2>3. l \in {"src", Twin} /\ Mate(l) \in Slots /\ Site(l) \in Sites
    BY <1>9, InPair
  <2>4. rg'[l].remote = Mate(l) \/ (l = "src" /\ rg'[l].remote = "none")
    BY <1>7, <1>9, ZenonT(60) DEF IInv, SlotInv, Placed
  <2>5. IInv' /\ SlotInv /\ SlotInv' /\ Twin' = Twin
    BY <1>3, <1>4, <1>5, <1>6, <1>7, <1>9, <2>1, <2>2, <2>3, <2>4, WriteStep, ZenonT(60)
  <2>6. asked[Site(l)] => asked = [asked EXCEPT ![Site(l)] = TRUE]
    BY <2>3 DEF IInv, TypeOK
  <2>7. Leaves(l)
    BY <1>4, <1>7, <1>9, <2>1, <2>2, <2>6, ZenonT(60) DEF Leaves, ObjIn, TiedIn, ToldIn
  <2>8. Same(Mate(l))
    BY <1>6, <2>3, MateFacts
  <2> QED
    BY <1>4, <2>3, <2>5, <2>7, <2>8, PairAt DEF Good
<1> QED
  BY <1>8, <1>9

\* The API server removes an RG that the pair no longer counts.
LEMMA FinalizeStep == ASSUME IInv, NEW l \in Slots, Finalize(l) PROVE Good
<1>1. /\ rg' \in [Slots -> RG] /\ fresh' \in [Slots -> BOOLEAN]
      /\ rg'[l] = NoRG /\ ~fresh'[l]
      /\ \A k \in Slots : k # l => rg'[k] = rg[k]
      /\ \A k \in Slots : fresh'[k] => fresh[k]
  <2>1. NoRG \in RG
    BY ZenonT(60) DEF NoRG, RG
  <2> QED
    BY <2>1, PutFacts DEF IInv, Finalize
<1>2. TypeOK' /\ ctl' = ctl /\ asked' = asked /\ policy' = policy /\ renamed' = renamed
  BY <1>1 DEF IInv, TypeOK, Finalize, history
<1>3. \A k \in Slots : CtlQuiet(k) /\ NamedAs(k, ctl'[k])
  BY <1>1, <1>2, CtlEnds, ZenonT(60)
<1>4. \A k \in Slots : k # l => Same(k)
  BY <1>1 DEF Same
<1>5. ~rg'[l].del /\ rg'[l].st = "absent" /\ ~Present(l)' /\ ~HeldIn(l)' /\ ~HeldIn(l)
  BY <1>1, SMTT(60) DEF NoRG, HeldIn, Present, Finalize
<1>6. ctl[l].pc \in {"lookup", "delete"} => asked[Site(l)]
  BY ZenonT(60) DEF IInv, ReconcileInv, Justified, Finalize
<1>7. l \in {"src", Twin} /\ Mate(l) \in Slots
  BY InPair, SMTT(60) DEF Finalize
<1>8. IInv' /\ SlotInv /\ SlotInv' /\ Twin' = Twin
  BY <1>1, <1>2, <1>3, <1>4, <1>5, <1>6, <1>7, WriteStep, ZenonT(60)
<1>9. Ties(l)
  BY <1>2, <1>5, ZenonT(60) DEF Ties, ObjIn, TiedIn, ToldIn
<1>10. Same(Mate(l))
  BY <1>4, <1>7, MateFacts
<1> QED
  BY <1>2, <1>7, <1>8, <1>9, <1>10, PairAt DEF Good

-----------------------------------------------------------------------------
(* The steps that decide what a reconcile does next.                         *)

\* A step of one controller that writes nothing does no harm if it is justified.
LEMMA ReadStep ==
  ASSUME IInv, TypeOK', asked' = asked, policy' = policy, renamed' = renamed,
         NEW l \in Slots,
         \A k \in Slots : Same(k) /\ NamedAs(k, ctl'[k]),
         \A k \in Slots : k # l => CtlQuiet(k),
         Justified(l)'
  PROVE  Good
<1>1. SlotInv'
  BY SlotsRest DEF IInv
<1>2. ReconcileInv'
  BY CtlRests DEF IInv, ReconcileInv
<1> QED
  BY <1>1, <1>2, PairStutters DEF Good, IInv

\* A controller that reads the RG goes on to what the marks justify, with the peer's name.
LEMMA ReconcileStep == ASSUME IInv, NEW l \in Slots, Reconcile(l) PROVE Good
<1>1. /\ rg' = rg /\ fresh' \in [Slots -> BOOLEAN]
      /\ \A k \in Slots : k # l => (fresh'[k] => fresh[k])
  <2>1. [fresh EXCEPT ![l] = TRUE] \in [Slots -> BOOLEAN] /\ Keep([fresh EXCEPT ![l] = TRUE])
    BY DEF IInv, TypeOK, Reconcile
  <2> QED
    BY <2>1, KeepFacts, ZenonT(60) DEF IInv, TypeOK, Reconcile
<1>2. /\ Branch(rg[l]) \in Steps \ {"annotate"}
      /\ Branch(rg[l]) = "lookup" => rg[l].del /\ ~rg[l].dreq
      /\ Branch(rg[l]) = "delete" => rg[l].dreq /\ ~rg[l].del
      /\ Branch(rg[l]) = "addFin" => ~rg[l].del
      /\ Branch(rg[l]) = "removeFin" => rg[l].del /\ rg[l].dreq
  BY ZenonT(60) DEF Branch, Steps
<1>3. rg[l].remote \in Slots \cup {"none"} /\ rg[l].synced \in BOOLEAN
  BY DEF IInv, TypeOK, RG
<1>4. /\ Start(rg[l]) \in CtlType /\ Start(rg[l]).pc = Branch(rg[l])
      /\ Branch(rg[l]) = "lookup" => Start(rg[l]).name = rg[l].remote
      /\ Branch(rg[l]) = "sync" =>
           Start(rg[l]).name = IF rg[l].remote = "none" THEN "same" ELSE rg[l].remote
  BY <1>2, <1>3 DEF Start, CtlType, Slots
<1>5. /\ ctl' \in [Slots -> CtlType] /\ ctl'[l] = Start(rg[l])
      /\ \A k \in Slots : k # l => ctl'[k] = ctl[k]
  BY <1>4 DEF IInv, TypeOK, Reconcile, CtlType
<1>6. TypeOK' /\ asked' = asked /\ policy' = policy /\ renamed' = renamed /\ Present(l)
  BY <1>1, <1>5 DEF IInv, TypeOK, Reconcile, history, CtlType
<1>7. \A k \in Slots : Same(k) /\ (k # l => CtlQuiet(k))
  BY <1>1, <1>5, ZenonT(60) DEF Same, CtlQuiet
<1>8. NamedAs(l, ctl'[l])
  <2>1. /\ l \in {"src", Twin}
        /\ rg[l].remote = Mate(l) \/ (l = "src" /\ rg[l].remote = "none")
    BY <1>6 DEF IInv, SlotInv, Placed
  <2>2. Mate(l) # "none"
    BY DEF Mate, Twin
  <2> QED
    BY <1>2, <1>4, <1>5, <2>1, <2>2, ZenonT(60) DEF NamedAs
<1>9. \A k \in Slots : NamedAs(k, ctl'[k])
  BY <1>5, <1>8 DEF IInv, SlotInv
<1>10. Justified(l)'
  <2>1. rg[l].del => asked[Site(l)] \/ rg[l].dreq
    BY DEF IInv, ReconcileInv, Justified
  <2>2. Present(l)'
    BY <1>1, <1>6 DEF Present
  <2> QED
    BY <1>1, <1>2, <1>4, <1>5, <1>6, <2>1, <2>2, ZenonT(60) DEF Justified
<1> QED
  BY <1>6, <1>7, <1>9, <1>10, ReadStep

\* A controller asks the peer to go because the user deleted its own RG, or it may remove the
\* finalizer because it need not wait.
LEMMA LookupStep == ASSUME IInv, NEW l \in Slots, LookupRemote(l) PROVE Good
<1>1. PICK n \in Slots \cup {"none"} : n = ctl[l].name /\ n \in {"none", Mate(l)}
  BY DEF IInv, TypeOK, SlotInv, NamedAs, LookupRemote
<1>2. /\ l \in {"src", Twin} /\ Mate(l) \in Slots /\ Site(l) \in Sites
      /\ asked[Site(l)] /\ (fresh[l] => rg[l].del) /\ asked' = asked /\ policy' = policy
      /\ renamed' = renamed
  BY InPair, ZenonT(60) DEF IInv, ReconcileInv, Justified, LookupRemote, history
<1>3. CASE n # "none" /\ policy = "delete" /\ Present(n) /\ ~rg[n].dreq
  <2> DEFINE c == [rg[n] EXCEPT !.dreq = TRUE]
  <2>1. n = Mate(l) /\ n \in Slots /\ n \in {"src", Twin} /\ Mate(n) = l /\ n # l
    BY <1>1, <1>2, <1>3, MateFacts, ZenonT(60)
  <2>2. c \in RG /\ rg[n] \in RG
    BY <2>1, WrittenRGs, ZenonT(60) DEF IInv, TypeOK
  <2>3. Ctl(l, "idle") /\ Put(n, c)
    BY <1>1, <1>3 DEF LookupRemote
  <2>4. /\ rg' \in [Slots -> RG] /\ fresh' \in [Slots -> BOOLEAN]
        /\ rg'[n] = c /\ ~fresh'[n]
        /\ \A k \in Slots : k # n => rg'[k] = rg[k]
        /\ \A k \in Slots : fresh'[k] => fresh[k]
    BY <2>1, <2>2, <2>3, PutFacts DEF IInv
  <2>5. /\ ctl' \in [Slots -> CtlType]
        /\ ctl'[l].pc = "idle" /\ \A k \in Slots : k # l => ctl'[k] = ctl[k]
    BY <2>3, CtlFacts DEF IInv, Steps
  <2>6. TypeOK'
    BY <2>4, <2>5 DEF IInv, TypeOK, LookupRemote, history, CtlType
  <2>7. \A k \in Slots : CtlQuiet(k) /\ NamedAs(k, ctl'[k])
    BY <2>4, <2>5, CtlEnds
  <2>8. \A k \in Slots : k # n => Same(k)
    BY <2>4 DEF Same
  <2>9. /\ rg'[n].del = rg[n].del /\ rg'[n].st = rg[n].st /\ rg'[n].fin = rg[n].fin
        /\ rg'[n].dreq = TRUE /\ rg'[n].remote = rg[n].remote
    BY <2>2, <2>4 DEF RG
  <2>10. (HeldIn(n)' <=> HeldIn(n)) /\ (Present(n)' <=> Present(n))
    BY <2>9 DEF HeldIn, Present
  <2>11. /\ ctl'[n].pc = "lookup" => asked'[Site(n)]
         /\ ctl'[n].pc = "delete" => asked'[Site(n)] \/ (Present(n)' /\ rg'[n].dreq /\ ~rg'[n].del)
         /\ Present(n)' => rg'[n].remote = Mate(n) \/ (n = "src" /\ rg'[n].remote = "none")
    <3>1. ctl'[n] = ctl[n] /\ asked' = asked
      BY <1>2, <2>1, <2>5, ZenonT(60)
    <3>2. (ctl[n].pc = "lookup" => asked[Site(n)])
          /\ (ctl[n].pc = "delete" => asked[Site(n)] \/ (Present(n) /\ rg[n].dreq /\ ~rg[n].del))
      BY <2>1, ZenonT(60) DEF IInv, ReconcileInv, Justified
    <3>3. Present(n) => rg[n].remote = Mate(n) \/ (n = "src" /\ rg[n].remote = "none")
      BY <2>1, ZenonT(60) DEF IInv, SlotInv, Placed
    <3> QED
      BY <2>9, <2>10, <3>1, <3>2, <3>3, ZenonT(60)
  <2> HIDE DEF c
  <2>12. IInv' /\ SlotInv /\ SlotInv' /\ Twin' = Twin
    BY <1>2, <2>1, <2>4, <2>6, <2>7, <2>8, <2>9, <2>10, <2>11, WriteStep, ZenonT(60)
  <2>13. Tells(n)
    BY <1>2, <1>3, <2>1, <2>9, <2>10, ZenonT(60) DEF Tells, ObjIn, TiedIn, ToldIn
  <2>14. Same(Mate(n))
    BY <2>1, <2>8
  <2> QED
    BY <1>2, <2>1, <2>12, <2>13, <2>14, PairAt DEF Good
<1>4. CASE ~(n # "none" /\ policy = "delete" /\ Present(n) /\ ~rg[n].dreq)
  <2>1. PICK step \in {"idle", "removeFin"} :
          /\ Ctl(l, step) /\ NoWrite
          /\ step = "removeFin" => n = Mate(l) /\ (policy = "delete" => ~Present(n))
    BY <1>1, <1>4 DEF LookupRemote
  <2>2. /\ rg' \in [Slots -> RG] /\ fresh' \in [Slots -> BOOLEAN]
        /\ \A k \in Slots : rg'[k] = rg[k] /\ (fresh'[k] => fresh[k])
    BY <2>1, NoWriteFacts DEF IInv
  <2>3. /\ ctl' \in [Slots -> CtlType]
        /\ ctl'[l].pc = step /\ \A k \in Slots : k # l => ctl'[k] = ctl[k]
    BY <2>1, CtlFacts DEF IInv, Steps
  <2>4. TypeOK'
    BY <2>2, <2>3 DEF IInv, TypeOK, LookupRemote, history, CtlType
  <2>5. \A k \in Slots : Same(k) /\ (k # l => CtlQuiet(k))
    BY <2>2, <2>3 DEF Same, CtlQuiet
  <2>6. \A k \in Slots : NamedAs(k, ctl'[k])
    BY <1>2, <2>1, <2>3, ZenonT(60) DEF IInv, SlotInv, NamedAs
  <2>7. Justified(l)'
    <3>1. /\ Mate(l)' = Mate(l) /\ (Present(l)' <=> Present(l))
          /\ \A k \in Slots : HeldIn(k)' => Present(k)
      BY <1>2, <2>2 DEF Mate, Twin, HeldIn, Present, Slots
    <3>2. rg[l].del => asked[Site(l)] \/ rg[l].dreq
      BY ZenonT(60) DEF IInv, ReconcileInv, Justified
    <3> QED
      BY <1>2, <2>1, <2>2, <2>3, <3>1, <3>2, ZenonT(60) DEF Justified
  <2> QED
    BY <1>2, <2>4, <2>5, <2>6, <2>7, ReadStep
<1> QED
  BY <1>3, <1>4

\* What a reconcile does at the peer: it creates the peer where the group's RG belongs and
\* keeps that name, finds it there, or ends.
LEMMA SyncForms ==
  ASSUME IInv, NameInv, NEW l \in Slots, SyncRemote(l)
  PROVE  \/ /\ ctl' = [ctl EXCEPT ![l] = [Idle EXCEPT !.pc = "annotate", !.name = Mate(l)]]
            /\ rg[Mate(l)].st = "absent" /\ Create(l, Mate(l))
         \/ NoWrite /\ (Ctl(l, "idle") \/ (Ctl(l, "annotate") /\ ctl[l].name = Mate(l)))
<1>1. PICK n \in Slots \cup {"none"} : n = ctl[l].name
  BY DEF IInv, TypeOK
<1>2. ctl[l].pc = "sync" /\ (n = Mate(l) \/ (l = "src" /\ n = "same"))
  BY <1>1, ZenonT(60) DEF IInv, SlotInv, NamedAs, SyncRemote
<1>3. n \in Slots /\ (rg[n].st # "owner" => n = Mate(l)) /\ (rg[n].st = "owner" => Mate(l) = "alt")
  <2>1. n = "same" /\ l = "src" /\ renamed => rg["same"].st = "owner"
    BY <1>1, <1>2 DEF NameInv, RecordedInv, Unrecorded
  <2> QED
    BY <1>2, <2>1 DEF IInv, SlotInv, Mate, Twin, Slots
<1>4. CASE rg[n].st = "owner"
  BY <1>1, <1>3, <1>4 DEF SyncRemote
<1>5. CASE rg[n].st # "owner"
  BY <1>1, <1>3, <1>5, ZenonT(60) DEF SyncRemote, Ctl
<1> QED
  BY <1>4, <1>5

\* Either does no harm to the pair.
LEMMA SyncStep == ASSUME IInv, NameInv, NEW l \in Slots, SyncRemote(l) PROVE Good
<1>2. /\ l \in {"src", Twin} /\ Mate(l) \in Slots /\ ctl[l].pc = "sync"
      /\ asked' = asked /\ policy' = policy /\ upset' = upset
      /\ renamed' = (renamed \/ rg'["alt"].st = "present")
  BY InPair, ZenonT(60) DEF SyncRemote, Created
<1>4. CASE /\ ctl' = [ctl EXCEPT ![l] = [Idle EXCEPT !.pc = "annotate", !.name = Mate(l)]]
           /\ rg[Mate(l)].st = "absent" /\ Create(l, Mate(l))
  <2> DEFINE c == [NoRG EXCEPT !.st = "present", !.remote = l]
  <2>1. PICK m \in Slots : m = Mate(l) /\ m \in {"src", Twin} /\ Mate(m) = l /\ m # l
    BY <1>2, MateFacts, ZenonT(60)
  <2>2. c \in RG
    BY ZenonT(60) DEF NoRG, RG
  <2>3. Put(m, c)
    BY <1>4, <2>1 DEF Create
  <2>4. /\ rg' \in [Slots -> RG] /\ fresh' \in [Slots -> BOOLEAN]
        /\ rg'[m] = c /\ ~fresh'[m]
        /\ \A k \in Slots : k # m => rg'[k] = rg[k]
        /\ \A k \in Slots : fresh'[k] => fresh[k]
    BY <2>1, <2>2, <2>3, PutFacts DEF IInv
  <2>5. /\ ctl' \in [Slots -> CtlType]
        /\ ctl'[l].pc = "annotate" /\ ctl'[l].name = m
        /\ \A k \in Slots : k # l => ctl'[k] = ctl[k]
    BY <1>4, <2>1, ZenonT(60) DEF IInv, TypeOK, Idle, Steps, CtlType
  <2>6. TypeOK'
    BY <1>2, <2>4, <2>5 DEF IInv, TypeOK, CtlType
  <2>7. \A k \in Slots : k # m => Same(k) /\ CtlQuiet(k)
    BY <2>4, <2>5 DEF Same, CtlQuiet
  <2>8. \A k \in Slots : NamedAs(k, ctl'[k])
    BY <1>2, <2>1, <2>5, ZenonT(60) DEF IInv, SlotInv, NamedAs
  <2>9. /\ rg'[m].st = "present" /\ rg'[m].remote = l /\ ~rg'[m].del /\ ~rg'[m].dreq
        /\ ~rg'[m].fin
    BY <2>4 DEF NoRG
  <2>10. ~Present(m) /\ ~HeldIn(m) /\ HeldIn(m)'
    BY <1>4, <2>1, <2>9 DEF Present, HeldIn
  <2>11. ctl'[m].pc \in {"lookup", "delete"} => asked'[Site(m)]
    BY <1>2, <2>1, <2>5, <2>10, ZenonT(60) DEF IInv, ReconcileInv, Justified
  <2> HIDE DEF c
  <2>12. IInv' /\ SlotInv /\ SlotInv' /\ Twin' = Twin
    <3>1. renamed' = renamed \/ (rg["same"].st = "owner" /\ renamed')
      BY <1>2, <2>1, <2>4 DEF IInv, TypeOK, NameInv, UnusedInv, Mate, Twin, Slots
    <3> QED
      BY <1>2, <2>1, <2>4, <2>5, <2>6, <2>7, <2>8, <2>9, <2>11, <3>1, WriteStep, ZenonT(60)
  <2>13. Makes(m)
    BY <1>2, <2>9, <2>10, ZenonT(60) DEF Makes, ObjIn, TiedIn, ToldIn
  <2>14. Same(Mate(m))
    BY <2>1, <2>7
  <2> QED
    BY <1>2, <2>1, <2>12, <2>13, <2>14, PairAt, ZenonT(60) DEF Good
<1>5. CASE /\ NoWrite
           /\ Ctl(l, "idle") \/ (Ctl(l, "annotate") /\ ctl[l].name = Mate(l))
  <2>1. /\ rg' \in [Slots -> RG] /\ fresh' \in [Slots -> BOOLEAN]
        /\ \A k \in Slots : rg'[k] = rg[k] /\ (fresh'[k] => fresh[k])
    BY <1>5, NoWriteFacts DEF IInv
  <2>2. /\ ctl' \in [Slots -> CtlType]
        /\ ctl'[l].pc = "idle" \/ (ctl'[l].pc = "annotate" /\ ctl'[l].name = Mate(l))
        /\ \A k \in Slots : k # l => ctl'[k] = ctl[k]
    BY <1>5, CtlFacts, ZenonT(60) DEF IInv, Steps
  <2>3. TypeOK'
    BY <1>2, <2>1, <2>2, ZenonT(60) DEF IInv, TypeOK, CtlType
  <2>4. \A k \in Slots : Same(k) /\ CtlQuiet(k)
    BY <2>1, <2>2, ZenonT(60) DEF Same, CtlQuiet
  <2>5. \A k \in Slots : NamedAs(k, ctl'[k])
    BY <1>2, <2>2, ZenonT(60) DEF IInv, SlotInv, NamedAs
  <2>6. renamed' = renamed
    BY <1>2, <2>1 DEF IInv, TypeOK, NameInv, UnusedInv, Slots
  <2> QED
    BY <1>2, <2>3, <2>4, <2>5, <2>6, QuietStep
<1> QED
  BY <1>4, <1>5, SyncForms

-----------------------------------------------------------------------------
(* The RG that had the name, and what the source knows of the other name.    *)

\* When the RG of somebody else goes, the pair keeps its place, or has not used it yet.
LEMMA ForeignLeavesStep == ASSUME IInv, NameInv, ForeignLeaves PROVE Good
<1>1. /\ rg' \in [Slots -> RG] /\ fresh' \in [Slots -> BOOLEAN]
      /\ rg'["same"] = NoRG /\ ~fresh'["same"]
      /\ rg'["src"] = rg["src"] /\ rg'["alt"] = rg["alt"]
      /\ \A k \in Slots : fresh'[k] => fresh[k]
  <2>1. NoRG \in RG /\ "same" \in Slots
    BY ZenonT(60) DEF NoRG, RG, Slots
  <2> QED
    BY <2>1, PutFacts DEF IInv, ForeignLeaves, Slots
<1>2. /\ ctl' = ctl /\ asked' = asked /\ policy' = policy /\ renamed' = renamed
      /\ upset' = upset /\ rg["same"].st \in {"owner", "group"}
  BY DEF ForeignLeaves, history
<1>3. rg'["same"].st = "absent" /\ ~rg'["same"].del
  BY <1>1 DEF NoRG
<1>4. TypeOK'
  BY <1>1, <1>2 DEF IInv, TypeOK
<1>5. /\ ~Present("same") /\ ~Present("same")' /\ ~HeldIn("same")'
      /\ \A k \in {"src", "alt"} : (Present(k)' <=> Present(k)) /\ (HeldIn(k)' <=> HeldIn(k))
  BY <1>1, <1>2, <1>3 DEF Present, HeldIn
<1>6. SlotInv' /\ ReconcileInv'
  <2>1. CASE renamed \/ rg["same"].st = "group"
    <3>1. Twin' = Twin /\ \A k \in Slots : Mate(k)' = Mate(k) /\ Mate(k) \in Slots
      BY <1>2, <1>3, <2>1 DEF Twin, Mate, Slots
    <3>2. SlotInv'
      BY <1>1, <1>2, <1>5, <3>1 DEF IInv, SlotInv, Placed, NamedAs, Slots
    <3>3. \A l \in {"src", "alt"} : Justified(l)'
      BY <1>1, <1>2, <1>5, <3>1, ZenonT(60) DEF IInv, ReconcileInv, Justified, Slots
    <3>4. Justified("same")'
      BY <1>1, <1>2, <1>3, <1>5, ZenonT(60) DEF IInv, ReconcileInv, Justified, Slots
    <3> QED
      BY <3>2, <3>3, <3>4 DEF ReconcileInv, Slots
  <2>2. CASE ~renamed /\ rg["same"].st = "owner"
    <3>1. Twin = "alt" /\ Twin' = "same"
      BY <1>2, <1>3, <2>2 DEF Twin
    <3>2. /\ rg["alt"].st # "present" /\ ctl["alt"].pc = "idle" /\ ctl["same"].pc = "idle"
          /\ rg["src"].remote # "alt" /\ NameOf(ctl["src"]) # "alt"
      BY <2>2, <3>1 DEF IInv, SlotInv, NamedAs, NameInv, UnusedInv, Slots
    <3>3. SlotInv'
      <4>1. Placed("src")' /\ Placed("same")' /\ Placed("alt")'
        BY <1>1, <1>5, <3>1, <3>2 DEF IInv, SlotInv, Placed, Mate, Present, Slots
      <4>2. NamedAs("src", ctl["src"])'
        BY <1>2, <3>1, <3>2, ZenonT(60) DEF IInv, SlotInv, NamedAs, NameOf, Mate, Slots
      <4>3. NamedAs("same", ctl["same"])' /\ NamedAs("alt", ctl["alt"])'
        BY <1>2, <3>2 DEF NamedAs
      <4> QED
        BY <1>1, <4>1, <4>2, <4>3 DEF IInv, SlotInv, Slots
    <3>4. Justified("src")'
      BY <1>1, <1>2, <1>5, <3>1, ZenonT(60) DEF IInv, ReconcileInv, Justified, Mate, Slots
    <3>5. Justified("alt")' /\ Justified("same")'
      BY <1>1, <1>2, <1>3, <3>2, ZenonT(60) DEF IInv, ReconcileInv, Justified, Slots
    <3> QED
      BY <3>3, <3>4, <3>5 DEF ReconcileInv, Slots
  <2> QED
    BY <1>2, <2>1, <2>2
<1>7. PairStep
  <2>1. Target = "alt" /\ Target' = "alt"
    BY <1>5 DEF Target
  <2>2. \A t \in Sites : Here(t)' = Here(t)
    BY <1>1, <2>1 DEF Here
  <2>3. \A t \in Sites : Held(t)' = Held(t)
    BY <2>2 DEF Held
  <2> QED
    BY <1>2, <2>2, <2>3, ZenonT(60) DEF PairStep, Pair!vars
<1> QED
  BY <1>4, <1>6, <1>7 DEF Good, IInv

\* What the source knows of the other name stays so while it only reads, forgets or
\* records the name it has.
LEMMA NamesKept ==
  ASSUME IInv, NameInv, renamed' = renamed,
         rg["same"].st = "owner" => rg'["same"].st = "owner",
         rg'["alt"].st = "present" => rg["alt"].st = "present",
         ctl["alt"].pc = "idle" => ctl'["alt"].pc = "idle",
         Present("src")' => Present("src"),
         rg'["src"].remote \in {"none", rg["src"].remote}
           \/ (ctl["src"].pc = "annotate" /\ rg'["src"].remote = ctl["src"].name),
         Present("src")' /\ rg'["src"].remote = "none" => rg["src"].remote = "none",
         NameOf(ctl'["src"]) \in {"none", "same", NameOf(ctl["src"]), rg["src"].remote},
         ctl'["src"].pc = "sync" /\ ctl'["src"].name = "same" =>
           \/ ctl["src"].pc = "sync" /\ ctl["src"].name = "same"
           \/ Present("src") /\ rg["src"].remote # "alt"
  PROVE  NameInv'
<1>1. UnusedInv'
  BY DEF NameInv, UnusedInv, NameOf
<1>2. RecordedInv'
  <2> SUFFICES ASSUME renamed, rg["same"].st # "owner", Unrecorded' PROVE FALSE
    BY DEF RecordedInv
  <2>1. ~Unrecorded
    BY DEF NameInv, RecordedInv
  <2>2. ctl["src"].pc = "annotate" => ctl["src"].name = "alt"
    BY ZenonT(60) DEF IInv, SlotInv, NamedAs, Mate, Twin, Slots
  <2> QED
    BY <2>1, <2>2 DEF Unrecorded
<1> QED
  BY <1>1, <1>2, ZenonT(60) DEF NameInv

\* Most steps change neither what is where nor the names of the peers.
PlacesKept ==
  /\ renamed' = renamed
  /\ \A k \in Slots :
       /\ rg'[k].st = rg[k].st /\ rg'[k].remote = rg[k].remote
       /\ \/ ctl'[k] = ctl[k] \/ ctl'[k].pc = "idle"
          \/ ctl'[k].pc = "removeFin" /\ ctl[k].pc # "idle"

\* Such a step keeps what the source knows.
LEMMA PlacesKeptStep == ASSUME IInv, NameInv, PlacesKept PROVE NameInv'
<1>1. "src" \in Slots /\ "same" \in Slots /\ "alt" \in Slots
  BY DEF Slots
<1> QED
  BY <1>1, NamesKept, ZenonT(60) DEF PlacesKept, NameOf, Present

\* The steps that write no name.
LEMMA NamelessSteps ==
  ASSUME IInv, NEW l \in Slots,
         \/ RemoveFinalizer(l) \/ AddFinalizer(l) \/ DeleteOnRequest(l) \/ LookupRemote(l)
         \/ ReconcileFails(l) \/ Sidecar(l) \/ SidecarWrites(l) \/ UserDelete(l)
  PROVE  PlacesKept
<1>0. TypeOK /\ \A k \in Slots : rg[k] \in RG
  BY DEF IInv, TypeOK
<1> DEFINE Still(f, k) == f[k].st = rg[k].st /\ f[k].remote = rg[k].remote
<1>1. ASSUME NEW k \in Slots, NEW b \in BOOLEAN
      PROVE  /\ \A j \in Slots : Still([rg EXCEPT ![k] = [rg[k] EXCEPT !.fin = b]], j)
             /\ \A j \in Slots : Still([rg EXCEPT ![k] = [rg[k] EXCEPT !.sidefin = b]], j)
             /\ \A j \in Slots : Still([rg EXCEPT ![k] = [rg[k] EXCEPT !.del = b]], j)
             /\ \A j \in Slots : Still([rg EXCEPT ![k] = [rg[k] EXCEPT !.dreq = b]], j)
             /\ \A j \in Slots : Still([rg EXCEPT ![k] = rg[k]], j)
             /\ \A j \in Slots : Still(rg, j)
  BY <1>0 DEF RG, TypeOK
<1>2. \A k \in Slots : Still(rg', k)
  <2> HIDE DEF Still
  <2>1. CASE RemoveFinalizer(l) \/ AddFinalizer(l) \/ ReconcileFails(l)
    BY <1>1, <2>1, ZenonT(60) DEF RemoveFinalizer, AddFinalizer, ReconcileFails, Update, Put, NoWrite
  <2>2. CASE DeleteOnRequest(l) \/ UserDelete(l)
    BY <1>1, <2>2, ZenonT(60) DEF DeleteOnRequest, UserDelete, Put, NoWrite
  <2>3. CASE Sidecar(l) \/ SidecarWrites(l)
    BY <1>1, <2>3, ZenonT(60) DEF Sidecar, SidecarProtects, SidecarReleases, SidecarWrites, Put
  <2>4. CASE LookupRemote(l)
    <3>1. ctl[l].name \in Slots \cup {"none"}
      BY <1>0 DEF TypeOK
    <3> QED
      BY <1>1, <2>4, <3>1, ZenonT(60) DEF LookupRemote, Put, NoWrite, Present
  <2> QED
    BY <2>1, <2>2, <2>3, <2>4
<1>3. CASE Sidecar(l) \/ SidecarWrites(l) \/ UserDelete(l)
  <2>1. ctl' = ctl /\ renamed' = renamed
    BY <1>3 DEF Sidecar, SidecarProtects, SidecarReleases, SidecarWrites, UserDelete, history
  <2> QED
    BY <1>2, <2>1 DEF PlacesKept
<1>4. CASE RemoveFinalizer(l) \/ AddFinalizer(l) \/ ReconcileFails(l) \/ DeleteOnRequest(l)
  <2>1. Ctl(l, "idle") /\ renamed' = renamed
    BY <1>4 DEF RemoveFinalizer, AddFinalizer, ReconcileFails, DeleteOnRequest, history
  <2>2. ctl'[l].pc = "idle" /\ \A k \in Slots : k # l => ctl'[k] = ctl[k]
    BY <1>0, <2>1, CtlFacts, ZenonT(60) DEF Steps
  <2> QED
    BY <1>2, <2>1, <2>2 DEF PlacesKept
<1>5. CASE LookupRemote(l)
  <2>1. PICK step \in {"idle", "removeFin"} : Ctl(l, step)
    BY <1>5 DEF LookupRemote
  <2>2. ctl'[l].pc = step /\ \A k \in Slots : k # l => ctl'[k] = ctl[k]
    BY <1>0, <2>1, CtlFacts, ZenonT(60) DEF Steps
  <2>3. renamed' = renamed /\ ctl[l].pc # "idle"
    BY <1>5 DEF LookupRemote, history
  <2> QED
    BY <1>2, <2>2, <2>3 DEF PlacesKept
<1> QED
  BY <1>3, <1>4, <1>5

\* A reconcile of the source starts with the name that its copy holds.
LEMMA ReconcileNames == ASSUME IInv, NameInv, NEW l \in Slots, Reconcile(l) PROVE NameInv'
<1>1. /\ rg' = rg /\ renamed' = renamed /\ Present(l)
      /\ ctl' = [ctl EXCEPT ![l] = Start(rg[l])]
  BY DEF Reconcile, history
<1>2. /\ ctl'[l] = Start(rg[l]) /\ \A k \in Slots : k # l => ctl'[k] = ctl[k]
  BY <1>1 DEF IInv, TypeOK
<1>3. /\ NameOf(Start(rg[l])) \in {"none", "same", rg[l].remote}
      /\ Start(rg[l]).pc = "sync" /\ Start(rg[l]).name = "same" => rg[l].remote \in {"none", "same"}
  BY DEF Start, NameOf, Branch
<1>4. "src" \in Slots /\ "alt" \in Slots
  BY DEF Slots
<1>5. (Present("src")' <=> Present("src")) /\ (Present("alt")' <=> Present("alt"))
  BY <1>1 DEF Present
<1>6. CASE l = "src"
  BY <1>1, <1>2, <1>3, <1>4, <1>5, <1>6, NamesKept, ZenonT(60)
<1>7. CASE l # "src"
  <2>1. ctl'["src"] = ctl["src"]
    BY <1>2, <1>4, <1>7
  <2>2. l = "alt" => renamed
    BY <1>1 DEF NameInv, UnusedInv, Present
  <2>3. UnusedInv' /\ RecordedInv'
    BY <1>1, <1>2, <1>4, <1>5, <2>1, <2>2, ZenonT(60)
    DEF NameInv, UnusedInv, RecordedInv, Unrecorded, NameOf
  <2> QED
    BY <2>3 DEF NameInv
<1> QED
  BY <1>6, <1>7

\* The source records the name that it synchronised with.
LEMMA AnnotateNames == ASSUME IInv, NameInv, NEW l \in Slots, AnnotateSync(l) PROVE NameInv'
<1> DEFINE c == [rg[l] EXCEPT !.remote = ctl[l].name, !.synced = TRUE]
<1>0. rg[l] \in RG /\ "src" \in Slots /\ "same" \in Slots /\ "alt" \in Slots
  BY DEF IInv, TypeOK, Slots
<1>1. c.st = rg[l].st /\ c.remote = ctl[l].name
  BY <1>0 DEF RG
<1>2. rg' = [rg EXCEPT ![l] = c] \/ rg' = rg
  BY DEF AnnotateSync, Update, Put, NoWrite
<1>3. /\ \A k \in Slots : k # l => rg'[k] = rg[k]
      /\ rg'[l].st = rg[l].st /\ rg'[l].remote \in {rg[l].remote, ctl[l].name}
  <2> HIDE DEF c
  <2> QED
    BY <1>1, <1>2, ZenonT(60) DEF IInv, TypeOK
<1>4. ctl'[l].pc = "idle" /\ \A k \in Slots : k # l => ctl'[k] = ctl[k]
  BY CtlFacts DEF IInv, AnnotateSync, Steps
<1>5. renamed' = renamed /\ ctl[l].pc = "annotate"
  BY DEF AnnotateSync, history
<1>6. l = "src" => (rg'["src"].remote = "none" => rg["src"].remote = "none")
  BY <1>3, <1>5, InPair, ZenonT(60) DEF IInv, SlotInv, NamedAs, Slots
<1>7. /\ rg'["same"].st = rg["same"].st /\ rg'["alt"].st = rg["alt"].st
      /\ rg'["src"].st = rg["src"].st
  BY <1>0, <1>3
<1>8. NameOf(ctl'["src"]) \in {"none", NameOf(ctl["src"])}
  BY <1>0, <1>4 DEF NameOf
<1> HIDE DEF c
<1> QED
  BY <1>0, <1>3, <1>4, <1>5, <1>6, <1>7, <1>8, NamesKept, ZenonT(60) DEF Present

\* An RG that is gone names nobody.
LEMMA FinalizeNames == ASSUME IInv, NameInv, NEW l \in Slots, Finalize(l) PROVE NameInv'
<1>0. "src" \in Slots /\ "same" \in Slots /\ "alt" \in Slots
  BY DEF Slots
<1>1. /\ rg'[l] = NoRG /\ \A k \in Slots : k # l => rg'[k] = rg[k]
      /\ rg[l].st = "present"
  BY DEF IInv, TypeOK, Finalize, Put, Present
<1>2. ctl' = ctl /\ renamed' = renamed
  BY DEF Finalize, history
<1>3. NoRG.st = "absent" /\ NoRG.remote = "none"
  BY DEF NoRG
<1>4. /\ rg["same"].st = "owner" => rg'["same"].st = "owner"
      /\ rg'["alt"].st = "present" => rg["alt"].st = "present"
      /\ Present("src")' => Present("src") /\ rg'["src"] = rg["src"]
      /\ rg'["src"].remote \in {"none", rg["src"].remote}
  BY <1>0, <1>1, <1>3 DEF Present
<1> QED
  BY <1>2, <1>4, NamesKept, ZenonT(60)

\* The RG of somebody else goes before the other name is used or after the source knows it.
LEMMA ForeignLeavesNames == ASSUME IInv, NameInv, ~LeavesAnytime, ForeignLeaves PROVE NameInv'
<1>1. /\ rg'["src"] = rg["src"] /\ rg'["alt"] = rg["alt"] /\ ctl' = ctl /\ renamed' = renamed
      /\ ~Unrecorded
  BY DEF IInv, TypeOK, ForeignLeaves, Put, history, Slots
<1>2. UnusedInv' /\ ~Unrecorded'
  BY <1>1, ZenonT(60) DEF NameInv, UnusedInv, Unrecorded, NameOf, Present
<1> QED
  BY <1>2 DEF NameInv, RecordedInv

\* The source takes the other name only when it creates an RG under it, and a peer that
\* it is created by names itself.
LEMMA SyncNames == ASSUME IInv, NameInv, NEW l \in Slots, SyncRemote(l) PROVE NameInv'
<1>0. "src" \in Slots /\ "same" \in Slots /\ "alt" \in Slots
  BY DEF Slots
<1>1. /\ l \in {"src", Twin} /\ Mate(l) \in Slots /\ ctl[l].pc = "sync"
      /\ renamed' = (renamed \/ rg'["alt"].st = "present")
  BY InPair, ZenonT(60) DEF SyncRemote, Created
<1>2. CASE /\ ctl' = [ctl EXCEPT ![l] = [Idle EXCEPT !.pc = "annotate", !.name = Mate(l)]]
           /\ Create(l, Mate(l))
  <2>1. PICK m \in Slots : m = Mate(l) /\ m # l
    BY <1>1, MateFacts
  <2>2. /\ rg'[m].st = "present" /\ rg'[m].remote = l
        /\ \A k \in Slots : k # m => rg'[k] = rg[k]
    BY <1>2, <2>1 DEF IInv, TypeOK, Create, Put, NoRG
  <2>3. /\ ctl'[l].pc = "annotate" /\ ctl'[l].name = m
        /\ \A k \in Slots : k # l => ctl'[k] = ctl[k]
    BY <1>2, <2>1 DEF IInv, TypeOK, Idle
  <2>4. CASE l = "src" /\ m = "alt"
    BY <1>0, <1>1, <2>1, <2>2, <2>3, <2>4
    DEF NameInv, UnusedInv, RecordedInv, Unrecorded, Mate, Twin, Present
  <2>5. CASE l = "src" /\ m = "same"
    <3>1. ~renamed
      BY <2>1, <2>5 DEF Mate, Twin
    <3>2. /\ rg'["src"] = rg["src"] /\ rg'["alt"] = rg["alt"] /\ ctl'["alt"] = ctl["alt"]
          /\ NameOf(ctl'["src"]) = "same" /\ renamed' = FALSE
      BY <1>0, <1>1, <2>2, <2>3, <2>5, <3>1, ZenonT(60) DEF NameOf, NameInv, UnusedInv, IInv, TypeOK
    <3> QED
      BY <3>1, <3>2 DEF NameInv, UnusedInv, RecordedInv
  <2>6. CASE l # "src"
    <3>1. m = "src" /\ l = Twin /\ l \in {"same", "alt"}
      BY <1>1, <2>1, <2>6 DEF Mate, Slots
    <3>2. l = "alt" <=> renamed
      BY <1>1, <3>1 DEF NameInv, UnusedInv, Twin, IInv, TypeOK
    <3>3. /\ rg'["same"] = rg["same"] /\ rg'["alt"] = rg["alt"] /\ ctl'["src"] = ctl["src"]
          /\ rg'["src"].remote = l /\ renamed' = renamed
      BY <1>0, <1>1, <2>2, <2>3, <3>1 DEF NameInv, UnusedInv, IInv, TypeOK
    <3>4. UnusedInv'
      BY <1>0, <2>3, <3>1, <3>2, <3>3, ZenonT(60) DEF NameInv, UnusedInv
    <3>5. RecordedInv'
      BY <3>2, <3>3, ZenonT(60) DEF NameInv, RecordedInv, Unrecorded
    <3> QED
      BY <3>4, <3>5 DEF NameInv
  <2> QED
    BY <2>1, <2>4, <2>5, <2>6 DEF Slots
<1>3. CASE NoWrite /\ (Ctl(l, "idle") \/ (Ctl(l, "annotate") /\ ctl[l].name = Mate(l)))
  <2>1. rg' = rg /\ renamed' = renamed
    BY <1>1, <1>3 DEF NoWrite, NameInv, UnusedInv, IInv, TypeOK
  <2>2. /\ ctl'[l].pc = "idle" \/ (ctl'[l].pc = "annotate" /\ ctl'[l].name = ctl[l].name)
        /\ \A k \in Slots : k # l => ctl'[k] = ctl[k]
    BY <1>3, CtlFacts, ZenonT(60) DEF IInv, Steps
  <2>3. NameOf(ctl'["src"]) \in {"none", NameOf(ctl["src"])}
    BY <1>0, <1>1, <2>2 DEF NameOf
  <2>4. /\ ctl["alt"].pc = "idle" => ctl'["alt"].pc = "idle"
        /\ ctl'["src"].pc = "sync" => ctl'["src"] = ctl["src"]
    BY <1>0, <1>1, <2>2
  <2> QED
    BY <2>1, <2>3, <2>4, NamesKept DEF Present
<1> QED
  BY <1>2, <1>3, SyncForms

-----------------------------------------------------------------------------
(* The theorems.                                                             *)

\* The source's RG is there, and perhaps one of somebody else on the target.
LEMMA InitGood == ASSUME Init PROVE IInv /\ NameInv /\ Pair!Init
<1> USE RGSyncAssumption
<1>1. PICK t \in {"absent"} \cup Foreign :
        rg = [src |-> [NoRG EXCEPT !.st = "present", !.sidefin = TRUE],
              same |-> [NoRG EXCEPT !.st = t], alt |-> NoRG]
  BY DEF Init
<1>2. t \in {"absent", "owner", "group"}
  OBVIOUS
<1>3. /\ rg["src"] = [NoRG EXCEPT !.st = "present", !.sidefin = TRUE]
      /\ rg["same"] = [NoRG EXCEPT !.st = t] /\ rg["alt"] = NoRG
  BY <1>1
<1>4. /\ rg["src"].st = "present" /\ rg["same"].st = t /\ rg["alt"].st = "absent"
      /\ rg["src"].remote = "none"
      /\ \A l \in Slots : ~rg[l].del /\ ~rg[l].fin /\ ~rg[l].dreq
  <2>1. rg["src"].st = "present" /\ rg["same"].st = t /\ rg["alt"].st = "absent"
    BY <1>3 DEF NoRG
  <2>2. rg["src"].remote = "none"
    BY <1>3 DEF NoRG
  <2>3. ~rg["src"].del /\ ~rg["src"].fin /\ ~rg["src"].dreq
    BY <1>3 DEF NoRG
  <2>4. ~rg["same"].del /\ ~rg["same"].fin /\ ~rg["same"].dreq
    BY <1>3 DEF NoRG
  <2>5. ~rg["alt"].del /\ ~rg["alt"].fin /\ ~rg["alt"].dreq
    BY <1>3 DEF NoRG
  <2> QED
    BY <2>1, <2>2, <2>3, <2>4, <2>5, ZenonT(60) DEF Slots
<1>5. rg \in [Slots -> RG]
  <2>1. /\ [NoRG EXCEPT !.st = "present", !.sidefin = TRUE] \in RG
        /\ [NoRG EXCEPT !.st = t] \in RG /\ NoRG \in RG
    BY <1>2, ZenonT(60) DEF NoRG, RG
  <2> QED
    BY <1>1, <2>1 DEF Slots
<1>6. TypeOK
  BY <1>5, ZenonT(60) DEF Init, TypeOK, Idle, Steps
<1>7. \A l \in Slots : ctl[l].pc = "idle"
  BY DEF Init, Idle
<1>8. SlotInv
  BY <1>2, <1>4, <1>7, ZenonT(60) DEF SlotInv, Placed, NamedAs, Mate, Present, Slots
<1>9. ReconcileInv
  BY <1>4, <1>7, ZenonT(60) DEF ReconcileInv, Justified
<1>10. /\ Target = "alt" /\ Held("src") /\ ~Held("tgt") /\ ~Here("src").del
       /\ ~Here("src").fin /\ ~Here("src").dreq
  BY <1>2, <1>4, ZenonT(60) DEF Target, Held, Here, Present, Slots
<1>11. Pair!Init
  <2>1. [s \in Sites |-> IF ~Held(s) THEN "absent" ELSE IF Here(s).del THEN "leaving" ELSE "live"]
          = [src |-> "live", tgt |-> "absent"]
    BY <1>10, SMTT(60) DEF Sites
  <2>2. /\ [s \in Sites |-> Held(s) /\ Here(s).fin /\ Here(s).remote # "none"] = [s \in Sites |-> FALSE]
        /\ [s \in Sites |-> Held(s) /\ Here(s).dreq] = [s \in Sites |-> FALSE]
    BY <1>10, ZenonT(60) DEF Sites
  <2>3. policy \in {"retain", "delete"} /\ asked = [s \in Sites |-> FALSE]
    BY DEF Init
  <2> QED
    BY <2>1, <2>2, <2>3, ZenonT(60) DEF Pair!Init, Pair!Sites, Sites
<1>12. NameInv
  BY <1>4, <1>7 DEF Init, NameInv, UnusedInv, RecordedInv, NameOf, Slots
<1> QED
  BY <1>6, <1>8, <1>9, <1>11, <1>12 DEF IInv

\* Every step keeps the invariant and is a step of the pair, or none.
LEMMA NextGood == ASSUME IInv, NameInv, [Next]_vars PROVE Good
<1>1. ASSUME NEW l \in Slots, Controller(l) PROVE Good
  BY <1>1, ReconcileStep, LookupStep, RemoveFinalizerStep, AddFinalizerStep,
     DeleteOnRequestStep, SyncStep, AnnotateStep DEF Controller
<1>2. ASSUME NEW l \in Slots, Sidecar(l) \/ SidecarWrites(l) PROVE Good
  BY <1>2, SidecarStep
<1>3. CASE UNCHANGED vars
  <2>1. /\ rg' = rg /\ fresh' = fresh /\ ctl' = ctl /\ policy' = policy /\ asked' = asked
        /\ upset' = upset /\ renamed' = renamed
    BY <1>3 DEF vars, history
  <2>2. TypeOK'
    BY <2>1 DEF IInv, TypeOK
  <2>3. \A k \in Slots : Same(k) /\ CtlQuiet(k) /\ NamedAs(k, ctl'[k])
    BY <2>1, CtlEnds, ZenonT(60) DEF Same
  <2> QED
    BY <2>1, <2>2, <2>3, QuietStep
<1> QED
  BY <1>1, <1>2, <1>3, ReconcileFailsStep, UserDeleteStep, FinalizeStep, ForeignLeavesStep
  DEF Next

\* Every step keeps what the source knows of the other name.
LEMMA NextNames == ASSUME IInv, NameInv, ~LeavesAnytime, [Next]_vars PROVE NameInv'
<1>1. ASSUME NEW l \in Slots, Controller(l) PROVE NameInv'
  BY <1>1, ReconcileNames, NamelessSteps, PlacesKeptStep, SyncNames, AnnotateNames DEF Controller
<1>2. ASSUME NEW l \in Slots,
             ReconcileFails(l) \/ Sidecar(l) \/ SidecarWrites(l) \/ UserDelete(l)
      PROVE  NameInv'
  BY <1>2, NamelessSteps, PlacesKeptStep
<1>3. CASE UNCHANGED vars
  BY <1>3, PlacesKeptStep DEF vars, history, PlacesKept
<1> QED
  BY <1>1, <1>2, <1>3, FinalizeNames, ForeignLeavesNames DEF Next

\* IInv is an invariant: the RG of a group has one place on the target, every reconcile uses
\* that place's name, and every call of a deletion is justified by what the copy showed.
\* The place stays the same when the RG that had the name goes, unless it goes between the
\* creation of the renamed RG and its record in the source.
THEOREM Inductive ==
  ASSUME ~LeavesAnytime
  PROVE  Spec => [](IInv /\ NameInv)
<1>1. Init => IInv /\ NameInv
  BY InitGood
<1>2. (IInv /\ NameInv) /\ [Next]_vars => (IInv /\ NameInv)'
  BY NextGood, NextNames DEF Good
<1> QED
  BY <1>1, <1>2, PTL DEF Spec

\* Every variable has its type.
THEOREM TypeCorrect ==
  ASSUME ~LeavesAnytime
  PROVE  Spec => []TypeOK
<1>1. IInv => TypeOK
  BY DEF IInv
<1> QED
  BY <1>1, Inductive, PTL

\* A group never has two RGs on the target cluster, whichever name was free, however often
\* createRemoteRG was interrupted and whether or not the RG that had the name goes, as long
\* as it does not go between the creation of the renamed RG and its record (lines 363-392).
THEOREM OneTarget ==
  ASSUME ~LeavesAnytime
  PROVE  Spec => []TargetUnique
<1>1. IInv => TargetUnique
  BY DEF IInv, SlotInv, Placed, TargetUnique, Twin, Slots
<1> QED
  BY <1>1, Inductive, PTL

\* The controllers of the two clusters implement PairLifecycle for their RGs.
THEOREM Refinement ==
  ASSUME ~LeavesAnytime
  PROVE  Spec => ImplementsPair
<1>1. Init => Pair!Init
  BY InitGood
<1>2. IInv /\ NameInv /\ [Next]_vars => [Pair!Next]_(Pair!vars)
  BY NextGood DEF Good, PairStep
<1> QED
  BY <1>1, <1>2, Inductive, PTL DEF Spec, ImplementsPair, Pair!Spec

=============================================================================
