------------------------ MODULE NetworkLifecycleProofs ------------------------
(* The network reconciler keeps the promises of Lifecycle that hold for    *)
(* copies of the object of any age, for every value of its constants.      *)
EXTENDS NetworkLifecycle, NetworkOwnedProofs

-----------------------------------------------------------------------------
(* Ready and the observed generation                                       *)

(* Ready, in every version that a pass of a live object may start from,    *)
(* means that everything is named.                                         *)
ReadyNames(n) == n.ready => Complete(n)

LifeInv ==
    /\ net.og =< net.gen
    /\ net.phase = "live" /\ ~net.fin => Known(net) = {}
    /\ Early => ReadyNames(net)
    /\ NetView.phase = "live" => ReadyNames(seen.net)
    /\ pc \in LiveCalls => ReadyNames(obj)

(* setCondition writes the Ready of the copy or leaves the object's.       *)
LEMMA ConditionReady ==
    ASSUME TypeOK, setCondition PROVE net'.ready \in {net.ready, obj.ready}
<1>0. net \in Network
  BY DEF TypeOK
<1>1. CASE ConditionWritten
  <2>1. PICK r \in WrittenReady(obj.ready) : net' = [net EXCEPT !.ready = r]
    BY <1>1, Zenon DEF ConditionWritten
  <2>. QED
    BY <1>0, <2>1 DEF WrittenReady, Network
<1>2. CASE ConditionNotWritten
  BY <1>2 DEF ConditionNotWritten
<1>. QED
  BY <1>1, <1>2 DEF setCondition

(* Ready becomes true when a pass ends well or repeats its copy.           *)
LEMMA ReadySteps ==
    ASSUME TypeOK, Next, net'.ready
    PROVE  net.ready \/ Finish \/ (obj.ready /\ (pc \in LiveCalls \/ Wait))
<1>0. net \in Network /\ obj \in Network
  BY DEF TypeOK
<1>1. CASE net' = net
  BY <1>1
<1>2. CASE Fail
  BY <1>0, <1>2, FailNet DEF Network
<1>3. CASE UserDelete \/ GarbageCollect \/ DeleteOrphan
  BY <1>0, <1>3, DeletedFields DEF UserDelete, GarbageCollect, DeleteOrphan, SameStatus
<1>4. CASE Edits
  BY <1>4, EditFields DEF SameStatus
<1>5. CASE AddFinalizer \/ AddOwner \/ Release
  BY <1>0, <1>5 DEF AddFinalizer, AddOwner, Release, Network
<1>6. CASE ClusterNotFound \/ ClusterBound \/ Authorize
  <2>1. setCondition /\ pc \in LiveCalls
    BY <1>6 DEF ClusterNotFound, ClusterBound, Authorize, LiveCalls, PCs, DeletionCalls
  <2>. QED
    BY <2>1, ConditionReady
<1>7. CASE ClusterFound
  <2>1. CASE obj.clusterUID = ClusterView
    BY <1>7, <2>1 DEF ClusterFound
  <2>2. CASE obj.clusterUID # ClusterView
    <3>. DEFINE new == [obj EXCEPT !.clusterUID = ClusterView]
    <3>1. new \in Network
      BY <1>0, ViewType, EditType
    <3>2. net' = MergeStatus(net, obj, new)
      BY <1>7, <2>2 DEF ClusterFound, PatchStatus
    <3>. HIDE DEF new
    <3>. QED
      BY <1>0, <3>1, <3>2, MergeFields
  <2>. QED
    BY <2>1, <2>2
<1>8. CASE OwnershipToken \/ Record \/ Claim \/ ForgetResource
  <2>1. \/ net' = net
        \/ \E new \in {[obj EXCEPT !.token = TRUE], Recorded, Claimed, Forgotten} :
              net' = MergeStatus(net, obj, new)
    BY <1>8 DEF OwnershipToken, Record, PatchThen, PatchStatus, Recorded, Claim,
       Claimed, ForgetResource, Forgotten
  <2>2. CASE \E new \in {[obj EXCEPT !.token = TRUE], Recorded, Claimed, Forgotten} :
              net' = MergeStatus(net, obj, new)
    <3>1. PICK new \in {[obj EXCEPT !.token = TRUE], Recorded, Claimed, Forgotten} :
             net' = MergeStatus(net, obj, new)
      BY <2>2
    <3>2. new \in Network
      BY PatchFacts
    <3>. QED
      BY <1>0, <3>1, <3>2, MergeFields
  <2>. QED
    BY <1>1, <2>1, <2>2
<1>9. CASE Wait
  <2>1. net' = net \/ \E r \in WrittenReady(obj.ready) : net' = [net EXCEPT !.ready = r]
    BY <1>9, Zenon DEF Wait
  <2>. QED
    BY <1>0, <1>9, <2>1 DEF WrittenReady, Network
<1>10. CASE \/ Begin \/ Refuse \/ EnsureKnown \/ EnsureFound \/ EnsureCreated
            \/ EnsureRules \/ EnsureRulesFails \/ Observe \/ Adopt
            \/ Drained \/ Verify \/ DeleteResource \/ CallFails \/ Crash
  <2>1. net' = net \/ Fail
    BY <1>10 DEF Begin, Refuse, EnsureKnown, EnsureFound, EnsureCreated,
       EnsureRules, EnsureRulesFails, Observe, Adopt, Drained, Verify,
       DeleteResource, CallFails, Crash, Ensured
  <2>. QED
    BY <1>1, <1>2, <2>1
<1>11. CASE QuietStep
  BY <1>1, <1>11, QuietSame
<1>. QED
  BY <1>3, <1>4, <1>5, <1>6, <1>7, <1>8, <1>9, <1>10, <1>11, StepGroups DEF Edits

(* A pass that ends well leaves everything named, and observes a           *)
(* generation that the spec has reached.                                   *)
LEMMA FinishFields ==
    ASSUME Sound, Finish
    PROVE  Complete(net') /\ net'.og \in {net.og, obj.gen} /\ obj.gen =< net.gen
<1>0. /\ TypeOK /\ ForeignInv /\ PassInv /\ pc = "finish" /\ Older(obj, net)
      /\ net \in Network /\ obj \in Network
  BY DEF Sound, Finish, TypeOK, CopiesInv
<1>1. PICK r : net' = [MergeStatus(net, obj, Finished) EXCEPT !.ready = r]
  BY Zenon DEF Finish
<1>. DEFINE m == MergeStatus(net, obj, Finished)
<1>2. m \in Network /\ m.og = Pick(net.og, obj.og, obj.gen) /\ Finished \in Network
  BY <1>0, FinishedType, MergeFields
<1>3. \A k \in Kinds :
        m.res[k].id = Pick(net.res[k].id, obj.res[k].id, Finished.res[k].id)
  BY <1>0, <1>2, MergePicks
<1>. HIDE DEF m
<1>4. net'.res = m.res /\ net'.og = m.og
  BY <1>1, <1>2 DEF m, Network
<1>5. ASSUME NEW k \in Kinds PROVE net'.res[k].id # NoId
  <2>1. Finished.res[k].id # NoId
    BY <1>0, FinishedRes
  <2>2. obj.res[k].id # NoId => net.res[k].id # NoId
    BY <1>0 DEF PassInv, KnownInv, Known, LiveCalls, PCs, DeletionCalls
  <2>. QED
    BY <1>3, <1>4, <2>1, <2>2 DEF Pick
<1>. QED
  BY <1>0, <1>2, <1>4, <1>5 DEF Complete, Pick, Older

(* The observed generation changes at the end of a pass only.              *)
LEMMA ObservedSteps ==
    ASSUME TypeOK, Next PROVE net'.og = net.og \/ Finish
<1>0. net \in Network /\ obj \in Network
  BY DEF TypeOK
<1>1. CASE NamesSame
  BY <1>1 DEF NamesSame
<1>2. CASE Record \/ Claim \/ ForgetResource
  <2>1. \/ net' = net
        \/ \E new \in {Recorded, Claimed, Forgotten} : net' = MergeStatus(net, obj, new)
    BY <1>2 DEF Record, PatchThen, PatchStatus, Recorded, Claim, Claimed,
       ForgetResource, Forgotten
  <2>2. CASE \E new \in {Recorded, Claimed, Forgotten} : net' = MergeStatus(net, obj, new)
    <3>1. PICK new \in {Recorded, Claimed, Forgotten} : net' = MergeStatus(net, obj, new)
      BY <2>2
    <3>2. new \in Network /\ new.og = obj.og
      BY PatchFacts
    <3>. QED
      BY <1>0, <3>1, <3>2, MergeFields DEF Pick
  <2>. QED
    BY <2>1, <2>2
<1>. QED
  BY <1>1, <1>2, ObjectSteps

(* The generation does not go back.                                        *)
LEMMA GenerationGrows ==
    ASSUME TypeOK, Next PROVE net.gen =< net'.gen
<1>0. net \in Network /\ net.gen \in Nat
  BY DEF TypeOK, Network
<1>1. Older(net, net')
  BY <1>0, OlderSelf, OlderStep
<1>. QED
  BY <1>1 DEF Older

(* What is complete stays so until the deletion is known.                  *)
LEMMA CompleteGrows ==
    ASSUME Sound, Next, pc \notin DeletionCalls, Complete(net) PROVE Complete(net')
<1>1. ~ForgetResource
  BY DEF ForgetResource, DeletionCalls
<1>2. Known(net) \subseteq Known(net')
  BY <1>1, KnownGrows DEF Sound
<1>. QED
  BY <1>2 DEF Known, Complete

(* Every step keeps what Ready means.                                      *)
LEMMA LifeInvNext == ASSUME Sound, LifeInv, Next PROVE LifeInv'
<1>0. /\ TypeOK /\ TypeOK' /\ CopiesInv /\ PassInv /\ net \in Network /\ net' \in Network
      /\ net.og \in Nat /\ net.gen \in Nat /\ net'.gen \in Nat /\ obj.gen \in Nat
  BY TypeNext DEF Sound, TypeOK, Network
<1>1. net'.og =< net'.gen
  <2>1. net'.og =< net.gen
    BY <1>0, ObservedSteps, FinishFields DEF LifeInv
  <2>. QED
    BY <1>0, <2>1, GenerationGrows DEF Network
<1>2. ASSUME net'.phase = "live", ~net'.fin PROVE Known(net') = {}
  <2>1. Older(net, net')
    BY <1>0, OlderSelf, OlderStep
  <2>2. net.phase = "live"
    BY <1>2, <2>1 DEF Older
  <2>3. ~Release
    BY <1>0, <1>2 DEF Release, Network
  <2>4. ~net.fin
    BY <1>0, <1>2, <2>3, FinSteps
  <2>5. pc \notin LiveCalls /\ pc \notin DeletionCalls
    BY <1>0, <2>2, <2>4 DEF CopiesInv, Older, NetView
  <2>6. NamesSame
    BY <1>0, <2>5, ObjectSteps DEF Record, Claim, Finish, ForgetResource,
       LiveCalls, DeletionCalls, PCs
  <2>. QED
    BY <2>2, <2>4, <2>6 DEF LifeInv, NamesSame, Known
<1>3. ASSUME Early' PROVE ReadyNames(net')
  <2>. SUFFICES ASSUME net'.ready PROVE Complete(net')
    BY DEF ReadyNames
  <2>1. Early /\ pc \notin DeletionCalls
    BY <1>0, <1>3, EarlyNext
  <2>2. CASE net.ready
    BY <2>1, <2>2, CompleteGrows DEF LifeInv, ReadyNames
  <2>3. CASE Finish
    BY <2>3, FinishFields
  <2>4. CASE obj.ready /\ pc \in LiveCalls
    <3>1. Complete(obj) /\ Known(obj) \subseteq Known(net)
      BY <1>0, <2>4 DEF LifeInv, ReadyNames, PassInv, KnownInv
    <3>2. Complete(net)
      BY <3>1 DEF Known, Complete
    <3>. QED
      BY <2>1, <3>2, CompleteGrows
  <2>5. ~Wait
    BY <2>1 DEF Wait, DeletionCalls
  <2>. QED
    BY <1>0, <2>2, <2>3, <2>4, <2>5, ReadySteps
<1>4. ASSUME NetView'.phase = "live" PROVE ReadyNames(seen'.net)
  <2>1. Early' /\ NetView.phase = "live"
    BY <1>0, <1>4, DeletionSeen DEF Early
  <2>. QED
    BY <1>0, <1>3, <2>1, SeenSteps DEF LifeInv
<1>5. ASSUME pc' \in LiveCalls PROVE ReadyNames(obj')
  <2>1. Early' /\ pc' # "idle"
    BY <1>5 DEF Early, LiveCalls
  <2>2. CASE UNCHANGED passVars
    BY <1>5, <2>2 DEF LifeInv, passVars
  <2>3. CASE Begin
    <3>1. obj' = NetView /\ NetView.phase = "live"
      BY <1>0, <1>5, <2>3, ViewType DEF Begin, FirstCall, LiveCalls, DeletionCalls, Network
    <3>. QED
      BY <3>1 DEF LifeInv, NetView, Early
  <2>4. CASE PassGoesOn
    BY <1>3, <2>1, <2>4 DEF LifeInv, PassGoesOn
  <2>5. CASE DeletionGoesOn
    BY <1>5, <2>5 DEF DeletionGoesOn, LiveCalls
  <2>. QED
    BY <1>0, <2>1, <2>2, <2>3, <2>4, <2>5, PassSteps DEF Return
<1>6. /\ ReadyNames(net)' = ReadyNames(net') /\ ReadyNames(seen.net)' = ReadyNames(seen'.net)
      /\ ReadyNames(obj)' = ReadyNames(obj') /\ Known(net)' = Known(net')
  BY DEF ReadyNames, Complete, Known
<1>. QED
  BY <1>1, <1>2, <1>3, <1>4, <1>5, <1>6 DEF LifeInv

-----------------------------------------------------------------------------
(* What others read of the object                                          *)

(* What others read, from the parts of the object it is made of.           *)
AnObject(p, g, og, r, ids, mine, a) ==
    [phase |-> p, gen |-> g, og |-> og, ready |-> r, ids |-> ids, mine |-> mine,
     abandoned |-> a]
IdsOf(n)     == [k \in Kinds |-> n.res[k].id]
Abandoned(n) == n.policy = "Abandon"

(* It is made of them.                                                     *)
LEMMA ObjectIs ==
    /\ Object = AnObject(net.phase, net.gen, net.og, net.ready, IdsOf(net),
                         Remaining(net), Abandoned(net))
    /\ Object' = AnObject(net'.phase, net'.gen, net'.og, net'.ready, IdsOf(net'),
                          Remaining(net'), Abandoned(net'))
BY Zenon DEF Object, AnObject, IdsOf, Abandoned

(* Others read no more than this.                                          *)
LEMMA PartsSame ==
    /\ net'.res = net.res => IdsOf(net') = IdsOf(net) /\ Remaining(net') = Remaining(net)
    /\ net'.policy = net.policy => Abandoned(net') = Abandoned(net)
BY DEF IdsOf, Remaining, Abandoned

(* Nothing they read changes.                                              *)
LEMMA ObjectStutters ==
    ASSUME net'.phase = net.phase, net'.gen = net.gen, net'.og = net.og,
           net'.ready = net.ready, net'.res = net.res, net'.policy = net.policy
    PROVE  Object' = Object
BY PartsSame, ObjectIs

(* The phase alone changes.                                                *)
LEMMA PhaseChanges ==
    ASSUME NEW v, net'.gen = net.gen, net'.og = net.og, net'.ready = net.ready,
           net'.res = net.res, net'.policy = net.policy, net'.phase = v
    PROVE  Object' = [Object EXCEPT !.phase = v]
<1>1. [Object EXCEPT !.phase = v]
        = AnObject(v, net.gen, net.og, net.ready,
                   IdsOf(net), Remaining(net), Abandoned(net))
  BY ObjectIs DEF AnObject
<1>2. Object' = AnObject(v, net.gen, net.og, net.ready,
                         IdsOf(net), Remaining(net), Abandoned(net))
  BY PartsSame, ObjectIs
<1>. QED
  BY <1>1, <1>2, Zenon

(* The phase changes, and the generation with it.                         *)
LEMMA PhaseAndGenChange ==
    ASSUME NEW v, NEW w, net'.og = net.og, net'.ready = net.ready,
           net'.res = net.res, net'.policy = net.policy, net'.phase = v,
           net'.gen = w
    PROVE  Object' = [Object EXCEPT !.phase = v, !.gen = w]
<1>1. [Object EXCEPT !.phase = v]
        = AnObject(v, net.gen, net.og, net.ready,
                   IdsOf(net), Remaining(net), Abandoned(net))
  BY ObjectIs DEF AnObject
<1>2. [AnObject(v, net.gen, net.og, net.ready,
                IdsOf(net), Remaining(net), Abandoned(net))
          EXCEPT !.gen = w]
        = AnObject(v, w, net.og, net.ready,
                   IdsOf(net), Remaining(net), Abandoned(net))
  BY DEF AnObject
<1>3. Object' = AnObject(v, w, net.og, net.ready,
                         IdsOf(net), Remaining(net), Abandoned(net))
  BY PartsSame, ObjectIs
<1>. QED
  BY <1>1, <1>2, <1>3, Zenon

(* The spec changes.                                                       *)
LEMMA SpecChanges ==
    ASSUME NEW v, net'.phase = net.phase, net'.og = net.og,
           net'.ready = net.ready, net'.res = net.res, net'.gen = v
    PROVE  Object' = [Object EXCEPT !.gen = v, !.abandoned = Abandoned(net')]
<1>1. [Object EXCEPT !.gen = v]
        = AnObject(net.phase, v, net.og, net.ready,
                   IdsOf(net), Remaining(net), Abandoned(net))
  BY ObjectIs DEF AnObject
<1>2. [AnObject(net.phase, v, net.og, net.ready,
                IdsOf(net), Remaining(net), Abandoned(net))
          EXCEPT !.abandoned = Abandoned(net')]
        = AnObject(net.phase, v, net.og, net.ready,
                   IdsOf(net), Remaining(net), Abandoned(net'))
  BY DEF AnObject
<1>3. Object' = AnObject(net.phase, v, net.og, net.ready,
                         IdsOf(net), Remaining(net), Abandoned(net'))
  BY PartsSame, ObjectIs
<1>. QED
  BY <1>1, <1>2, <1>3, Zenon

(* The whole status changes.                                               *)
LEMMA StatusChanges ==
    ASSUME NEW v, NEW w, net'.phase = net.phase, net'.gen = net.gen,
           net'.policy = net.policy, net'.og = v, net'.ready = w
    PROVE  Object' = [Object EXCEPT !.ids = IdsOf(net'), !.mine = Remaining(net'),
                                    !.og = v, !.ready = w]
<1>. DEFINE x1 == AnObject(net.phase, net.gen, net.og, net.ready,
                           IdsOf(net'), Remaining(net), Abandoned(net))
            x2 == AnObject(net.phase, net.gen, net.og, net.ready,
                           IdsOf(net'), Remaining(net'), Abandoned(net))
            x3 == AnObject(net.phase, net.gen, v, net.ready,
                           IdsOf(net'), Remaining(net'), Abandoned(net))
            x4 == AnObject(net.phase, net.gen, v, w,
                           IdsOf(net'), Remaining(net'), Abandoned(net))
<1>1. [Object EXCEPT !.ids = IdsOf(net')] = x1
  BY ObjectIs DEF AnObject
<1>2. [x1 EXCEPT !.mine = Remaining(net')] = x2
  BY DEF AnObject
<1>3. [x2 EXCEPT !.og = v] = x3
  BY DEF AnObject
<1>4. [x3 EXCEPT !.ready = w] = x4
  BY DEF AnObject
<1>5. Object' = x4
  BY PartsSame, ObjectIs
<1>. HIDE DEF x1, x2, x3, x4
<1>6. [Object EXCEPT !.ids = IdsOf(net'), !.mine = Remaining(net')] = x2
  BY <1>1, <1>2, Zenon
<1>7. [Object EXCEPT !.ids = IdsOf(net'), !.mine = Remaining(net'), !.og = v] = x3
  BY <1>3, <1>6, Zenon
<1>. QED
  BY <1>4, <1>5, <1>7, Zenon

(* The status forgets one resource.                                        *)
LEMMA NameGoes ==
    ASSUME NEW k, NEW v, net'.phase = net.phase, net'.gen = net.gen,
           net'.og = net.og, net'.ready = net.ready, net'.policy = net.policy,
           IdsOf(net') = [IdsOf(net) EXCEPT ![k] = v],
           Remaining(net') = Remaining(net) \ {k}
    PROVE  Object' = [Object EXCEPT !.ids[k] = v, !.mine = @ \ {k}]
<1>. DEFINE y == AnObject(net.phase, net.gen, net.og, net.ready,
                          IdsOf(net'), Remaining(net), Abandoned(net))
<1>1. [Object EXCEPT !.ids[k] = v] = y
  BY ObjectIs DEF AnObject
<1>2. y.mine = Remaining(net)
  BY DEF AnObject
<1>3. ASSUME NEW m
      PROVE  [y EXCEPT !.mine = m] = AnObject(net.phase, net.gen, net.og, net.ready,
                                              IdsOf(net'), m, Abandoned(net))
  BY DEF AnObject
<1>4. Object' = AnObject(net.phase, net.gen, net.og, net.ready,
                         IdsOf(net'), Remaining(net'), Abandoned(net))
  BY PartsSame, ObjectIs
<1>. HIDE DEF y
<1>5. [Object EXCEPT !.ids[k] = v, !.mine = @ \ {k}] = [y EXCEPT !.mine = @ \ {k}]
  BY <1>1, Zenon
<1>6. [y EXCEPT !.mine = @ \ {k}] = [y EXCEPT !.mine = Remaining(net')]
  BY <1>2
<1>. QED
  BY <1>3, <1>4, <1>5, <1>6, Zenon

(* Of what a status names the controller owns what it may.                 *)
LEMMA RemainingShape ==
    ASSUME NEW b, NEW n, \A k \in Kinds : ShapeOK(b, n.res[k], k)
    PROVE  Remaining(n) = {k \in Kinds : n.res[k].id # NoId /\ MayOwn(b, k)}
BY DEF Remaining, ShapeOK

(* A status that keeps the ids it has learns.                              *)
LEMMA KeepsAndLearns ==
    ASSUME Shape(net), Shape(net)', born' = born,
           \A k \in Kinds : net.res[k].id # NoId => net'.res[k].id = net.res[k].id
    PROVE  Life!Learns(Object'.ids, Object'.mine)
<1>1. /\ Remaining(net) = {k \in Kinds : net.res[k].id # NoId /\ MayOwn(born, k)}
      /\ Remaining(net') = {k \in Kinds : net'.res[k].id # NoId /\ MayOwn(born, k)}
  BY RemainingShape DEF Shape
<1>2. /\ Object.ids = [k \in Kinds |-> net.res[k].id] /\ Object.mine = Remaining(net)
      /\ Object'.ids = [k \in Kinds |-> net'.res[k].id]
      /\ Object'.mine = Remaining(net')
  BY DEF Object
<1>3. Life!Extends(Object'.ids, Object.ids)
  BY <1>2 DEF Life!Extends
<1>4. Object.mine \subseteq Object'.mine
  BY <1>1, <1>2
<1>5. \A k \in Object'.mine \ Object.mine : Object.ids[k] = NoId /\ Object'.ids[k] # NoId
  BY <1>1, <1>2
<1>. QED
  BY <1>3, <1>4, <1>5 DEF Life!Learns

(* The deletion mark.                                                      *)
LEMMA MarkLife ==
    ASSUME TypeOK, LifeInv, net.phase = "live", net' = MarkDeleted(net)
    PROVE  Life!LaggedNext
<1>0. net \in Network
  BY DEF TypeOK
<1>1. /\ net'.og = net.og /\ net'.ready = net.ready /\ net'.res = net.res
      /\ net'.policy = net.policy
      /\ net.fin => net'.phase = "deleting" /\ net'.gen = net.gen + 1
      /\ ~net.fin => net'.phase = "absent" /\ net'.gen = net.gen
  BY <1>0, DeletedFields DEF SameStatus, SameSpec
<1>2. Object.phase = net.phase /\ Object.gen = net.gen
  BY DEF Object
<1>3. CASE net.fin
  <2>1. Object' = [Object EXCEPT !.phase = "deleting", !.gen = net.gen + 1]
    <3>1. net'.phase = "deleting" /\ net'.gen = net.gen + 1
      BY <1>1, <1>3
    <3>2. net'.og = net.og /\ net'.ready = net.ready /\ net'.res = net.res
          /\ net'.policy = net.policy
      BY <1>1
    <3>3. ASSUME NEW v, NEW w, net'.phase = v, net'.gen = w
          PROVE  Object' = [Object EXCEPT !.phase = v, !.gen = w]
      BY <3>2, <3>3, PhaseAndGenChange, Zenon
    <3>. QED
      BY <3>1, <3>3, Zenon
  <2>2. Life!Delete
    BY <1>2, <2>1 DEF Life!Delete
  <2>. QED
    BY <2>2 DEF Life!LaggedNext
<1>4. CASE ~net.fin
  <2>1. Object' = [Object EXCEPT !.phase = "absent"]
    BY <1>1, <1>4, PhaseChanges, Zenon
  <2>2. Known(net) = {}
    BY <1>4 DEF LifeInv
  <2>3. Life!Known(Object) = {}
    BY <2>2 DEF Life!Known, Object, Known
  <2>4. Life!Delete
    BY <1>2, <2>1, <2>3 DEF Life!Delete
  <2>. QED
    BY <2>4 DEF Life!LaggedNext
<1>. QED
  BY <1>3, <1>4

(* An edit of the spec; Abandon is for good.                               *)
LEMMA EditLife ==
    ASSUME PolicyEdits \subseteq AbandonOnly, TypeOK, Edits
    PROVE  Life!LaggedNext
<1>1. /\ net.phase # "absent" /\ net'.phase = net.phase /\ SameStatus(net', net)
      /\ net'.gen = net.gen + 1 /\ net'.policy \in {net.policy, "Abandon"}
  BY EditFields
<1>2. /\ Object.phase = net.phase /\ Object.gen = net.gen
      /\ Object'.abandoned = Abandoned(net')
  BY DEF Object, Abandoned
<1>3. /\ net'.og = net.og /\ net'.ready = net.ready /\ net'.res = net.res
  BY <1>1 DEF SameStatus
<1>4. Object' = [Object EXCEPT !.gen = net.gen + 1, !.abandoned = Abandoned(net')]
  BY <1>1, <1>3, SpecChanges, Zenon
<1>5. Object.abandoned => Abandoned(net')
  BY <1>1 DEF Object, Abandoned
<1>6. Life!Edit(Object'.abandoned)
  BY <1>1, <1>2, <1>4, <1>5 DEF Life!Edit
<1>. QED
  BY <1>6 DEF Life!LaggedNext

(* An object that is gone stays as it was.                                 *)
LEMMA GoneStays ==
    ASSUME TypeOK, CopiesInv, Next, net.phase = "absent" PROVE Object' = Object
<1>0. net \in Network /\ ~net.fin /\ pc \notin LiveCalls
  BY DEF TypeOK, CopiesInv
<1>1. CASE net' = net
  BY <1>1, ObjectStutters
<1>2. CASE \/ ClusterNotFound \/ AddOwner \/ ClusterFound \/ ClusterBound
           \/ DeleteOrphan \/ Authorize \/ Refuse
           \/ OwnershipToken \/ EnsureKnown \/ EnsureFound \/ EnsureCreated
           \/ Record \/ EnsureRules \/ EnsureRulesFails
           \/ Finish \/ Observe \/ Adopt \/ Claim
  <2>1. pc \in LiveCalls
    BY <1>2 DEF ClusterNotFound, AddOwner, ClusterFound, ClusterBound, DeleteOrphan,
       Authorize, Refuse, OwnershipToken, EnsureKnown, EnsureFound, EnsureCreated,
       Record, EnsureRules, EnsureRulesFails, Finish, Observe, Adopt, Claim, LiveCalls,
       PCs, DeletionCalls
  <2>. QED
    BY <1>0, <2>1
<1>3. CASE \/ Wait \/ Drained \/ Verify \/ DeleteResource \/ ForgetResource
           \/ CallFails \/ Crash \/ Begin
  BY <1>1, <1>3 DEF Wait, Drained, Verify, DeleteResource, ForgetResource, CallFails,
     Crash, Begin, Fail
<1>4. CASE Release \/ AddFinalizer
  <2>1. /\ net'.phase = net.phase /\ net'.gen = net.gen /\ net'.og = net.og
        /\ net'.ready = net.ready /\ net'.res = net.res /\ net'.policy = net.policy
    BY <1>0, <1>4 DEF Release, AddFinalizer, Network
  <2>. QED
    BY <2>1, ObjectStutters
<1>5. ~(EditPolicy \/ EditCIDRs \/ EditName \/ UserDelete \/ GarbageCollect)
  BY DEF EditPolicy, EditCIDRs, EditName, Edit, UserDelete, GarbageCollect
<1>6. CASE QuietStep
  BY <1>1, <1>6, QuietSame
<1>. QED
  BY <1>2, <1>3, <1>4, <1>5, <1>6, StepGroups

(* A step that leaves phase and spec alone and forgets nothing is a patch. *)
LEMMA PatchLife ==
    ASSUME Undisturbed, Whole, LifeInv, LifeInv', Next, ~ForgetResource, StatusOnly
    PROVE  Life!LaggedNext
<1>0. /\ TypeOK /\ CopiesInv /\ Sound /\ Shape(net) /\ Shape(net)' /\ born' = born
      /\ net.gen \in Nat /\ net.og \in Nat /\ obj.gen \in Nat /\ net \in Network
  BY ShapeNext DEF Whole, Sound, PassInv, ShapeInv, Next, History, TypeOK, Network
<1>1. CASE net.phase = "absent"
  BY <1>0, <1>1, GoneStays DEF Life!LaggedNext
<1>2. CASE net.phase # "absent"
  <2>1. \A k \in Kinds : net.res[k].id # NoId => net'.res[k].id = net.res[k].id
    BY NameKept
  <2>2. Life!Learns(Object'.ids, Object'.mine)
    BY <1>0, <2>1, KeepsAndLearns
  <2>3. /\ net'.phase = net.phase /\ net'.gen = net.gen /\ net'.policy = net.policy
    BY DEF StatusOnly, SameSpec
  <2>4. Object' = [Object EXCEPT !.ids = IdsOf(net'), !.mine = Remaining(net'),
                                 !.og = net'.og, !.ready = net'.ready]
    BY <2>3, StatusChanges, Zenon
  <2>5. /\ Object'.ids = IdsOf(net') /\ Object'.mine = Remaining(net')
        /\ Object'.og = net'.og /\ Object'.ready = net'.ready
        /\ Object.phase = net.phase /\ Object.og = net.og /\ Object.gen = net.gen
    BY DEF Object, IdsOf
  <2>6. Object'.og =< Object.gen
    BY <2>3, <2>5 DEF LifeInv
  <2>7. ASSUME Object'.og # Object.og \/ (Object'.ready /\ Object.phase = "live")
        PROVE  \A k \in Kinds : Object'.ids[k] # NoId
    <3>1. Complete(net')
      <4>1. CASE net'.og # net.og
        BY <1>0, <4>1, ObservedSteps, FinishFields
      <4>2. CASE net'.ready /\ net.phase = "live"
        <5>1. Early'
          <6>1. net'.phase = "live"
            BY <2>3, <4>2
          <6>2. CopiesInv'
            BY <1>0, CopiesNext
          <6>. QED
            BY <6>1, <6>2 DEF CopiesInv, Older, Early, NetView
        <5>2. net'.ready => Complete(net)'
          BY <5>1 DEF LifeInv, ReadyNames
        <5>. QED
          BY <4>2, <5>2 DEF Complete
      <4>. QED
        BY <2>5, <2>7, <4>1, <4>2
    <3>. QED
      BY <2>5, <3>1 DEF IdsOf, Complete
  <2>8. Object' = [Object EXCEPT !.ids = Object'.ids, !.mine = Object'.mine,
                                 !.og = Object'.og, !.ready = Object'.ready]
    BY <2>4, <2>5, Zenon
  <2>9. Life!Patch(Object'.ids, Object'.mine, Object'.og, Object'.ready)
    BY <1>2, <2>2, <2>5, <2>6, <2>7, <2>8, Zenon DEF Life!Patch
  <2>. QED
    BY <2>9, Zenon DEF Life!LaggedNext
<1>. QED
  BY <1>1, <1>2

(* The status forgets a resource that is gone.                             *)
LEMMA ForgetLife ==
    ASSUME Whole, Next, ForgetResource PROVE Life!LaggedNext
<1>0. /\ TypeOK /\ CopiesInv /\ PassInv /\ pc = "forget" /\ kind \in Kinds
      /\ net \in Network /\ obj \in Network /\ Shape(net) /\ Shape(obj)
      /\ kind \in Remaining(obj) /\ net.phase # "live"
  BY DEF Whole, Sound, PassInv, ShapeInv, CallsInv, TargetInv, ForgetResource, TypeOK,
     CopiesInv, Older, NetView, DeletionCalls
<1>1. CASE net.phase = "absent"
  BY <1>0, <1>1, GoneStays DEF Life!LaggedNext
<1>2. CASE net.phase # "absent"
  <2>0. net.phase = "deleting"
    BY <1>0, <1>2 DEF Network
  <2>1. net' = MergeStatus(net, obj, Forgotten) /\ Forgotten \in Network
        /\ Forgotten.og = obj.og
    BY <1>0, <1>2, PatchFacts DEF ForgetResource, Forgotten
  <2>2. /\ net'.phase = net.phase /\ net'.gen = net.gen /\ net'.og = net.og
        /\ net'.ready = net.ready /\ net'.policy = net.policy
    BY <1>0, <2>1, MergeFields DEF Pick, SameSpec
  <2>3. \A k \in Kinds :
          \/ net'.res[k].id = net.res[k].id /\ net'.res[k].managed = net.res[k].managed
          \/ k = kind /\ net'.res[k].id = NoId /\ net'.res[k].managed = FALSE
    BY <1>0, ForgetFields
  <2>4. CASE /\ net'.res[kind].id = net.res[kind].id
             /\ net'.res[kind].managed = net.res[kind].managed
    <3>1. IdsOf(net') = IdsOf(net) /\ Remaining(net') = Remaining(net)
      BY <2>3, <2>4 DEF IdsOf, Remaining
    <3>2. Abandoned(net') = Abandoned(net)
      BY <2>2 DEF Abandoned
    <3>3. Object' = Object
      BY <2>2, <3>1, <3>2, ObjectIs, Zenon
    <3>. QED
      BY <3>3 DEF Life!LaggedNext
  <2>5. CASE /\ net'.res[kind].id = NoId /\ net'.res[kind].managed = FALSE
             /\ ~(/\ net'.res[kind].id = net.res[kind].id
                  /\ net'.res[kind].managed = net.res[kind].managed)
    <3>1. IdsOf(net') = [IdsOf(net) EXCEPT ![kind] = NoId]
      BY <1>0, <2>3, <2>5 DEF IdsOf
    <3>2. Remaining(net') = Remaining(net) \ {kind}
      BY <2>3, <2>5 DEF Remaining
    <3>3. Object' = [Object EXCEPT !.ids[kind] = NoId, !.mine = @ \ {kind}]
      BY <2>2, <3>1, <3>2, NameGoes, Zenon
    <3>4. kind \in Remaining(net)
      <4>1. ShapeOK(born, net.res[kind], kind) /\ ShapeOK(born, obj.res[kind], kind)
        BY <1>0 DEF Shape
      <4>2. net.res[kind].managed \in BOOLEAN
        BY <1>0 DEF Network, ResourceStatus
      <4>. QED
        BY <1>0, <2>5, <4>1, <4>2 DEF ShapeOK, Remaining
    <3>5. Object.phase = "deleting" /\ Object.mine = Remaining(net)
      BY <2>0 DEF Object
    <3>6. Life!GiveUp(kind)
      BY <3>3, <3>4, <3>5, Zenon DEF Life!GiveUp
    <3>. QED
      BY <1>0, <3>6, Zenon DEF Life!LaggedNext
  <2>. QED
    BY <1>0, <2>3, <2>4, <2>5
<1>. QED
  BY <1>1, <1>2

(* The object goes with its finalizer.                                     *)
LEMMA ReleaseLife ==
    ASSUME TypeOK, CopiesInv, Next, Release PROVE Life!LaggedNext
<1>0. net \in Network /\ net.phase # "live"
  BY DEF TypeOK, Release, CopiesInv, Older, NetView, DeletionCalls
<1>1. CASE net.phase = "absent"
  BY <1>1, GoneStays DEF Life!LaggedNext
<1>2. CASE net.phase = "deleting"
  <2>1. /\ net'.gen = net.gen /\ net'.og = net.og /\ net'.ready = net.ready
        /\ net'.res = net.res /\ net'.policy = net.policy /\ net'.phase = "absent"
    BY <1>0 DEF Release, Network
  <2>2. Object' = [Object EXCEPT !.phase = "absent"]
    BY <2>1, PhaseChanges, Zenon
  <2>3. Object.phase = "deleting"
    BY <1>2 DEF Object
  <2>4. Life!Go
    BY <2>2, <2>3, Zenon DEF Life!Go
  <2>. QED
    BY <2>4, Zenon DEF Life!LaggedNext
<1>. QED
  BY <1>0, <1>1, <1>2 DEF Network

(* A new object starts a new life.                                         *)
LEMMA LifeInit == Init => Life!Init
<1>. SUFFICES ASSUME Init PROVE Life!Init
  OBVIOUS
<1>1. PICK p, cs, b : net = NewNetwork(p, cs, b)
  BY DEF Init
<1>2. /\ net.phase = "live" /\ net.gen = 1 /\ net.og = 0 /\ net.ready = FALSE
      /\ net.res = [k \in Kinds |-> NoStatus]
  BY <1>1 DEF NewNetwork
<1>3. /\ IdsOf(net) = [k \in Kinds |-> NoId] /\ Remaining(net) = {}
  BY <1>2 DEF IdsOf, Remaining, NoStatus
<1>4. Object = Life!NewObject(Abandoned(net))
  BY <1>2, <1>3, ObjectIs, Zenon DEF AnObject, Life!NewObject
<1>5. Abandoned(net) \in BOOLEAN
  BY DEF Abandoned
<1>. QED
  BY <1>4, <1>5, Zenon DEF Life!Init

(* Every step.                                                             *)
LEMMA LifeNext ==
    ASSUME Undisturbed
    PROVE  Whole /\ LifeInv /\ LifeInv' /\ [Next]_vars => [Life!LaggedNext]_Object
<1>1. ASSUME Whole, LifeInv, LifeInv', Next PROVE Life!LaggedNext
  <2>0. TypeOK /\ CopiesInv /\ net \in Network
    BY <1>1 DEF Whole, Sound, TypeOK
  <2>1. CASE Edits
    BY <2>0, <2>1, EditLife DEF Undisturbed
  <2>2. CASE Marks
    BY <1>1, <2>0, <2>2, MarkLife DEF Marks
  <2>3. CASE Release
    BY <1>1, <2>0, <2>3, ReleaseLife
  <2>4. CASE AddFinalizer
    <3>1. /\ net'.phase = net.phase /\ net'.gen = net.gen /\ net'.og = net.og
          /\ net'.ready = net.ready /\ net'.res = net.res /\ net'.policy = net.policy
      BY <2>0, <2>4 DEF AddFinalizer, Network
    <3>. QED
      BY <3>1, ObjectStutters DEF Life!LaggedNext
  <2>5. CASE ForgetResource
    BY <1>1, <2>5, ForgetLife
  <2>6. CASE StatusOnly /\ ~ForgetResource
    BY <1>1, <2>6, PatchLife
  <2>. QED
    BY <1>1, <2>0, <2>1, <2>2, <2>3, <2>4, <2>5, <2>6, ObjectSteps
<1>2. ASSUME UNCHANGED vars PROVE Object' = Object
  BY <1>2, ObjectStutters DEF vars
<1>. QED
  BY <1>1, <1>2, Zenon

(* The network reconciler keeps the promises of Lifecycle that hold for    *)
(* copies of any age: whatever fails, restarts or is edited between two    *)
(* calls of a pass and however old the copy it started from, the status    *)
(* keeps what it named until the object is deleted, says Ready of a live   *)
(* object and observes a generation only with every id, and never one      *)
(* ahead of the spec; a deletion is not taken back (Reconcile,             *)
(* patchStatus, setCondition, reconcileDelete).                            *)
THEOREM PromisesKept == ASSUME Undisturbed PROVE Spec => KeepsPromises
<1>1. Init => Life!Init /\ LifeInv
  <2>. SUFFICES ASSUME Init PROVE LifeInv
    BY LifeInit
  <2>1. PICK p, cs, b : net = NewNetwork(p, cs, b)
    BY DEF Init
  <2>2. /\ net.og = 0 /\ net.gen = 1 /\ net.ready = FALSE /\ Known(net) = {}
        /\ seen.net = net /\ pc = "idle"
    BY <2>1 DEF Init, NewNetwork, Known, NoStatus
  <2>. QED
    BY <2>2 DEF LifeInv, ReadyNames, LiveCalls
<1>2. Whole /\ LifeInv /\ [Next]_vars => LifeInv'
  <2>1. ASSUME LifeInv, UNCHANGED vars PROVE LifeInv'
    BY <2>1 DEF vars, LifeInv, ReadyNames, Complete, Known, Early, NetView
  <2>. QED
    BY <2>1, LifeInvNext DEF Whole
<1>3. Whole /\ LifeInv /\ LifeInv' /\ [Next]_vars => [Life!LaggedNext]_Object
  BY LifeNext
<1>4. Spec => []Whole
  BY WholeHolds
<1>. QED
  BY <1>1, <1>2, <1>3, <1>4, PTL DEF Spec, KeepsPromises, Life!LaggedSpec

=============================================================================
