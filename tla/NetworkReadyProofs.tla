-------------------------- MODULE NetworkReadyProofs --------------------------
(***************************************************************************)
(* What a live object says is true, and deletion waits for machines,       *)
(* however old the copies of the object are that passes start from; the    *)
(* first needs that no rule call is made for a spec older than the one     *)
(* the status was last published for.                                      *)
(***************************************************************************)
EXTENDS NetworkOwnedProofs

-----------------------------------------------------------------------------
(* Ready is true                                                           *)

(* No pass changes rules for a spec that a later pass has already done.    *)
RulesNotOlder == pc = "rules" => net.og =< obj.gen

(* The object says of its current generation what is so...                 *)
DoneIsTrue ==
    net.phase = "live" /\ net.og = net.gen =>
        /\ Complete(net)
        /\ net.policy # "Observe" =>
              net.cidrs \cup {"rke2"} \subseteq rules[net.res["sg"].id]

(* ... and a pass that is about to publish has added the rules of its spec. *)
FinishRules ==
    pc = "finish" /\ route # "Observe" => RKE2Rules \subseteq rules[obj.res["sg"].id]

ReadyInv == net.og =< net.gen /\ DoneIsTrue /\ FinishRules

(* How a pass gets to its last patch.                                      *)
LEMMA FinishReached ==
    ASSUME "vanish" \notin Mishaps, Next, pc' = "finish"
    PROVE  EnsureRules \/ Observe \/ UNCHANGED <<passVars, rules>>
<1>1. CASE Return
  BY <1>1 DEF Return
<1>2. CASE QuietStep
  BY <1>2, QuietSame DEF QuietStep, CreateCluster, DeleteCluster,
     AddMachine, MachineBoots, MachineBootsOnOwnNetwork, RemoveMachine, ServerGone,
     TimePasses, SyncNetwork, SyncCluster, SyncMachines, Rename, Vanish, cloudVars
<1>3. CASE \/ EditPolicy \/ EditCIDRs \/ EditName \/ UserDelete \/ GarbageCollect
  BY <1>3 DEF EditPolicy, EditCIDRs, EditName, Edit, UserDelete, GarbageCollect,
     cloudVars
<1>4. CASE \/ Begin \/ AddFinalizer \/ ClusterNotFound \/ AddOwner \/ ClusterFound
           \/ ClusterBound \/ DeleteOrphan \/ Authorize \/ Refuse
  BY <1>1, <1>4 DEF Begin, FirstCall, AddFinalizer, ClusterNotFound, AfterBind,
     AddOwner, ClusterFound, ClusterBound, DeleteOrphan, Authorize, PolicyCall,
     Refuse, Fail
<1>5. CASE \/ OwnershipToken \/ EnsureKnown \/ EnsureFound \/ EnsureCreated
           \/ Record \/ EnsureRulesFails \/ Finish \/ Adopt \/ Claim
  BY <1>1, <1>5 DEF OwnershipToken, PatchThen, EnsureKnown, EnsureFound,
     EnsureCreated, Ensured, CallAfter, Record, EnsureRulesFails, Finish, Adopt,
     Claim, Fail
<1>6. CASE \/ Wait \/ Drained \/ Verify \/ DeleteResource \/ ForgetResource
           \/ Release \/ CallFails \/ Crash
  BY <1>1, <1>6 DEF Wait, Drained, Verify, DeleteResource, ForgetResource,
     Release, CallFails, Crash, Fail
<1>. QED
  BY <1>2, <1>3, <1>4, <1>5, <1>6, StepGroups

(* A rule call adds the rules of its spec before it removes any, and       *)
(* removes none of them.                                                   *)
LEMMA RulesChange ==
    ASSUME Whole, EnsureRules \/ EnsureRulesFails
    PROVE  LET g == obj.res["sg"].id IN
           /\ \A i \in Ids \ {g} : rules'[i] = rules[i]
           /\ rules[g] \cap RKE2Rules \subseteq rules'[g]
           /\ EnsureRules /\ ~Fail =>
                /\ pc' = "finish" /\ obj' = obj /\ route' = route /\ net' = net
                /\ RKE2Rules \subseteq rules'[g]
<1>. DEFINE g == obj.res["sg"].id
<1>0. /\ TypeOK /\ pc = "rules" /\ rules \in [Ids -> SUBSET Rules]
  BY DEF Whole, Sound, TypeOK, EnsureRules, EnsureRulesFails
<1>1. route # "Observe" /\ RuledGroup = g
  BY <1>0 DEF Whole, Sound, ForeignInv, PassOK, PassInv, CallsInv, AnswerInv
<1>2. RKE2Rules \cap ObsoleteSSHRules = {}
  <2>1. obj.applied \subseteq CIDRs /\ obj.cidrs \subseteq CIDRs
    BY <1>0 DEF TypeOK, Network
  <2>. QED
    BY <2>1, ConstantsOK DEF RKE2Rules, ObsoleteSSHRules
<1>. HIDE DEF g
<1>3. CASE EnsureRules /\ ~Fail
  <2>1. /\ pc' = "finish" /\ obj' = obj /\ route' = route /\ net' = net /\ g \in alive
        /\ rules' = [rules EXCEPT ![g] = (rules[g] \cup RKE2Rules) \ ObsoleteSSHRules]
    BY <1>1, <1>3 DEF EnsureRules
  <2>2. g \in Ids
    BY <1>0, <2>1 DEF TypeOK
  <2>3. /\ \A i \in Ids \ {g} : rules'[i] = rules[i]
        /\ rules'[g] = (rules[g] \cup RKE2Rules) \ ObsoleteSSHRules
    BY <1>0, <2>1, <2>2
  <2>. QED
    BY <1>2, <2>1, <2>3 DEF g
<1>4. CASE EnsureRules /\ Fail
  <2>1. UNCHANGED rules
    BY <1>4 DEF EnsureRules, Fail, Return
  <2>. QED
    BY <1>4, <2>1 DEF g
<1>5. CASE EnsureRulesFails
  <2>1. Fail /\ g \in alive /\ pc' = "idle"
    BY <1>1, <1>5 DEF EnsureRulesFails, Fail, Return
  <2>2. PICK done \in
          {rules[RuledGroup] \cup A : A \in SUBSET RKE2Rules}
          \cup {(rules[RuledGroup] \cup RKE2Rules) \ R :
                    R \in SUBSET ObsoleteSSHRules} :
           rules' = [rules EXCEPT ![RuledGroup] = done]
    BY <1>5 DEF EnsureRulesFails
  <2>3. rules[g] \cap RKE2Rules \subseteq done
    BY <1>1, <1>2, <2>2
  <2>4. rules' = [rules EXCEPT ![g] = done]
    BY <1>1, <2>2
  <2>5. g \in Ids
    BY <1>0, <2>1 DEF TypeOK
  <2>6. (\A i \in Ids \ {g} : rules'[i] = rules[i]) /\ rules'[g] = done
    BY <1>0, <2>4, <2>5
  <2>7. ~(EnsureRules /\ ~Fail)
    BY <2>1
  <2>. QED
    BY <2>3, <2>6, <2>7 DEF g
<1>. QED
  BY <1>3, <1>4, <1>5

(* What was done stays done while its rules are not taken away.            *)
LEMMA DoneKept ==
    ASSUME Undisturbed, Whole, ReadyInv, RulesNotOlder, Next,
           net.phase = "live", net.og = net.gen
    PROVE  /\ \A k \in Kinds : net.res[k].id # NoId /\ net'.res[k].id = net.res[k].id
           /\ net.policy # "Observe" =>
                 net.cidrs \cup {"rke2"} \subseteq rules'[net.res["sg"].id]
<1>0. /\ TypeOK /\ CopiesInv /\ PassInv /\ MadeInv
      /\ Complete(net)
      /\ net.policy # "Observe" =>
            net.cidrs \cup {"rke2"} \subseteq rules[net.res["sg"].id]
      /\ pc \notin DeletionCalls
  BY DEF Whole, Sound, UniqueInv, ReadyInv, DoneIsTrue, CopiesInv, Older, NetView
<1>1. ~ForgetResource /\ ~DeleteResource /\ ~Vanish
  BY <1>0 DEF ForgetResource, DeleteResource, DeletionCalls, Vanish, Undisturbed
<1>2. \A k \in Kinds : net.res[k].id # NoId /\ net'.res[k].id = net.res[k].id
  BY <1>0, <1>1, NameKept DEF Complete
<1>3. CASE UNCHANGED rules
  BY <1>0, <1>2, <1>3
<1>4. CASE EnsureRules \/ EnsureRulesFails
  <2>1. pc = "rules"
    BY <1>4 DEF EnsureRules, EnsureRulesFails
  <2>2. SameSpec(obj, net)
    <3>1. Older(obj, net) /\ net.gen =< obj.gen /\ obj.gen \in Nat /\ net.gen \in Nat
      BY <1>0, <2>1 DEF CopiesInv, RulesNotOlder, TypeOK, Network
    <3>. QED
      BY <3>1 DEF Older
  <2>3. net.res["sg"].id = obj.res["sg"].id
    <3>1. route # "Observe" /\ obj.res["sg"].id # NoId
      BY <1>0, <2>1 DEF Whole, Sound, ForeignInv, PassOK, PassInv, CallsInv, AnswerInv
    <3>2. obj.res["sg"].id \in Of("sg") /\ net.res["sg"].id \in Of("sg")
          /\ net.res["sg"].id # NoId
      BY <1>0 DEF MadeInv, NamesOf, Complete, Kinds
    <3>. QED
      BY <3>1, <3>2 DEF Of
  <2>4. rules[obj.res["sg"].id] \cap RKE2Rules \subseteq rules'[obj.res["sg"].id]
    BY <1>4, RulesChange
  <2>. QED
    BY <1>0, <1>2, <2>2, <2>3, <2>4 DEF SameSpec, RKE2Rules
<1>. QED
  BY <1>1, <1>3, <1>4, CloudCalls

(* What a pass publishes is so.                                            *)
LEMMA FinishTells ==
    ASSUME Whole, ReadyInv, Finish, net'.og # net.og \/ net.og # net.gen
    PROVE  /\ net'.og \in {net.og, obj.gen} /\ net'.og =< net'.gen /\ net'.gen = net.gen
           /\ net'.og = net'.gen =>
                /\ Complete(net')
                /\ net'.policy # "Observe" =>
                      net'.cidrs \cup {"rke2"} \subseteq rules'[net'.res["sg"].id]
<1>0. /\ TypeOK /\ ForeignInv /\ CopiesInv /\ PassInv /\ MadeInv /\ pc = "finish"
      /\ net \in Network /\ obj \in Network /\ UNCHANGED rules /\ Older(obj, net)
      /\ net.gen \in Nat /\ obj.gen \in Nat /\ net.og \in Nat /\ obj.og \in Nat
  BY DEF Whole, Sound, UniqueInv, Finish, TypeOK, CopiesInv, cloudVars, Network
<1>1. PICK r : net' = [MergeStatus(net, obj, Finished) EXCEPT !.ready = r]
  BY Zenon DEF Finish
<1>. DEFINE m == MergeStatus(net, obj, Finished)
<1>2. /\ m \in Network /\ Finished.og = obj.gen
      /\ m.gen = net.gen /\ SameSpec(m, net)
      /\ m.og = Pick(net.og, obj.og, Finished.og)
  BY <1>0, FinishedType, MergeFields
<1>. HIDE DEF m
<1>3. /\ net'.gen = m.gen /\ net'.og = m.og /\ SameSpec(net', m)
  BY <1>1, <1>2 DEF m, Network, SameSpec
<1>4. /\ net'.gen = net.gen /\ SameSpec(net', net)
      /\ net'.og \in {net.og, obj.gen}
  BY <1>2, <1>3 DEF Pick, SameSpec
<1>5. net'.og =< net'.gen
  BY <1>0, <1>4 DEF ReadyInv, Older
<1>6. ASSUME net'.og = net'.gen
      PROVE  /\ Complete(net')
             /\ net'.policy # "Observe" =>
                   net'.cidrs \cup {"rke2"} \subseteq rules'[net'.res["sg"].id]
  <2>1. obj.gen = net.gen
    BY <1>4, <1>6
  <2>2. SameSpec(obj, net)
    BY <1>0, <2>1 DEF Older
  <2>3. ASSUME NEW k \in Kinds
        PROVE  net'.res[k].id = Pick(net.res[k].id, obj.res[k].id, Finished.res[k].id)
    <3>1. m.res[k].id = Pick(net.res[k].id, obj.res[k].id, Finished.res[k].id)
      BY <1>0, FinishedType, MergePicks DEF m
    <3>. QED
      BY <1>1, <1>2, <3>1 DEF m, Network
  <2>4. ASSUME NEW k \in Kinds PROVE net'.res[k].id # NoId
    <3>1. Finished.res[k].id # NoId
      BY <1>0, FinishedRes
    <3>2. obj.res[k].id # NoId => net.res[k].id # NoId
      BY <1>0 DEF PassInv, KnownInv, Known, LiveCalls, PCs, DeletionCalls
    <3>. QED
      BY <2>3, <3>1, <3>2 DEF Pick
  <2>5. ASSUME net'.policy # "Observe"
        PROVE  net'.cidrs \cup {"rke2"} \subseteq rules'[net'.res["sg"].id]
    <3>1. route # "Observe" /\ obj.res["sg"].id # NoId
      BY <1>0, <1>4, <2>2, <2>5 DEF PassInv, CallsInv, AnswerInv, SameSpec
    <3>2. RKE2Rules \subseteq rules[obj.res["sg"].id]
      BY <1>0, <3>1 DEF ReadyInv, FinishRules
    <3>3. net'.res["sg"].id = obj.res["sg"].id
      <4>1. Finished.res["sg"].id = obj.res["sg"].id
        BY <1>0, <3>1, FinishedRes DEF Kinds
      <4>2. net'.res["sg"].id = net.res["sg"].id
        BY <2>3, <4>1 DEF Pick, Kinds
      <4>3. obj.res["sg"].id \in Of("sg") /\ net.res["sg"].id \in Of("sg")
            /\ net.res["sg"].id # NoId
        BY <1>0, <2>4, <4>2 DEF MadeInv, NamesOf, Kinds
      <4>. QED
        BY <3>1, <4>2, <4>3 DEF Of
    <3>. QED
      BY <1>0, <1>4, <2>2, <3>2, <3>3 DEF SameSpec, RKE2Rules
  <2>. QED
    BY <2>4, <2>5 DEF Complete
<1>. QED
  BY <1>4, <1>5, <1>6

(* The rules of a pass that is about to publish are there.                 *)
LEMMA FinishRulesNext ==
    ASSUME Undisturbed, Whole, ReadyInv, Next PROVE FinishRules'
<1>. SUFFICES ASSUME pc' = "finish", route' # "Observe"
              PROVE  obj'.cidrs \cup {"rke2"} \subseteq rules'[obj'.res["sg"].id]
  BY DEF FinishRules, RKE2Rules
<1>1. EnsureRules \/ Observe \/ UNCHANGED <<passVars, rules>>
  BY FinishReached DEF Undisturbed
<1>2. CASE EnsureRules
  <2>1. ~Fail
    BY DEF Fail, Return
  <2>. QED
    BY <1>2, <2>1, RulesChange DEF RKE2Rules
<1>3. CASE Observe
  <2>1. route' = "Observe"
    BY <1>3 DEF Observe, Fail, Return
  <2>. QED
    BY <2>1
<1>4. CASE UNCHANGED <<passVars, rules>>
  BY <1>4 DEF ReadyInv, FinishRules, RKE2Rules, passVars
<1>. QED
  BY <1>1, <1>2, <1>3, <1>4

(* Every step keeps what the object says true.                             *)
LEMMA ReadyNext ==
    ASSUME Undisturbed, Whole, ReadyInv, RulesNotOlder, Next PROVE ReadyInv'
<1>0. /\ TypeOK /\ net \in Network /\ net' \in Network /\ CopiesInv
      /\ net.gen \in Nat /\ net.og \in Nat /\ net.og =< net.gen /\ FinishRules'
  BY TypeNext, FinishRulesNext DEF Whole, Sound, TypeOK, Network, ReadyInv
<1>. SUFFICES /\ net'.og =< net'.gen
              /\ net'.phase = "live" /\ net'.og = net'.gen =>
                    /\ Complete(net')
                    /\ net'.policy # "Observe" =>
                          net'.cidrs \cup {"rke2"} \subseteq rules'[net'.res["sg"].id]
  BY <1>0 DEF ReadyInv, DoneIsTrue, Complete
<1>1. ASSUME net'.og = net.og, net'.gen = net.gen, SameSpec(net', net),
             net'.phase = "live" => net.phase = "live"
      PROVE  /\ net'.og =< net'.gen
             /\ net'.phase = "live" /\ net'.og = net'.gen =>
                    /\ Complete(net')
                    /\ net'.policy # "Observe" =>
                          net'.cidrs \cup {"rke2"} \subseteq rules'[net'.res["sg"].id]
  <2>. SUFFICES ASSUME net.phase = "live", net.og = net.gen
                PROVE  /\ Complete(net')
                       /\ net'.policy # "Observe" =>
                            net'.cidrs \cup {"rke2"} \subseteq rules'[net'.res["sg"].id]
    BY <1>0, <1>1
  <2>1. /\ \A k \in Kinds : net.res[k].id # NoId /\ net'.res[k].id = net.res[k].id
        /\ net.policy # "Observe" =>
              net.cidrs \cup {"rke2"} \subseteq rules'[net.res["sg"].id]
    BY DoneKept
  <2>. QED
    BY <1>1, <2>1 DEF Complete, SameSpec, Kinds
<1>2. CASE Edits
  <2>1. net'.gen = net.gen + 1 /\ net'.og = net.og
    BY <1>0, <1>2, EditFields DEF SameStatus
  <2>. QED
    BY <1>0, <2>1
<1>3. CASE Marks
  <2>1. /\ net'.phase # "live" /\ net'.og = net.og
        /\ net'.gen = net.gen \/ net'.gen = net.gen + 1
    BY <1>0, <1>3, DeletedFields DEF Marks, SameStatus
  <2>. QED
    BY <1>0, <2>1
<1>4. CASE Release
  <2>1. net'.phase = "absent" /\ net'.og = net.og /\ net'.gen = net.gen
    BY <1>0, <1>4 DEF Release, Network
  <2>. QED
    BY <1>0, <2>1
<1>5. CASE AddFinalizer
  <2>1. /\ net'.phase = net.phase /\ net'.og = net.og /\ net'.gen = net.gen
        /\ SameSpec(net', net)
    BY <1>0, <1>5 DEF AddFinalizer, Network, SameSpec
  <2>. QED
    BY <1>1, <2>1
<1>6. CASE StatusOnly /\ NamesSame
  BY <1>1, <1>6 DEF StatusOnly, NamesSame
<1>7. CASE StatusOnly /\ (Record \/ Claim \/ ForgetResource)
  <2>1. net'.og = net.og
    <3>1. \/ net' = net
          \/ \E new \in {Recorded, Claimed, Forgotten} : net' = MergeStatus(net, obj, new)
      BY <1>7 DEF Record, PatchThen, PatchStatus, Recorded, Claim, Claimed,
         ForgetResource, Forgotten
    <3>2. CASE \E new \in {Recorded, Claimed, Forgotten} : net' = MergeStatus(net, obj, new)
      <4>1. PICK new \in {Recorded, Claimed, Forgotten} : net' = MergeStatus(net, obj, new)
        BY <3>2
      <4>2. new \in Network /\ new.og = obj.og
        BY <1>0, PatchFacts
      <4>3. obj \in Network
        BY <1>0 DEF TypeOK
      <4>. QED
        BY <1>0, <4>1, <4>2, <4>3, MergeFields DEF Pick
    <3>. QED
      BY <3>1, <3>2
  <2>. QED
    BY <1>1, <1>7, <2>1 DEF StatusOnly
<1>8. CASE StatusOnly /\ Finish
  <2>1. CASE net'.og = net.og /\ net.og = net.gen
    BY <1>1, <1>8, <2>1 DEF StatusOnly
  <2>2. CASE net'.og # net.og \/ net.og # net.gen
    BY <1>8, <2>2, FinishTells
  <2>. QED
    BY <2>1, <2>2
<1>. QED
  BY <1>0, <1>2, <1>3, <1>4, <1>5, <1>6, <1>7, <1>8, ObjectSteps

(* A consumer that reads Ready for the current generation of a live object *)
(* finds every id, and every allowed CIDR in a group the controller rules, *)
(* whatever fails or restarts and however old the copies of the object are *)
(* that passes start from.  It needs that no pass comes to its rule calls  *)
(* with a spec older than the one the status was last published for: such  *)
(* a pass takes away rules of CIDRs that were allowed again meanwhile      *)
(* (EnsureSecurityGroup, the final patch of each policy).                  *)
THEOREM ReadyStaysTrue ==
    ASSUME Undisturbed PROVE Spec /\ []RulesNotOlder => []ReadyIsTrue
<1>1. Init => ReadyInv
  <2>. SUFFICES ASSUME Init PROVE ReadyInv
    OBVIOUS
  <2>1. PICK p, cs, b : net = NewNetwork(p, cs, b)
    BY DEF Init
  <2>2. net.og = 0 /\ net.gen = 1
    BY <2>1 DEF NewNetwork
  <2>. QED
    BY <2>2 DEF Init, ReadyInv, DoneIsTrue, FinishRules
<1>2. Whole /\ ReadyInv /\ RulesNotOlder /\ [Next]_vars => ReadyInv'
  <2>1. ASSUME ReadyInv, UNCHANGED vars PROVE ReadyInv'
    BY <2>1 DEF vars, ReadyInv, DoneIsTrue, FinishRules, RKE2Rules, Complete
  <2>. QED
    BY <2>1, ReadyNext
<1>3. Spec => []Whole
  BY WholeHolds
<1>4. ReadyInv => ReadyIsTrue
  BY DEF ReadyInv, DoneIsTrue, ReadyIsTrue
<1>. QED
  BY <1>1, <1>2, <1>3, <1>4, PTL DEF Spec

-----------------------------------------------------------------------------
(* Deletion waits for machines                                             *)

(* Every version of the object, and every answer of the cloud, has ids of  *)
(* its kinds.                                                              *)
OfKind(i, k) == i # NoId => i.kind = k
KindOK(n)    == \A k \in Kinds : OfKind(n.res[k].id, k)
KindInv ==
    /\ KindOK(net) /\ KindOK(seen.net) /\ KindOK(obj)
    /\ \A k \in Kinds : OfKind(got[k].id, k)

(* A server is attached to a subnet that exists.                           *)
ServerInv == vm.subnet # NoId => vm.subnet \in alive /\ vm.subnet.kind = "subnet"

MachinesInv == KindInv /\ ServerInv /\ WaitsForMachines

(* Ids come into the object from the pass's copy and the cloud's answers.  *)
LEMMA IdSources ==
    ASSUME TypeOK, Next, NEW k \in Kinds
    PROVE  net'.res[k].id \in {net.res[k].id, obj.res[k].id, got[k].id, NoId}
<1>0. /\ net \in Network /\ obj \in Network /\ kind \in Kinds
      /\ obj.res \in [Kinds -> ResourceStatus]
  BY DEF TypeOK, Network
<1>1. ASSUME NEW new \in Network, NEW x, x = MergeStatus(net, obj, new),
             new.res[k].id \in {obj.res[k].id, got[k].id, NoId}
      PROVE  x.res[k].id \in {net.res[k].id, obj.res[k].id, got[k].id, NoId}
  <2>1. x.res[k].id = Pick(net.res[k].id, obj.res[k].id, new.res[k].id)
    BY <1>1, MergePicks
  <2>. QED
    BY <1>1, <2>1 DEF Pick
<1>2. CASE NamesSame
  BY <1>2 DEF NamesSame
<1>3. CASE Record
  <2>1. net' = MergeStatus(net, obj, Recorded)
    BY <1>3 DEF Record, PatchThen, PatchStatus, Recorded
  <2>2. Recorded \in Network
    BY PatchFacts
  <2>3. Recorded.res[k].id \in {obj.res[k].id, got[k].id, NoId}
    BY <1>0, PatchFacts
  <2>. QED
    BY <1>1, <2>1, <2>2, <2>3
<1>4. CASE Claim
  <2>1. net' = MergeStatus(net, obj, Claimed)
    BY <1>4 DEF Claim, Claimed
  <2>2. Claimed \in Network
    BY PatchFacts
  <2>3. Claimed.res[k].id \in {obj.res[k].id, got[k].id, NoId}
    BY <1>0, PatchFacts DEF Observed
  <2>. QED
    BY <1>1, <2>1, <2>2, <2>3
<1>5. CASE ForgetResource
  <2>1. net' = net \/ net' = MergeStatus(net, obj, Forgotten)
    BY <1>5 DEF ForgetResource, Forgotten
  <2>2. Forgotten \in Network
    BY PatchFacts
  <2>3. Forgotten.res[k].id \in {obj.res[k].id, got[k].id, NoId}
    BY <1>0, PatchFacts DEF NoStatus
  <2>. QED
    BY <1>1, <2>1, <2>2, <2>3
<1>6. CASE Finish
  <2>1. PICK r : net' = [MergeStatus(net, obj, Finished) EXCEPT !.ready = r]
    BY <1>6, Zenon DEF Finish
  <2>. DEFINE m == MergeStatus(net, obj, Finished)
  <2>2. Finished \in Network /\ m \in Network
    BY <1>0, FinishedType, MergeFields
  <2>3. Finished.res[k].id \in {obj.res[k].id, got[k].id, NoId}
    <3>1. Finished.res = obj.res
          \/ Finished.res = [j \in Kinds |-> Observed(j, j = "sg" /\ route = "Hybrid")]
      BY <1>0 DEF Finished, FinishedWith, Network
    <3>. QED
      BY <3>1 DEF Observed
  <2>4. m.res[k].id \in {net.res[k].id, obj.res[k].id, got[k].id, NoId}
    BY <1>1, <2>2, <2>3
  <2>. HIDE DEF m
  <2>5. net'.res = m.res
    BY <2>1, <2>2 DEF m, Network
  <2>. QED
    BY <2>4, <2>5
<1>. QED
  BY <1>2, <1>3, <1>4, <1>5, <1>6, ObjectSteps

(* The cloud answers with resources of the kind that was asked for.        *)
LEMMA AnswerKinds ==
    ASSUME TypeOK, KindInv, Next, NEW k \in Kinds PROVE OfKind(got'[k].id, k)
<1>0. /\ kind \in Kinds /\ got \in [Kinds -> Resource]
      /\ OfKind(got[k].id, k) /\ KindOK(obj)
  BY DEF TypeOK, KindInv
<1>1. CASE got' = got \/ (\A j \in Kinds : got'[j].id = NoId)
  BY <1>0, <1>1 DEF OfKind
<1>2. CASE ~Fail /\ (EnsureKnown \/ EnsureFound \/ EnsureCreated)
  <2>1. PICK id, name : Ensured(kind, id, name) /\ OfKind(id, kind)
    <3>1. CASE EnsureKnown
      BY <1>0, <1>2, <3>1 DEF EnsureKnown, KindOK
    <3>2. CASE EnsureFound
      BY <1>2, <3>2 DEF EnsureFound, Found, OfKind
    <3>3. CASE EnsureCreated
      BY <1>0, <1>2, <3>3, KindFacts DEF EnsureCreated, OfKind
    <3>. QED
      BY <1>2, <3>1, <3>2, <3>3
  <2>2. got' = [got EXCEPT ![kind] = [id |-> id, name |-> name]]
    BY <2>1 DEF Ensured
  <2>. QED
    BY <1>0, <2>1, <2>2
<1>3. CASE ~Fail /\ Observe
  <2>1. got'[k].id \in {UserId(k), NoId}
    BY <1>3 DEF Observe, NoResource
  <2>. QED
    BY <2>1, KindFacts DEF OfKind
<1>4. CASE ~Fail /\ Adopt
  <2>1. got'[k].id = DriverId(k)
    BY <1>4 DEF Adopt
  <2>. QED
    BY <2>1, KindFacts DEF OfKind
<1>. QED
  BY <1>1, <1>2, <1>3, <1>4, AnswerSteps

(* Every step keeps ids of their kinds.                                    *)
LEMMA KindNext == ASSUME TypeOK, KindInv, Next PROVE KindInv'
<1>1. KindOK(net')
  BY IdSources DEF KindInv, KindOK, OfKind
<1>2. KindOK(seen'.net)
  BY SeenSteps DEF KindInv
<1>3. KindOK(obj')
  <2>1. KindOK(NoNetwork) /\ KindOK(NetView)
    BY NothingNamed DEF KindInv, KindOK, OfKind, NetView
  <2>2. obj' \in {obj, net', NoNetwork, NetView}
    BY PassSteps DEF Return, passVars, Begin, PassGoesOn, DeletionGoesOn
  <2>. QED
    BY <1>1, <2>1, <2>2 DEF KindInv
<1>4. \A k \in Kinds : OfKind(got'[k].id, k)
  BY AnswerKinds
<1>5. KindOK(net)' = KindOK(net') /\ KindOK(seen.net)' = KindOK(seen'.net)
      /\ KindOK(obj)' = KindOK(obj')
  BY DEF KindOK, OfKind
<1>. QED
  BY <1>1, <1>2, <1>3, <1>4, <1>5 DEF KindInv, OfKind

(* Only a pass gets itself to verifying and deleting.                      *)
LEMMA DeletionReached ==
    ASSUME Next, pc' \in {"verify", "delete"}
    PROVE  Drained \/ (Verify /\ ~Fail) \/ UNCHANGED passVars
<1>1. CASE Return
  BY <1>1 DEF Return
<1>2. CASE QuietStep
  BY <1>2, QuietSame
<1>3. CASE \/ EditPolicy \/ EditCIDRs \/ EditName \/ UserDelete \/ GarbageCollect
  BY <1>3 DEF EditPolicy, EditCIDRs, EditName, Edit, UserDelete, GarbageCollect
<1>4. CASE \/ Begin \/ AddFinalizer \/ ClusterNotFound \/ AddOwner \/ ClusterFound
           \/ ClusterBound \/ DeleteOrphan \/ Authorize \/ Refuse
  BY <1>1, <1>4 DEF Begin, FirstCall, AddFinalizer, ClusterNotFound, AfterBind,
     AddOwner, ClusterFound, ClusterBound, DeleteOrphan, Authorize, PolicyCall,
     Refuse, Fail
<1>5. CASE \/ OwnershipToken \/ EnsureKnown \/ EnsureFound \/ EnsureCreated
           \/ Record \/ EnsureRules \/ EnsureRulesFails \/ Finish \/ Observe
           \/ Adopt \/ Claim
  BY <1>1, <1>5 DEF OwnershipToken, PatchThen, EnsureKnown, EnsureFound,
     EnsureCreated, Ensured, CallAfter, Record, EnsureRules, EnsureRulesFails,
     Finish, Observe, Adopt, Claim, Fail
<1>6. CASE \/ Wait \/ Drained \/ Verify \/ DeleteResource \/ ForgetResource
           \/ Release \/ CallFails \/ Crash
  BY <1>1, <1>6 DEF Wait, Drained, Verify, DeleteResource, ForgetResource,
     Release, CallFails, Crash, Fail
<1>. QED
  BY <1>2, <1>3, <1>4, <1>5, <1>6, StepGroups

(* The subnet an object owns is the one it has under that kind.            *)
LEMMA ManagedOfKind ==
    ASSUME KindInv, NEW i \in ManagedIds(obj), i.kind = "subnet"
    PROVE  "subnet" \in Remaining(obj) /\ i = obj.res["subnet"].id
<1>1. PICK k \in Kinds : obj.res[k].managed /\ i = obj.res[k].id /\ i # NoId
  BY DEF ManagedIds
<1>2. OfKind(obj.res[k].id, k)
  BY DEF KindInv, KindOK
<1>. QED
  BY <1>1, <1>2 DEF OfKind, Remaining

(* A resource that is deleted has no server in it.                         *)
LEMMA ServersKeep ==
    ASSUME ServerInv, Next, DeleteResource \/ Vanish PROVE ServerInv'
<1>1. vm' = vm
  BY DEF DeleteResource, Vanish, Gone, cloudVars
<1>2. CASE alive' = alive
  BY <1>1, <1>2 DEF ServerInv
<1>3. CASE \E i : ~InUse(i) /\ i \in alive /\ alive' = alive \ {i}
  BY <1>1, <1>3 DEF ServerInv, InUse, AttachedPorts
<1>4. DeleteResource => alive' = alive \/ \E i : ~InUse(i) /\ i \in alive /\ alive' = alive \ {i}
  BY DEF DeleteResource, Gone, cloudVars
<1>5. Vanish => \E i : ~InUse(i) /\ i \in alive /\ alive' = alive \ {i}
  BY DEF Vanish, Gone
<1>. QED
  BY <1>2, <1>3, <1>4, <1>5

(* Every step keeps a server's subnet.                                     *)
LEMMA ServerNext ==
    ASSUME TypeOK, KindInv, ServerInv, Next PROVE ServerInv'
<1>0. /\ alive \subseteq Ids /\ NoId \notin Ids
      /\ OfKind(net.res["subnet"].id, "subnet")
  BY IdFacts DEF TypeOK, KindInv, KindOK, Kinds
<1>1. CASE MachineBoots
  <2>1. vm'.subnet = net.res["subnet"].id /\ net.res["subnet"].id \in alive /\ alive' = alive
    BY <1>1 DEF MachineBoots
  <2>. QED
    BY <1>0, <2>1 DEF ServerInv, OfKind
<1>2. CASE MachineBootsOnOwnNetwork
  BY <1>2 DEF MachineBootsOnOwnNetwork, ServerInv, DriverId, DriverIds, Kinds
<1>3. CASE RemoveMachine \/ ServerGone
  BY <1>3 DEF RemoveMachine, ServerGone, ServerInv, NoVM
<1>4. CASE DeleteResource \/ Vanish
  BY <1>4, ServersKeep
<1>5. CASE EnsureCreated
  <2>1. alive \subseteq alive' /\ vm' = vm
    BY <1>5 DEF EnsureCreated, cloudVars
  <2>. QED
    BY <2>1 DEF ServerInv
<1>6. CASE vm' = vm /\ (UNCHANGED alive \/ Rename)
  BY <1>6 DEF Rename, ServerInv
<1>7. vm' = vm \/ MachineBoots \/ MachineBootsOnOwnNetwork \/ RemoveMachine \/ ServerGone
  BY CloudCalls DEF AddMachine, cloudVars
<1>. QED
  BY <1>1, <1>2, <1>3, <1>4, <1>5, <1>6, <1>7, CloudCalls

(* Every step keeps deletion waiting.                                      *)
LEMMA MachinesNext ==
    ASSUME "machines" \notin Lagging
    PROVE  TypeOK /\ CopiesInv /\ MachinesInv /\ [Next]_vars => MachinesInv'
<1>1. ASSUME TypeOK, CopiesInv, MachinesInv, Next PROVE WaitsForMachines'
  <2>. DEFINE Clear == late \/ (machines = "none" /\ vm.subnet \notin ManagedIds(obj))
  <2>. SUFFICES ASSUME pc' \in {"verify", "delete"} PROVE Clear'
    BY DEF WaitsForMachines
  <2>1. CASE Drained
    <3>1. /\ pc = "drain" /\ machines = "none" /\ ~PortsGate(obj)
          /\ UNCHANGED <<obj, machines, vm>>
      BY <2>1 DEF Drained, MachineView, envVars, cloudVars
    <3>2. vm.subnet \notin ManagedIds(obj)
      <4>. SUFFICES ASSUME vm.subnet \in ManagedIds(obj) PROVE FALSE
        OBVIOUS
      <4>1. vm.subnet # NoId
        BY DEF ManagedIds
      <4>2. vm.subnet \in alive /\ vm.subnet.kind = "subnet"
        BY <1>1, <4>1 DEF MachinesInv, ServerInv
      <4>3. "subnet" \in Remaining(obj) /\ vm.subnet = obj.res["subnet"].id
        BY <1>1, <4>2, ManagedOfKind DEF MachinesInv
      <4>. QED
        BY <3>1, <4>2, <4>3 DEF PortsGate, AttachedPorts
    <3>. QED
      BY <3>1, <3>2
  <2>2. CASE Verify /\ ~Fail
    <3>1. pc = "verify" /\ UNCHANGED <<obj, machines, vm, late>>
      BY <2>2 DEF Verify, envVars, cloudVars
    <3>. QED
      BY <1>1, <3>1 DEF MachinesInv, WaitsForMachines
  <2>3. CASE UNCHANGED passVars
    <3>1. pc \in {"verify", "delete"} /\ obj' = obj /\ net.phase # "live" /\ Clear
      BY <1>1, <2>3 DEF passVars, CopiesInv, Older, NetView, DeletionCalls, MachinesInv,
         WaitsForMachines
    <3>2. CASE UNCHANGED <<machines, late, vm>>
      BY <3>1, <3>2
    <3>3. CASE AddMachine
      BY <1>1, <3>1, <3>3 DEF AddMachine, TypeOK, Network
    <3>4. CASE MachineBoots \/ MachineBootsOnOwnNetwork
      BY <3>1, <3>4 DEF MachineBoots, MachineBootsOnOwnNetwork
    <3>5. CASE RemoveMachine \/ ServerGone
      <4>1. NoVM.subnet \notin ManagedIds(obj)
        BY DEF NoVM, ManagedIds
      <4>2. late' = late /\ machines' = "none" /\ vm' \in {vm, NoVM}
        BY <3>5 DEF RemoveMachine, ServerGone, envVars
      <4>. QED
        BY <3>1, <4>1, <4>2
    <3>. QED
      BY <1>1, <3>2, <3>3, <3>4, <3>5, CloudCalls
  <2>. QED
    BY <1>1, <2>1, <2>2, <2>3, DeletionReached
<1>2. ASSUME TypeOK, MachinesInv, Next PROVE KindInv' /\ ServerInv'
  BY <1>2, KindNext, ServerNext DEF MachinesInv
<1>3. ASSUME MachinesInv, UNCHANGED vars PROVE MachinesInv'
  BY <1>3 DEF vars, MachinesInv, KindInv, KindOK, OfKind, ServerInv, WaitsForMachines,
     ManagedIds
<1>. QED
  BY <1>1, <1>2, <1>3 DEF MachinesInv

(* A pass gets to verifying and deleting resources only when no machine    *)
(* object and no server in the managed subnet is left, other than those of *)
(* a machine created after the deletion began, for any edits, renamed or   *)
(* lost resources, failed calls and restarts and however old the copies of *)
(* the object are (machineCount, AttachedPorts).  The machines themselves  *)
(* are listed from the API server: they are unstructured, and main.go does *)
(* not set the manager's client up to cache those.                         *)
THEOREM DeletionWaits ==
    ASSUME "machines" \notin Lagging PROVE Spec => []WaitsForMachines
<1>1. Init => TypeOK /\ CopiesInv /\ MachinesInv
  <2>. SUFFICES ASSUME Init PROVE MachinesInv
    BY TypeInit, CopiesInit
  <2>1. PICK p, cs, b : net = NewNetwork(p, cs, b)
    BY DEF Init
  <2>2. /\ \A k \in Kinds : net.res[k].id = NoId
        /\ seen.net = net /\ obj = NoNetwork /\ got = NothingGot
    BY <2>1 DEF Init, NewNetwork, NoStatus
  <2>3. KindInv
    BY <2>2, NothingNamed DEF KindInv, KindOK, OfKind, NothingGot, NoResource
  <2>. QED
    BY <2>3 DEF Init, MachinesInv, ServerInv, WaitsForMachines, NoVM
<1>2. TypeOK /\ CopiesInv /\ MachinesInv /\ [Next]_vars => (TypeOK /\ CopiesInv /\ MachinesInv)'
  BY TypeNext, CopiesNext, MachinesNext
<1>3. MachinesInv => WaitsForMachines
  BY DEF MachinesInv
<1>. QED
  BY <1>1, <1>2, <1>3, PTL DEF Spec

=============================================================================
