-------------------------- MODULE NetworkPassProofs --------------------------
(***************************************************************************)
(* What a pass may rely on however old the copy of the object is that it   *)
(* started from: how the copies in the cache and in the pass relate to the *)
(* object, and what each call of a pass finds.  The theorems of            *)
(* NetworkOwnedProofs, NetworkReadyProofs and NetworkLifecycleProofs rest  *)
(* on the two inductive invariants of this module, CopiesInv and PassInv.  *)
(***************************************************************************)
EXTENDS NetworkReconcilerProofs

(* Edits of the policy to Abandon.                                         *)
AbandonOnly == {e \in Policies \X Policies : e[2] = "Abandon"}

(* They keep the kind of ownership.                                        *)
LEMMA AbandonIsSafe == AbandonOnly \subseteq SafeEdits
BY DEF AbandonOnly, SafeEdits

-----------------------------------------------------------------------------
(* What a step may do to the object                                        *)

(* The fields of the spec that a pass decides on.                          *)
SameSpec(a, b) == a.policy = b.policy /\ a.cidrs = b.cidrs /\ a.base = b.base

(* The fields that only a pass writes.                                     *)
SameStatus(a, b) ==
    /\ a.fin = b.fin /\ a.clusterUID = b.clusterUID /\ a.token = b.token
    /\ a.res = b.res /\ a.applied = b.applied /\ a.og = b.og /\ a.ready = b.ready

(* A merge patch touches the status only, field by field.                  *)
LEMMA MergeFields ==
    ASSUME NEW n \in Network, NEW b \in Network, NEW m \in Network
    PROVE  LET x == MergeStatus(n, b, m) IN
           /\ x \in Network
           /\ x.phase = n.phase /\ x.fin = n.fin /\ x.gen = n.gen
           /\ SameSpec(x, n) /\ x.ready = n.ready
           /\ x.og = Pick(n.og, b.og, m.og)
           /\ \A k \in Kinds :
                /\ x.res[k].id = Pick(n.res[k].id, b.res[k].id, m.res[k].id)
                /\ x.res[k].managed =
                      Pick(n.res[k].managed, b.res[k].managed, m.res[k].managed)
           /\ m.res = b.res => x.res = n.res
<1>. DEFINE r == [k \in Kinds |->
            [id |-> Pick(n.res[k].id, b.res[k].id, m.res[k].id),
             name |-> Pick(n.res[k].name, b.res[k].name, m.res[k].name),
             managed |-> Pick(n.res[k].managed, b.res[k].managed,
                              m.res[k].managed)]]
            x == MergeStatus(n, b, m)
<1>1. x \in Network
  BY MergeType
<1>2. x = [n EXCEPT
            !.clusterUID = Pick(n.clusterUID, b.clusterUID, m.clusterUID),
            !.token = Pick(n.token, b.token, m.token),
            !.res = r,
            !.applied = Pick(n.applied, b.applied, m.applied),
            !.og = Pick(n.og, b.og, m.og)]
  BY DEF MergeStatus, r
<1>3. /\ x.phase = n.phase /\ x.fin = n.fin /\ x.gen = n.gen
      /\ x.policy = n.policy /\ x.cidrs = n.cidrs /\ x.base = n.base
      /\ x.ready = n.ready /\ x.og = Pick(n.og, b.og, m.og) /\ x.res = r
  <2>. HIDE DEF r, x
  <2>. QED
    BY <1>2 DEF Network
<1>4. \A k \in Kinds :
        /\ x.res[k].id = Pick(n.res[k].id, b.res[k].id, m.res[k].id)
        /\ x.res[k].managed = Pick(n.res[k].managed, b.res[k].managed, m.res[k].managed)
  BY <1>3
<1>5. ASSUME m.res = b.res PROVE x.res = n.res
  <2>1. n.res \in [Kinds -> ResourceStatus]
    BY DEF Network
  <2>2. ASSUME NEW k \in Kinds PROVE r[k] = n.res[k]
    <3>1. r[k] = [id |-> n.res[k].id, name |-> n.res[k].name,
                  managed |-> n.res[k].managed]
      BY <1>5 DEF Pick
    <3>2. n.res[k] \in ResourceStatus
      BY <2>1
    <3>. QED
      BY <3>1, <3>2 DEF ResourceStatus
  <2>. QED
    BY <1>3, <2>1, <2>2
<1>. HIDE DEF x
<1>6. SameSpec(x, n)
  BY <1>3 DEF SameSpec
<1>7. /\ x \in Network
      /\ x.phase = n.phase /\ x.fin = n.fin /\ x.gen = n.gen
      /\ SameSpec(x, n) /\ x.ready = n.ready
      /\ x.og = Pick(n.og, b.og, m.og)
      /\ \A k \in Kinds :
           /\ x.res[k].id = Pick(n.res[k].id, b.res[k].id, m.res[k].id)
           /\ x.res[k].managed = Pick(n.res[k].managed, b.res[k].managed, m.res[k].managed)
      /\ m.res = b.res => x.res = n.res
  BY <1>1, <1>3, <1>4, <1>5, <1>6
<1>. QED
  BY <1>7 DEF x

(* What a patch makes of the status of a resource.                         *)
LEMMA MergePicks ==
    ASSUME TypeOK, NEW new \in Network, NEW x, x = MergeStatus(net, obj, new)
    PROVE  \A k \in Kinds :
              /\ x.res[k].id = Pick(net.res[k].id, obj.res[k].id, new.res[k].id)
              /\ x.res[k].managed =
                    Pick(net.res[k].managed, obj.res[k].managed, new.res[k].managed)
<1>1. net \in Network /\ obj \in Network
  BY DEF TypeOK
<1>. QED
  BY <1>1, MergeFields

(* The deletion mark changes the phase, and the generation with it.        *)
LEMMA DeletedFields ==
    ASSUME NEW n \in Network
    PROVE  LET m == MarkDeleted(n) IN
           /\ SameStatus(m, n) /\ SameSpec(m, n)
           /\ n.fin => m.phase = "deleting" /\ m.gen = n.gen + 1
           /\ ~n.fin => m.phase = "absent" /\ m.gen = n.gen
<1>1. CASE n.fin
  BY <1>1 DEF MarkDeleted, SameStatus, SameSpec, Network
<1>2. CASE ~n.fin
  BY <1>2 DEF MarkDeleted, SameStatus, SameSpec, Network
<1>. QED
  BY <1>1, <1>2

(* fail writes Ready or nothing.                                           *)
LEMMA FailNet ==
    ASSUME TypeOK, Fail
    PROVE  net' = net \/ (net.phase # "absent" /\ net' = [net EXCEPT !.ready = FALSE])
<1>1. CASE net.phase = "absent"
  BY <1>1 DEF Fail
<1>2. CASE net.phase # "absent"
  <2>1. PICK r \in WrittenReady(FALSE) : net' = [net EXCEPT !.ready = r]
    BY <1>2, Zenon DEF Fail
  <2>2. r = FALSE \/ r = net.ready
    BY <2>1 DEF WrittenReady
  <2>3. [net EXCEPT !.ready = net.ready] = net
    BY DEF TypeOK, Network
  <2>. QED
    BY <1>2, <2>1, <2>2, <2>3
<1>. QED
  BY <1>1, <1>2

(* The status that a successful pass publishes is for the copy's spec.     *)
LEMMA FinishedType ==
    ASSUME TypeOK
    PROVE  Finished \in Network /\ Finished.og = obj.gen
<1>1. [k \in Kinds |-> Observed(k, k = "sg" /\ route = "Hybrid")]
            \in [Kinds -> ResourceStatus]
  BY DEF TypeOK, Observed, ResourceStatus, Resource
<1>2. /\ obj.gen \in Nat /\ obj.applied \in SUBSET CIDRs /\ obj \in Network
      /\ obj.cidrs \in SUBSET CIDRs /\ obj.res \in [Kinds -> ResourceStatus]
  BY DEF TypeOK, Network
<1>3. Finished \in Network
  BY <1>1, <1>2, EditType DEF Finished, FinishedWith
<1>4. Finished.og = obj.gen
  BY <1>2 DEF Finished, FinishedWith, Network
<1>. QED
  BY <1>3, <1>4

(* The patch of Record.                                                    *)
Recorded == [obj EXCEPT !.res[kind] = [id |-> got[kind].id, name |-> got[kind].name,
                                       managed |-> TRUE]]
(* The patch of Claim.                                                     *)
Claimed == [obj EXCEPT !.token = TRUE, !.res = [k \in Kinds |-> Observed(k, TRUE)]]
(* The patch of ForgetResource.                                            *)
Forgotten == [obj EXCEPT !.res[kind] = NoStatus]

(* They are well typed and change what they say.                           *)
LEMMA PatchFacts ==
    ASSUME TypeOK
    PROVE  /\ Recorded \in Network /\ Recorded.og = obj.og
           /\ Claimed \in Network /\ Claimed.og = obj.og
           /\ Forgotten \in Network /\ Forgotten.og = obj.og
           /\ [obj EXCEPT !.token = TRUE] \in Network
           /\ [obj EXCEPT !.token = TRUE].og = obj.og
           /\ [obj EXCEPT !.token = TRUE].res = obj.res
           /\ Recorded.res = [obj.res EXCEPT ![kind] =
                [id |-> got[kind].id, name |-> got[kind].name, managed |-> TRUE]]
           /\ Claimed.res = [k \in Kinds |-> Observed(k, TRUE)]
           /\ Forgotten.res = [obj.res EXCEPT ![kind] = NoStatus]
<1>0. /\ obj \in Network /\ kind \in Kinds
      /\ got \in [Kinds -> Resource]
  BY DEF TypeOK
<1>1. [id |-> got[kind].id, name |-> got[kind].name, managed |-> TRUE]
          \in ResourceStatus
  BY <1>0 DEF ResourceStatus, Resource
<1>2. [k \in Kinds |-> Observed(k, TRUE)] \in [Kinds -> ResourceStatus]
  BY <1>0 DEF Observed, ResourceStatus, Resource
<1>3. /\ Recorded \in Network /\ Claimed \in Network /\ Forgotten \in Network
      /\ [obj EXCEPT !.token = TRUE] \in Network
  BY <1>0, <1>1, <1>2, EditType, StatusFacts DEF Recorded, Claimed, Forgotten
<1>4. /\ Recorded.og = obj.og /\ Claimed.og = obj.og /\ Forgotten.og = obj.og
      /\ [obj EXCEPT !.token = TRUE].og = obj.og
      /\ [obj EXCEPT !.token = TRUE].res = obj.res
  BY <1>0 DEF Recorded, Claimed, Forgotten, Network
<1>5. /\ Recorded.res = [obj.res EXCEPT ![kind] =
            [id |-> got[kind].id, name |-> got[kind].name, managed |-> TRUE]]
      /\ Claimed.res = [k \in Kinds |-> Observed(k, TRUE)]
      /\ Forgotten.res = [obj.res EXCEPT ![kind] = NoStatus]
  BY <1>0 DEF Recorded, Claimed, Forgotten, Network
<1>. QED
  BY <1>3, <1>4, <1>5

(* The rest of the world, which leaves the object and the pass alone.      *)
QuietStep ==
    \/ CreateCluster \/ DeleteCluster \/ AddMachine \/ MachineBoots
    \/ MachineBootsOnOwnNetwork \/ RemoveMachine \/ ServerGone \/ TimePasses
    \/ SyncNetwork \/ SyncCluster \/ SyncMachines \/ Rename \/ Vanish

(* It does.                                                                *)
LEMMA QuietSame == ASSUME QuietStep PROVE net' = net /\ UNCHANGED passVars
BY DEF QuietStep, CreateCluster, DeleteCluster, AddMachine, MachineBoots,
       MachineBootsOnOwnNetwork, RemoveMachine, ServerGone, TimePasses,
       SyncNetwork, SyncCluster, SyncMachines, Rename, Vanish, apiVars

(* The steps of Next, grouped the way the proofs treat them.               *)
LEMMA StepGroups ==
    ASSUME Next
    PROVE  \/ \/ Begin \/ AddFinalizer \/ ClusterNotFound \/ AddOwner \/ ClusterFound
              \/ ClusterBound \/ DeleteOrphan \/ Authorize \/ Refuse
           \/ \/ OwnershipToken \/ EnsureKnown \/ EnsureFound \/ EnsureCreated
              \/ Record \/ EnsureRules \/ EnsureRulesFails
              \/ Finish \/ Observe \/ Adopt \/ Claim
           \/ \/ Wait \/ Drained \/ Verify \/ DeleteResource \/ ForgetResource
              \/ Release \/ CallFails \/ Crash
           \/ EditPolicy \/ EditCIDRs \/ EditName
           \/ UserDelete \/ GarbageCollect
           \/ QuietStep
BY DEF Next, PassStep, FaultStep, WorldStep, QuietStep

(* What a step may do to the cloud.                                        *)
LEMMA CloudCalls ==
    ASSUME Next
    PROVE  /\ \/ UNCHANGED <<alive, made, cname, parent>>
              \/ EnsureCreated \/ DeleteResource \/ MachineBootsOnOwnNetwork
              \/ Vanish \/ Rename
           /\ UNCHANGED rules \/ EnsureRules \/ EnsureRulesFails \/ DeleteResource
              \/ Vanish
           /\ UNCHANGED <<machines, late, vm>> \/ AddMachine \/ MachineBoots
              \/ MachineBootsOnOwnNetwork \/ RemoveMachine \/ ServerGone
<1>1. CASE UNCHANGED <<cloudVars, machines, late>>
  BY <1>1 DEF cloudVars
<1>2. CASE EnsureRules \/ EnsureRulesFails
  BY <1>2 DEF EnsureRules, EnsureRulesFails, envVars
<1>3. CASE \/ EnsureCreated \/ DeleteResource
  BY <1>3 DEF EnsureCreated, DeleteResource, Gone, cloudVars, envVars
<1>4. CASE \/ Begin \/ AddFinalizer \/ ClusterNotFound \/ AddOwner \/ ClusterFound
           \/ ClusterBound \/ DeleteOrphan \/ Authorize \/ Refuse
           \/ OwnershipToken \/ EnsureKnown \/ EnsureFound
           \/ Record \/ Finish \/ Observe \/ Adopt \/ Claim
  BY <1>1, <1>4 DEF Begin, AddFinalizer, ClusterNotFound, AddOwner, ClusterFound,
     ClusterBound, DeleteOrphan, Authorize, Refuse, OwnershipToken, EnsureKnown,
     EnsureFound, Record, Finish, Observe, Adopt, Claim, envVars
<1>5. CASE \/ Wait \/ Drained \/ Verify \/ ForgetResource
           \/ Release \/ CallFails \/ Crash
           \/ EditPolicy \/ EditCIDRs \/ EditName
           \/ UserDelete \/ GarbageCollect
  BY <1>1, <1>5 DEF Wait, Drained, Verify, ForgetResource, Release, CallFails,
     Crash, EditPolicy, EditCIDRs, EditName, Edit, UserDelete, GarbageCollect,
     envVars
<1>6. CASE QuietStep
  BY <1>6 DEF QuietStep, CreateCluster, DeleteCluster, AddMachine,
     MachineBoots, MachineBootsOnOwnNetwork, RemoveMachine, ServerGone, TimePasses,
     SyncNetwork, SyncCluster, SyncMachines, Rename, Vanish, Gone, cloudVars, envVars
<1>. QED
  BY <1>2, <1>3, <1>4, <1>5, <1>6, StepGroups

-----------------------------------------------------------------------------
(* What a step of Next does to object, cache and pass                      *)

(* A step that leaves finalizer, deletion mark and spec alone.             *)
StatusOnly ==
    /\ net'.phase = net.phase /\ net'.fin = net.fin /\ net'.gen = net.gen
    /\ SameSpec(net', net)

(* A step that leaves the names and the observed generation alone.         *)
NamesSame == net'.res = net.res /\ net'.og = net.og

Edits == EditPolicy \/ EditCIDRs \/ EditName

Marks == /\ UserDelete \/ GarbageCollect \/ DeleteOrphan
         /\ net.phase = "live" /\ net' = MarkDeleted(net)

(* An edit changes the spec, and the generation with it.                   *)
LEMMA EditFields ==
    ASSUME TypeOK, Edits
    PROVE  /\ net.phase # "absent" /\ net'.phase = net.phase
           /\ SameStatus(net', net) /\ net'.gen = net.gen + 1
           /\ PolicyEdits \subseteq AbandonOnly => net'.policy \in {net.policy, "Abandon"}
           /\ UNCHANGED <<seen, passVars, cloudVars, envVars>>
<1>0. net \in Network
  BY DEF TypeOK
<1>1. CASE EditPolicy
  <2>1. PICK p \in Policies : <<net.policy, p>> \in PolicyEdits
                              /\ Edit([net EXCEPT !.policy = p])
    BY <1>1 DEF EditPolicy
  <2>2. PolicyEdits \subseteq AbandonOnly => p = "Abandon"
    BY <2>1 DEF AbandonOnly
  <2>. QED
    BY <1>0, <2>1, <2>2 DEF Edit, Network, SameStatus
<1>2. CASE EditCIDRs
  <2>1. PICK cs : Edit([net EXCEPT !.cidrs = cs])
    BY <1>2 DEF EditCIDRs
  <2>. QED
    BY <1>0, <2>1 DEF Edit, Network, SameStatus
<1>3. CASE EditName
  <2>1. PICK b : Edit([net EXCEPT !.base = b])
    BY <1>3 DEF EditName
  <2>. QED
    BY <1>0, <2>1 DEF Edit, Network, SameStatus
<1>. QED
  BY <1>1, <1>2, <1>3 DEF Edits

(* A step that writes Ready, or nothing.                                   *)
LEMMA ReadyOnly ==
    ASSUME TypeOK, net' = net \/ \E r : net' = [net EXCEPT !.ready = r]
    PROVE  StatusOnly /\ NamesSame
<1>0. net \in Network
  BY DEF TypeOK
<1>1. CASE net' = net
  BY <1>1 DEF StatusOnly, NamesSame, SameSpec
<1>2. CASE \E r : net' = [net EXCEPT !.ready = r]
  <2>1. PICK r : net' = [net EXCEPT !.ready = r]
    BY <1>2
  <2>. QED
    BY <1>0, <2>1 DEF StatusOnly, NamesSame, SameSpec, Network
<1>. QED
  BY <1>1, <1>2

(* setCondition and fail are such steps.                                   *)
LEMMA SetConditionReady ==
    ASSUME TypeOK, setCondition
    PROVE  StatusOnly /\ NamesSame /\ (obj' = obj \/ obj' = net')
<1>1. CASE ConditionWritten
  <2>1. \E r : net' = [net EXCEPT !.ready = r]
    BY <1>1, Zenon DEF ConditionWritten
  <2>. QED
    BY <1>1, <2>1, ReadyOnly DEF ConditionWritten
<1>2. CASE ConditionNotWritten
  BY <1>2, ReadyOnly DEF ConditionNotWritten
<1>. QED
  BY <1>1, <1>2 DEF setCondition

(* fail is one too.                                                        *)
LEMMA FailReady == ASSUME TypeOK, Fail PROVE StatusOnly /\ NamesSame /\ Return
<1>1. net' = net \/ \E r : net' = [net EXCEPT !.ready = r]
  BY FailNet
<1>. QED
  BY <1>1, ReadyOnly DEF Fail

(* A patch of the status.                                                  *)
LEMMA PatchOnly ==
    ASSUME TypeOK, NEW new \in Network, net' = MergeStatus(net, obj, new)
    PROVE  StatusOnly /\ (new.res = obj.res /\ new.og = obj.og => NamesSame)
<1>0. net \in Network /\ obj \in Network
  BY DEF TypeOK
<1>1. /\ net'.phase = net.phase /\ net'.fin = net.fin /\ net'.gen = net.gen
      /\ SameSpec(net', net) /\ net'.og = Pick(net.og, obj.og, new.og)
      /\ new.res = obj.res => net'.res = net.res
  BY <1>0, MergeFields
<1>. QED
  BY <1>1 DEF StatusOnly, NamesSame, Pick

(* The object changes its names, its phase or its spec only so.            *)
LEMMA ObjectSteps ==
    ASSUME TypeOK, Next
    PROVE  /\ NamesSame \/ Record \/ Claim \/ Finish \/ ForgetResource
           /\ StatusOnly \/ AddFinalizer \/ Edits \/ Marks \/ Release
<1>0. net \in Network /\ obj \in Network
  BY DEF TypeOK
<1>1. CASE net' = net
  BY <1>1, ReadyOnly
<1>2. CASE Fail
  BY <1>2, FailReady
<1>3. CASE UserDelete \/ GarbageCollect \/ DeleteOrphan
  <2>1. net' = net \/ (net.phase = "live" /\ net' = MarkDeleted(net))
    BY <1>3 DEF UserDelete, GarbageCollect, DeleteOrphan
  <2>2. net' = MarkDeleted(net) => NamesSame
    BY <1>0, DeletedFields DEF NamesSame, SameStatus
  <2>. QED
    BY <1>1, <1>3, <2>1, <2>2 DEF Marks
<1>4. CASE Edits
  BY <1>4, EditFields DEF NamesSame, SameStatus
<1>5. CASE QuietStep
  BY <1>1, <1>5, QuietSame
<1>6. CASE AddFinalizer
  BY <1>0, <1>6 DEF AddFinalizer, NamesSame, Network
<1>7. CASE AddOwner
  BY <1>0, <1>7 DEF AddOwner, StatusOnly, NamesSame, SameSpec, Network
<1>8. CASE ClusterNotFound \/ ClusterBound \/ Authorize
  BY <1>8, SetConditionReady DEF ClusterNotFound, ClusterBound, Authorize
<1>9. CASE ClusterFound
  <2>1. CASE obj.clusterUID = ClusterView
    BY <1>1, <1>9, <2>1 DEF ClusterFound
  <2>2. CASE obj.clusterUID # ClusterView
    <3>. DEFINE new == [obj EXCEPT !.clusterUID = ClusterView]
    <3>1. new \in Network
      BY <1>0, ViewType, EditType
    <3>2. new.og = obj.og /\ new.res = obj.res
      BY <1>0 DEF Network
    <3>3. net' = MergeStatus(net, obj, new)
      BY <1>9, <2>2 DEF ClusterFound, PatchStatus
    <3>. HIDE DEF new
    <3>. QED
      BY <3>1, <3>2, <3>3, PatchOnly
  <2>. QED
    BY <2>1, <2>2
<1>10. CASE OwnershipToken
  <2>. DEFINE new == [obj EXCEPT !.token = TRUE]
  <2>1. net' = MergeStatus(net, obj, new)
    BY <1>10 DEF OwnershipToken, PatchThen, PatchStatus
  <2>2. new \in Network /\ new.og = obj.og /\ new.res = obj.res
    BY PatchFacts
  <2>. HIDE DEF new
  <2>. QED
    BY <2>1, <2>2, PatchOnly
<1>11. CASE Record
  <2>1. net' = MergeStatus(net, obj, Recorded)
    BY <1>11 DEF Record, PatchThen, PatchStatus, Recorded
  <2>. QED
    BY <1>11, <2>1, PatchFacts, PatchOnly
<1>12. CASE Claim
  <2>1. net' = MergeStatus(net, obj, Claimed)
    BY <1>12 DEF Claim, Claimed
  <2>. QED
    BY <1>12, <2>1, PatchFacts, PatchOnly
<1>13. CASE ForgetResource
  <2>1. net' = net \/ net' = MergeStatus(net, obj, Forgotten)
    BY <1>13 DEF ForgetResource, Forgotten
  <2>. QED
    BY <1>1, <1>13, <2>1, PatchFacts, PatchOnly
<1>14. CASE Finish
  <2>1. PICK r : net' = [MergeStatus(net, obj, Finished) EXCEPT !.ready = r]
    BY <1>14, Zenon DEF Finish
  <2>. DEFINE m == MergeStatus(net, obj, Finished)
  <2>2. /\ m \in Network /\ m.phase = net.phase /\ m.fin = net.fin /\ m.gen = net.gen
        /\ SameSpec(m, net)
    BY <1>0, FinishedType, MergeFields
  <2>. HIDE DEF m
  <2>3. /\ net'.phase = m.phase /\ net'.fin = m.fin /\ net'.gen = m.gen
        /\ SameSpec(net', m)
    BY <2>1, <2>2 DEF m, Network, SameSpec
  <2>4. StatusOnly
    BY <2>2, <2>3 DEF StatusOnly, SameSpec
  <2>. QED
    BY <1>14, <2>4
<1>15. CASE Wait
  <2>1. net' = net \/ \E r : net' = [net EXCEPT !.ready = r]
    BY <1>15, Zenon DEF Wait
  <2>. QED
    BY <2>1, ReadyOnly
<1>16. CASE Release
  BY <1>0, <1>16 DEF Release, NamesSame, Network
<1>17. CASE \/ Begin \/ Refuse \/ EnsureKnown \/ EnsureFound \/ EnsureCreated
            \/ EnsureRules \/ EnsureRulesFails \/ Observe \/ Adopt
            \/ Drained \/ Verify \/ DeleteResource \/ CallFails \/ Crash
  <2>1. net' = net \/ Fail
    BY <1>17 DEF Begin, Refuse, EnsureKnown, EnsureFound, EnsureCreated,
       EnsureRules, EnsureRulesFails, Observe, Adopt, Drained, Verify,
       DeleteResource, CallFails, Crash, Ensured
  <2>. QED
    BY <1>1, <1>2, <2>1
<1>. QED
  BY <1>3, <1>4, <1>5, <1>6, <1>7, <1>8, <1>9, <1>10, <1>11, <1>12, <1>13, <1>14,
     <1>15, <1>16, <1>17, StepGroups DEF Edits

(* The cache keeps its version of the object or takes the current one.     *)
LEMMA SeenSteps ==
    ASSUME TypeOK, Next
    PROVE  seen'.net = seen.net \/ (seen'.net = net /\ net' = net)
<1>1. CASE SyncNetwork \/ SyncCluster \/ SyncMachines
  BY <1>1 DEF SyncNetwork, SyncCluster, SyncMachines, TypeOK
<1>2. CASE Crash
  BY <1>2 DEF Crash
<1>3. seen' = seen \/ SyncNetwork \/ SyncCluster \/ SyncMachines \/ Crash
  <2>1. CASE QuietStep
    BY <2>1 DEF QuietStep, CreateCluster, DeleteCluster, AddMachine, MachineBoots,
       MachineBootsOnOwnNetwork, RemoveMachine, ServerGone, TimePasses, Rename,
       Vanish, apiVars
  <2>2. CASE \/ Begin \/ AddFinalizer \/ ClusterNotFound \/ AddOwner \/ ClusterFound
             \/ ClusterBound \/ DeleteOrphan \/ Authorize \/ Refuse
    BY <2>2 DEF Begin, AddFinalizer, ClusterNotFound, AddOwner, ClusterFound,
       ClusterBound, DeleteOrphan, Authorize, Refuse
  <2>3. CASE \/ OwnershipToken \/ EnsureKnown \/ EnsureFound \/ EnsureCreated
             \/ Record \/ EnsureRules \/ EnsureRulesFails \/ Finish \/ Observe
             \/ Adopt \/ Claim
    BY <2>3 DEF OwnershipToken, EnsureKnown, EnsureFound, EnsureCreated, Record,
       EnsureRules, EnsureRulesFails, Finish, Observe, Adopt, Claim
  <2>4. CASE \/ Wait \/ Drained \/ Verify \/ DeleteResource \/ ForgetResource
             \/ Release \/ CallFails
             \/ EditPolicy \/ EditCIDRs \/ EditName \/ UserDelete \/ GarbageCollect
    BY <2>4 DEF Wait, Drained, Verify, DeleteResource, ForgetResource, Release,
       CallFails, EditPolicy, EditCIDRs, EditName, Edit, UserDelete, GarbageCollect
  <2>. QED
    BY <2>1, <2>2, <2>3, <2>4, StepGroups
<1>. QED
  BY <1>1, <1>2, <1>3

(* The calls of a pass of a live object, and of one that is being deleted. *)
DeletionCalls == {"drain", "verify", "delete", "forget", "release"}
LiveCalls     == PCs \ ({"idle", "finalizer"} \cup DeletionCalls)

(* What a step does to the pass.                                           *)
PassGoesOn ==
    /\ pc \in LiveCalls /\ pc' \in LiveCalls
    /\ obj' = obj \/ obj' = net'
    /\ route' \in {route, obj'.policy}
DeletionGoesOn ==
    /\ pc \in DeletionCalls /\ pc' \in DeletionCalls
    /\ obj' = obj /\ net' = net /\ route' = route

LEMMA PassSteps ==
    ASSUME TypeOK, Next
    PROVE  Return \/ UNCHANGED passVars \/ Begin \/ PassGoesOn \/ DeletionGoesOn
<1>1. CASE Return
  BY <1>1
<1>2. CASE Fail
  BY <1>2 DEF Fail
<1>3. CASE QuietStep
  BY <1>3, QuietSame
<1>4. CASE Edits \/ UserDelete \/ GarbageCollect
  BY <1>4, EditFields DEF UserDelete, GarbageCollect
<1>5. CASE \/ AddFinalizer \/ AddOwner \/ DeleteOrphan \/ Refuse
           \/ EnsureRulesFails \/ Finish \/ Claim \/ Wait \/ ForgetResource
           \/ Release \/ CallFails \/ Crash
  BY <1>1, <1>2, <1>5 DEF AddFinalizer, AddOwner, DeleteOrphan, Refuse,
     EnsureRulesFails, Finish, Claim, Wait, ForgetResource, Release, CallFails, Crash
<1>6. CASE ClusterNotFound \/ ClusterBound \/ Authorize
  <2>1. /\ pc \in {"bind", "bound", "authorize"} /\ setCondition
        /\ pc' \in {"orphan", "authorize", "token", "ensure", "observe", "rules",
                    "adopt", "refuse"}
        /\ route' \in {route, obj'.policy}
    BY <1>6 DEF ClusterNotFound, ClusterBound, Authorize, AfterBind, PolicyCall
  <2>. QED
    BY <2>1, SetConditionReady DEF PassGoesOn, LiveCalls, PCs, DeletionCalls
<1>7. CASE ClusterFound
  BY <1>7 DEF ClusterFound, PatchStatus, PassGoesOn, LiveCalls, PCs, DeletionCalls
<1>8. CASE OwnershipToken \/ Record
  <2>1. /\ pc \in {"token", "record"} /\ pc' \in {"ensure", "rules"} /\ obj' = net'
        /\ route' = route
    BY <1>8 DEF OwnershipToken, Record, PatchThen, PatchStatus, CallAfter
  <2>. QED
    BY <2>1 DEF PassGoesOn, LiveCalls, PCs, DeletionCalls
<1>9. CASE EnsureKnown \/ EnsureFound \/ EnsureCreated \/ EnsureRules
           \/ Observe \/ Adopt
  <2>1. \/ Fail
        \/ /\ pc \in {"ensure", "rules", "observe", "adopt"} /\ obj' = obj
           /\ route' = route
           /\ pc' \in {"record", "rules", "ensure", "finish", "token", "claim"}
    BY <1>9 DEF EnsureKnown, EnsureFound, EnsureCreated, EnsureRules, Observe,
       Adopt, Ensured, CallAfter
  <2>. QED
    BY <1>2, <2>1 DEF PassGoesOn, LiveCalls, PCs, DeletionCalls
<1>10. CASE Drained \/ Verify \/ DeleteResource
  <2>1. \/ Fail \/ Return
        \/ /\ pc \in {"drain", "verify", "delete"} /\ obj' = obj /\ net' = net
           /\ route' = route /\ pc' \in {"release", "verify", "delete", "forget"}
    BY <1>10 DEF Drained, Verify, DeleteResource
  <2>. QED
    BY <1>1, <1>2, <2>1 DEF DeletionGoesOn, DeletionCalls
<1>. QED
  BY <1>3, <1>4, <1>5, <1>6, <1>7, <1>8, <1>9, <1>10, StepGroups DEF Edits

-----------------------------------------------------------------------------
(* The copies and the object                                               *)

(* A copy is an earlier version: a spec that it has with the generation is *)
(* the current one, and a deletion that it knows of cannot be undone.      *)
Older(c, n) ==
    /\ c.gen =< n.gen /\ (c.gen = n.gen => SameSpec(c, n))
    /\ c.phase # "live" => n.phase # "live"

(* However long the cache lags, a pass of a live object finds its          *)
(* finalizer in place, so that the object it patches exists, and the       *)
(* object is taken away only when the cache knows of its deletion.         *)
CopiesInv ==
    /\ Older(seen.net, net)
    /\ pc # "idle" => Older(obj, net)
    /\ net.fin => net.phase # "absent"
    /\ NetView.phase = "live" /\ NetView.fin => net.fin
    /\ pc \in DeletionCalls => NetView.phase # "live"
    /\ pc = "finalizer" => obj.phase = "live"
    /\ pc \in LiveCalls => net.fin

(* A version is its own copy.                                              *)
LEMMA OlderSelf == ASSUME NEW n \in Network PROVE Older(n, n)
BY DEF Older, SameSpec, Network

(* A copy of the object is a copy of the object after a step.              *)
LEMMA OlderStep ==
    ASSUME TypeOK, Next, NEW c \in Network, Older(c, net)
    PROVE  Older(c, net')
<1>0. net \in Network /\ c.gen \in Nat /\ net.gen \in Nat
  BY DEF TypeOK, Network
<1>1. CASE StatusOnly
  BY <1>1 DEF StatusOnly, Older, SameSpec
<1>2. CASE AddFinalizer \/ Release
  <2>1. /\ net'.gen = net.gen /\ SameSpec(net', net)
        /\ net'.phase = net.phase \/ net'.phase = "absent"
    BY <1>0, <1>2 DEF AddFinalizer, Release, SameSpec, Network
  <2>. QED
    BY <2>1 DEF Older, SameSpec
<1>3. CASE Edits
  <2>1. net'.phase = net.phase /\ net'.gen = net.gen + 1
    BY <1>3, EditFields
  <2>. QED
    BY <1>0, <2>1 DEF Older
<1>4. CASE Marks
  <2>1. /\ net'.phase # "live" /\ SameSpec(net', net)
        /\ net'.gen = net.gen \/ net'.gen = net.gen + 1
    BY <1>0, <1>4, DeletedFields DEF Marks
  <2>. QED
    BY <1>0, <2>1 DEF Older, SameSpec
<1>. QED
  BY <1>1, <1>2, <1>3, <1>4, ObjectSteps

(* Only the last step of a deletion takes the finalizer away.              *)
LEMMA FinSteps ==
    ASSUME TypeOK, CopiesInv, Next
    PROVE  /\ net.fin => net'.fin \/ Release
           /\ net'.fin => net'.phase # "absent"
<1>0. net \in Network
  BY DEF TypeOK
<1>1. CASE StatusOnly
  BY <1>1 DEF StatusOnly, CopiesInv
<1>2. CASE Edits
  BY <1>2, EditFields DEF SameStatus, CopiesInv
<1>3. CASE Marks
  BY <1>0, <1>3, DeletedFields DEF Marks, SameStatus
<1>4. CASE AddFinalizer
  <2>1. net' = net \/ (net' = [net EXCEPT !.fin = TRUE] /\ net = obj)
    BY <1>4 DEF AddFinalizer
  <2>2. obj.phase = "live"
    BY <1>4 DEF AddFinalizer, CopiesInv
  <2>3. CASE net' = net
    BY <2>3 DEF CopiesInv
  <2>4. CASE net' = [net EXCEPT !.fin = TRUE] /\ net = obj
    <3>1. net'.fin = TRUE /\ net'.phase = "live"
      BY <1>0, <2>2, <2>4 DEF Network
    <3>. QED
      BY <3>1
  <2>. QED
    BY <2>1, <2>3, <2>4
<1>5. CASE Release
  <2>1. net'.fin = FALSE
    BY <1>0, <1>5 DEF Release, Network
  <2>. QED
    BY <1>5, <2>1
<1>. QED
  BY <1>1, <1>2, <1>3, <1>4, <1>5, ObjectSteps

(* A deletion that the cache knows of is not forgotten.                    *)
LEMMA DeletionSeen ==
    ASSUME TypeOK, CopiesInv, Next PROVE NetView.phase # "live" => NetView'.phase # "live"
<1>0. net \in Network /\ seen.net \in Network
  BY DEF TypeOK
<1>1. Older(seen.net, net) /\ Older(net, net)
  BY <1>0, OlderSelf DEF CopiesInv
<1>2. Older(seen.net, net') /\ Older(net, net')
  BY <1>0, <1>1, OlderStep
<1>. QED
  BY <1>1, <1>2, SeenSteps DEF NetView, Older

(* Every step keeps the copies what they are.                              *)
LEMMA CopiesNext == TypeOK /\ CopiesInv /\ [Next]_vars => CopiesInv'
<1>1. ASSUME TypeOK, CopiesInv, Next PROVE CopiesInv'
  <2>0. /\ net \in Network /\ obj \in Network /\ seen.net \in Network
        /\ net' \in Network /\ NetView \in Network
    BY <1>1, TypeNext, ViewType DEF TypeOK
  <2>1. Older(seen.net, net) /\ Older(NetView, net)
    BY <1>1, <2>0, OlderSelf DEF CopiesInv, NetView
  <2>2. Older(seen'.net, net')
    BY <1>1, <2>0, <2>1, SeenSteps, OlderStep, OlderSelf
  <2>3. NetView.phase # "live" => NetView'.phase # "live"
    BY <1>1, DeletionSeen
  <2>4. Older(NetView, net')
    BY <1>1, <2>0, <2>1, OlderStep
  <2>5. /\ net.fin => net'.fin \/ Release
        /\ net'.fin => net'.phase # "absent"
    BY <1>1, FinSteps
  <2>6. Release => /\ net'.phase = "absent" /\ Return /\ NetView.phase # "live"
                   /\ seen' = seen
    BY <1>1, <2>0 DEF Release, CopiesInv, DeletionCalls, Network
  <2>7. NetView'.phase = "live" /\ NetView'.fin => net'.fin
    <3>1. CASE "network" \in Lagging
      <4>1. CASE seen'.net = seen.net
        BY <1>1, <2>5, <2>6, <3>1, <4>1 DEF NetView, CopiesInv
      <4>2. CASE seen'.net = net /\ net' = net
        BY <3>1, <4>2 DEF NetView
      <4>. QED
        BY <1>1, <4>1, <4>2, SeenSteps
    <3>2. CASE "network" \notin Lagging
      BY <3>2 DEF NetView
    <3>. QED
      BY <3>1, <3>2
  <2>8. CASE Return
    <3>1. pc' = "idle"
      BY <2>8 DEF Return
    <3>. QED
      BY <2>2, <2>5, <2>7, <3>1 DEF CopiesInv, DeletionCalls, LiveCalls
  <2>9. ~Release \/ Return
    BY <2>6
  <2>10. CASE UNCHANGED passVars
    <3>1. pc # "idle" => Older(obj, net')
      BY <1>1, <2>0, OlderStep DEF CopiesInv
    <3>2. pc' = pc /\ obj' = obj
      BY <2>10 DEF passVars
    <3>. QED
      BY <1>1, <2>2, <2>3, <2>5, <2>7, <2>8, <2>9, <3>1, <3>2 DEF CopiesInv
  <2>11. CASE Begin
    <3>1. /\ net' = net /\ obj' = NetView /\ pc' = FirstCall(NetView) /\ seen' = seen
          /\ NetView.phase # "absent"
      BY <2>11 DEF Begin
    <3>2. NetView' = NetView
      BY <3>1 DEF NetView
    <3>3. NetView.phase \in {"live", "deleting", "absent"}
      BY <2>0 DEF Network
    <3>4. /\ pc' \in DeletionCalls => NetView.phase # "live"
          /\ pc' = "finalizer" => NetView.phase = "live"
          /\ pc' \in LiveCalls => NetView.phase = "live" /\ NetView.fin
      BY <3>1, <3>3 DEF FirstCall, LiveCalls, DeletionCalls, PCs
    <3>. QED
      BY <1>1, <2>1, <2>2, <2>5, <3>1, <3>2, <3>4 DEF CopiesInv
  <2>12. CASE PassGoesOn
    <3>1. Older(obj', net')
      <4>1. Older(obj, net)
        BY <1>1, <2>12 DEF PassGoesOn, CopiesInv, LiveCalls
      <4>. QED
        BY <1>1, <2>0, <2>12, <4>1, OlderStep, OlderSelf DEF PassGoesOn
    <3>2. net.fin /\ pc' \in LiveCalls
      BY <1>1, <2>12 DEF PassGoesOn, CopiesInv
    <3>. QED
      BY <2>2, <2>5, <2>7, <2>8, <2>9, <3>1, <3>2 DEF CopiesInv, LiveCalls
  <2>13. CASE DeletionGoesOn
    <3>1. Older(obj, net) /\ NetView.phase # "live"
      BY <1>1, <2>13 DEF DeletionGoesOn, CopiesInv, DeletionCalls
    <3>. QED
      BY <2>2, <2>3, <2>5, <2>7, <2>13, <3>1 DEF DeletionGoesOn, CopiesInv,
         DeletionCalls, LiveCalls
  <2>. QED
    BY <1>1, <2>8, <2>10, <2>11, <2>12, <2>13, PassSteps
<1>2. ASSUME CopiesInv, UNCHANGED vars PROVE CopiesInv'
  BY <1>2 DEF CopiesInv, NetView, vars
<1>. QED
  BY <1>1, <1>2

(* It holds initially.                                                     *)
LEMMA CopiesInit == Init => CopiesInv
<1>. SUFFICES ASSUME Init PROVE CopiesInv
  OBVIOUS
<1>1. net \in Network
  BY TypeInit DEF TypeOK
<1>2. PICK p, cs, b : net = NewNetwork(p, cs, b)
  BY DEF Init
<1>3. seen.net = net /\ pc = "idle"
  BY DEF Init
<1>4. net.fin = FALSE
  BY <1>2 DEF NewNetwork
<1>. QED
  BY <1>1, <1>3, <1>4, OlderSelf DEF CopiesInv, NetView, DeletionCalls, LiveCalls

-----------------------------------------------------------------------------
(* What each call of a pass finds                                          *)

(* The status r of a resource of kind k, for an object created with policy *)
(* b: a resource the controller may own is marked managed once it is       *)
(* named, any other is the user's.                                         *)
ShapeOK(b, r, k) ==
    /\ r.managed <=> (r.id # NoId /\ MayOwn(b, k))
    /\ r.id # NoId => r.id.kind = k
    /\ ~MayOwn(b, k) => r.id \in {NoId, UserId(k)}
    /\ b = "Adopt" => r.id \in {NoId, DriverId(k)}

Shape(n) == \A k \in Kinds : ShapeOK(born, n.res[k], k)

Before(k) == CASE k = "vpc" -> {} [] k = "subnet" -> {"vpc"} [] OTHER -> {"vpc", "subnet"}

Known(n) == {k \in Kinds : n.res[k].id # NoId}

(* The policy is the first one or Abandon, and Abandon is final.           *)
PolicyInv ==
    /\ {net.policy, seen.net.policy, obj.policy} \subseteq {born, "Abandon"}
    /\ route \in {born, "Abandon", "none"}
    /\ seen.net.policy = "Abandon" => net.policy = "Abandon"
    /\ pc # "idle" /\ obj.policy = "Abandon" => net.policy = "Abandon"

ShapeInv == Shape(net) /\ Shape(seen.net) /\ Shape(obj)

(* What a pass of a live object knows, the object knows.                   *)
KnownInv ==
    /\ NetView.phase = "live" => Known(seen.net) \subseteq Known(net)
    /\ pc \in LiveCalls => Known(obj) \subseteq Known(net)

(* reconcileManaged goes from the VPC to the security group, and records   *)
(* each resource before it asks for the next.                              *)
EnsureInv ==
    /\ pc \in {"idle", "finalizer", "bind", "bound", "orphan", "authorize"} => kind = "vpc"
    /\ pc = "token" /\ route = "Managed" => kind = "vpc"
    /\ pc \in {"ensure", "record"} /\ route = "Managed" =>
          \A k \in Before(kind) : obj.res[k].id # NoId /\ got[k].id # NoId
    /\ pc = "record" => /\ obj.res[kind].id = NoId
                        /\ got[kind].id # NoId /\ got[kind].id.kind = kind

(* What a pass publishes in the end.                                       *)
AnswerInv ==
    /\ pc \in {"token", "ensure", "record", "rules", "finish"} /\ route = "Hybrid" =>
          \A k \in {"vpc", "subnet"} : got[k].id = UserId(k)
    /\ pc \in {"rules", "finish"} /\ route # "Observe" =>
          /\ obj.res["sg"].id # NoId /\ RuledGroup = obj.res["sg"].id
          /\ route # "Hybrid" => Complete(obj)
    /\ pc = "observe" => obj.policy = route
    /\ pc = "finish" /\ route = "Observe" =>
          obj.policy = "Observe" /\ \A k \in Kinds : got[k].id = UserId(k)
    /\ pc = "claim" => \A k \in Kinds : got[k].id = DriverId(k)

(* reconcileDelete works on the first of what remains.                     *)
TargetInv ==
    /\ pc \in {"verify", "delete", "forget"} =>
          kind \in Remaining(obj) /\ kind = Target(obj)
    /\ pc = "release" => obj.policy = "Abandon" \/ Remaining(obj) = {}

CallsInv == EnsureInv /\ AnswerInv /\ TargetInv

PassInv == PolicyInv /\ ShapeInv /\ KnownInv /\ CallsInv

(* Ids of a kind and of an origin.                                         *)
LEMMA KindFacts ==
    /\ \A k \in Kinds : UserId(k).kind = k /\ DriverId(k).kind = k
    /\ \A k \in Kinds : \A n : OwnId(k, n).kind = k
    /\ \A k \in Kinds : UserId(k) # NoId /\ DriverId(k) # NoId
BY DEF Kinds, UserId, DriverId, OwnId, NoId

(* The blank copy names nothing.                                           *)
LEMMA NothingNamed ==
    /\ NoNetwork.policy = "Abandon"
    /\ \A k \in Kinds : NoNetwork.res[k] = NoStatus
    /\ NoStatus.id = NoId /\ NoStatus.managed = FALSE
BY DEF NoNetwork, NewNetwork, NoStatus

(* What the last patch of a pass names.                                    *)
LEMMA FinishedRes ==
    ASSUME TypeOK, ForeignInv, PassInv, pc = "finish"
    PROVE  /\ \A k \in Kinds : ShapeOK(born, Finished.res[k], k)
           /\ \A k \in Kinds : Finished.res[k].id # NoId
           /\ \A k \in Kinds : Finished.res[k].id \in {obj.res[k].id, got[k].id}
           /\ \A k \in Kinds : obj.res[k].id # NoId =>
                /\ Finished.res[k].id = obj.res[k].id
                /\ Finished.res[k].managed = obj.res[k].managed
<1>0. /\ obj \in Network /\ PolicyInv /\ AnswerInv
      /\ route \in {"Managed", "Hybrid", "Adopt", "Observe"} /\ born = route
  BY DEF TypeOK, PassInv, CallsInv, ForeignInv, PassOK, PolicyInv
<1>1. /\ obj.res \in [Kinds -> ResourceStatus]
      /\ \A k \in Kinds : ShapeOK(born, obj.res[k], k)
  BY <1>0 DEF Network, PassInv, ShapeInv, Shape
<1>2. CASE route \notin {"Observe", "Hybrid"}
  <2>1. Finished.res = obj.res
    BY <1>0, <1>2 DEF Finished, FinishedWith, Network
  <2>2. Complete(obj)
    BY <1>0, <1>2 DEF AnswerInv
  <2>. QED
    BY <1>1, <2>1, <2>2 DEF Complete
<1>3. CASE route \in {"Observe", "Hybrid"}
  <2>1. Finished.res = [k \in Kinds |-> Observed(k, k = "sg" /\ route = "Hybrid")]
    BY <1>0, <1>3 DEF Finished, FinishedWith, Network
  <2>2. \A k \in Kinds : /\ Finished.res[k].id = got[k].id
                         /\ Finished.res[k].managed = (k = "sg" /\ route = "Hybrid")
    BY <2>1 DEF Observed
  <2>3. ASSUME NEW k \in Kinds, k # "sg" \/ route = "Observe"
        PROVE  ~MayOwn(born, k) /\ got[k].id = UserId(k)
    BY <1>0, <1>3, <2>3 DEF MayOwn, Claiming, AnswerInv, Kinds
  <2>4. ASSUME route = "Hybrid"
        PROVE  /\ MayOwn(born, "sg") /\ got["sg"].id = obj.res["sg"].id
               /\ got["sg"].id # NoId
    BY <1>0, <2>4 DEF MayOwn, AnswerInv, RuledGroup
  <2>5. ASSUME NEW k \in Kinds, k # "sg" \/ route = "Observe"
        PROVE  /\ ShapeOK(born, Finished.res[k], k) /\ Finished.res[k].id # NoId
               /\ obj.res[k].id # NoId =>
                    /\ Finished.res[k].id = obj.res[k].id
                    /\ Finished.res[k].managed = obj.res[k].managed
    <3>1. Finished.res[k].id = UserId(k) /\ Finished.res[k].managed = FALSE
      BY <1>3, <2>2, <2>3, <2>5
    <3>2. ShapeOK(born, obj.res[k], k) /\ obj.res[k].managed \in BOOLEAN
      BY <1>1 DEF ResourceStatus
    <3>3. ~MayOwn(born, k) /\ born # "Adopt"
      BY <1>0, <1>3, <2>3, <2>5
    <3>. QED
      BY <3>1, <3>2, <3>3, KindFacts DEF ShapeOK
  <2>6. ASSUME route = "Hybrid"
        PROVE  /\ ShapeOK(born, Finished.res["sg"], "sg")
               /\ Finished.res["sg"].id = obj.res["sg"].id
               /\ Finished.res["sg"].id # NoId
               /\ Finished.res["sg"].managed = obj.res["sg"].managed
    <3>1. Finished.res["sg"].id = obj.res["sg"].id /\ Finished.res["sg"].managed = TRUE
      BY <2>2, <2>4, <2>6 DEF Kinds
    <3>2. ShapeOK(born, obj.res["sg"], "sg") /\ obj.res["sg"].managed \in BOOLEAN
      BY <1>1 DEF ResourceStatus, Kinds
    <3>. QED
      BY <2>4, <2>6, <3>1, <3>2 DEF ShapeOK
  <2>. QED
    BY <1>3, <2>2, <2>5, <2>6 DEF Kinds
<1>. QED
  BY <1>2, <1>3

(* A patch from obj to new that names resources: it gives a name to what   *)
(* had none in the copy and changes no other.  What it does not send       *)
(* stays as the object has it, whatever the copy said.                     *)
NamingStep(new) ==
    /\ pc \in {"record", "claim", "finish"} /\ new \in Network
    /\ \A k \in Kinds :
         /\ ShapeOK(born, new.res[k], k)
         /\ new.res[k].id \in {obj.res[k].id, got[k].id}
         /\ obj.res[k].id \in {NoId, new.res[k].id}
         /\ net'.res[k].id = Pick(net.res[k].id, obj.res[k].id, new.res[k].id)
         /\ net'.res[k].managed =
               Pick(net.res[k].managed, obj.res[k].managed, new.res[k].managed)

(* Such are the patches of Record, Claim and Finish.                       *)
LEMMA NamingSteps ==
    ASSUME TypeOK, ForeignInv, PassInv, Record \/ Claim \/ Finish
    PROVE  \E new \in Network : NamingStep(new)
<1>0. /\ net \in Network /\ obj \in Network /\ kind \in Kinds
      /\ Shape(obj) /\ PolicyInv /\ EnsureInv /\ AnswerInv /\ PassOK
  BY DEF TypeOK, PassInv, ShapeInv, CallsInv, ForeignInv
<1>1. CASE Record
  <2>1. pc = "record" /\ net' = MergeStatus(net, obj, Recorded)
    BY <1>1 DEF Record, PatchThen, PatchStatus, Recorded
  <2>. DEFINE r == [id |-> got[kind].id, name |-> got[kind].name, managed |-> TRUE]
  <2>0. Recorded \in Network
    BY PatchFacts
  <2>2. Recorded.res = [obj.res EXCEPT ![kind] = r]
    BY PatchFacts
  <2>3. \A k \in Kinds : Recorded.res[k] = IF k = kind THEN r ELSE obj.res[k]
    BY <1>0, <2>2 DEF Network
  <2>4. obj.res[kind].id = NoId /\ r.id = got[kind].id
    BY <1>0, <2>1 DEF EnsureInv
  <2>5. ShapeOK(born, r, kind)
    <3>1. got[kind].id # NoId /\ got[kind].id.kind = kind
      BY <1>0, <2>1 DEF EnsureInv
    <3>2. MayOwn(born, kind)
      BY <1>0, <2>1, RecordsOwn
    <3>3. born # "Adopt"
      BY <1>0, <2>1 DEF PassOK, PolicyInv
    <3>. QED
      BY <3>1, <3>2, <3>3 DEF ShapeOK
  <2>. HIDE DEF r
  <2>6. \A k \in Kinds :
         /\ ShapeOK(born, Recorded.res[k], k)
         /\ Recorded.res[k].id \in {obj.res[k].id, got[k].id}
         /\ obj.res[k].id \in {NoId, Recorded.res[k].id}
    BY <1>0, <2>3, <2>4, <2>5 DEF Shape
  <2>7. \A k \in Kinds :
         /\ net'.res[k].id = Pick(net.res[k].id, obj.res[k].id, Recorded.res[k].id)
         /\ net'.res[k].managed =
              Pick(net.res[k].managed, obj.res[k].managed, Recorded.res[k].managed)
    BY <2>0, <2>1, MergePicks
  <2>. QED
    BY <2>0, <2>1, <2>6, <2>7 DEF NamingStep
<1>2. CASE Claim
  <2>1. pc = "claim" /\ net' = MergeStatus(net, obj, Claimed)
    BY <1>2 DEF Claim, Claimed
  <2>2. Claimed \in Network /\ Claimed.res = [k \in Kinds |-> Observed(k, TRUE)]
    BY PatchFacts
  <2>3. born = "Adopt"
    BY <1>0, <2>1 DEF PassOK, PolicyInv
  <2>4. \A k \in Kinds : /\ Claimed.res[k].id = DriverId(k) /\ got[k].id = DriverId(k)
                         /\ Claimed.res[k].managed = TRUE
    BY <1>0, <2>1, <2>2 DEF Observed, AnswerInv
  <2>5. \A k \in Kinds : ShapeOK(born, Claimed.res[k], k)
    BY <2>3, <2>4, KindFacts DEF ShapeOK, MayOwn, Claiming
  <2>6. \A k \in Kinds : obj.res[k].id \in {NoId, Claimed.res[k].id}
    BY <1>0, <2>3, <2>4 DEF Shape, ShapeOK
  <2>7. \A k \in Kinds :
         /\ net'.res[k].id = Pick(net.res[k].id, obj.res[k].id, Claimed.res[k].id)
         /\ net'.res[k].managed =
              Pick(net.res[k].managed, obj.res[k].managed, Claimed.res[k].managed)
    BY <2>1, <2>2, MergePicks
  <2>. QED
    <3>1. \A k \in Kinds : Claimed.res[k].id \in {obj.res[k].id, got[k].id}
      BY <2>4
    <3>. QED
      BY <2>1, <2>2, <2>5, <2>6, <2>7, <3>1 DEF NamingStep
<1>3. CASE Finish
  <2>0. pc = "finish"
    BY <1>3 DEF Finish
  <2>1. PICK r : net' = [MergeStatus(net, obj, Finished) EXCEPT !.ready = r]
    BY <1>3, Zenon DEF Finish
  <2>. DEFINE m == MergeStatus(net, obj, Finished)
  <2>2. /\ m \in Network /\ Finished \in Network
        /\ \A k \in Kinds :
         /\ m.res[k].id = Pick(net.res[k].id, obj.res[k].id, Finished.res[k].id)
         /\ m.res[k].managed =
              Pick(net.res[k].managed, obj.res[k].managed, Finished.res[k].managed)
    BY <1>0, FinishedType, MergeFields
  <2>. HIDE DEF m
  <2>3. net'.res = m.res
    BY <2>1, <2>2 DEF m, Network
  <2>4. \A k \in Kinds : /\ ShapeOK(born, Finished.res[k], k)
                         /\ Finished.res[k].id \in {obj.res[k].id, got[k].id}
                         /\ obj.res[k].id \in {NoId, Finished.res[k].id}
    BY <2>0, FinishedRes
  <2>. QED
    BY <2>0, <2>2, <2>3, <2>4 DEF NamingStep
<1>. QED
  BY <1>1, <1>2, <1>3

(* What the patch of ForgetResource does.                                  *)
LEMMA ForgetFields ==
    ASSUME TypeOK, PassInv, ForgetResource
    PROVE  \A k \in Kinds :
              \/ /\ net'.res[k].id = net.res[k].id
                 /\ net'.res[k].managed = net.res[k].managed
              \/ /\ k = kind /\ net'.res[k].id = NoId /\ net'.res[k].managed = FALSE
<1>0. /\ net \in Network /\ obj \in Network /\ kind \in Kinds /\ pc = "forget"
  BY DEF TypeOK, ForgetResource
<1>1. CASE net' = net
  BY <1>1
<1>2. CASE net' = MergeStatus(net, obj, Forgotten)
  <2>0. Forgotten \in Network
    BY PatchFacts
  <2>1. Forgotten.res = [obj.res EXCEPT ![kind] = NoStatus]
    BY PatchFacts
  <2>2. \A k \in Kinds : Forgotten.res[k] = IF k = kind THEN NoStatus ELSE obj.res[k]
    BY <1>0, <2>1 DEF Network
  <2>3. obj.res[kind].id # NoId /\ obj.res[kind].managed # FALSE
    BY <1>0 DEF PassInv, CallsInv, TargetInv, Remaining
  <2>4. \A k \in Kinds :
         /\ net'.res[k].id = Pick(net.res[k].id, obj.res[k].id, Forgotten.res[k].id)
         /\ net'.res[k].managed =
              Pick(net.res[k].managed, obj.res[k].managed, Forgotten.res[k].managed)
    BY <1>2, <2>0, MergePicks
  <2>. QED
    BY <2>2, <2>3, <2>4, NothingNamed DEF Pick
<1>. QED
  BY <1>1, <1>2 DEF ForgetResource, Forgotten

(* The names that the object has after a step have their shape.            *)
LEMMA ShapeNext ==
    ASSUME TypeOK, ForeignInv, PassInv, Next PROVE Shape(net)'
<1>0. /\ net \in Network /\ obj \in Network /\ Shape(net) /\ Shape(obj) /\ born' = born
  BY DEF TypeOK, PassInv, ShapeInv, Next, History
<1>1. CASE NamesSame
  BY <1>0, <1>1 DEF NamesSame, Shape
<1>2. CASE Record \/ Claim \/ Finish
  <2>1. PICK new \in Network : NamingStep(new)
    BY <1>2, NamingSteps
  <2>2. ASSUME NEW k \in Kinds PROVE ShapeOK(born, net'.res[k], k)
    <3>1. /\ net.res[k].managed \in BOOLEAN /\ obj.res[k].managed \in BOOLEAN
          /\ new.res[k].managed \in BOOLEAN
      BY <1>0, <2>1 DEF Network, ResourceStatus
    <3>2. /\ ShapeOK(born, net.res[k], k) /\ ShapeOK(born, obj.res[k], k)
          /\ ShapeOK(born, new.res[k], k) /\ obj.res[k].id \in {NoId, new.res[k].id}
      BY <1>0, <2>1 DEF Shape, NamingStep
    <3>3. /\ net'.res[k].id = Pick(net.res[k].id, obj.res[k].id, new.res[k].id)
          /\ net'.res[k].managed =
               Pick(net.res[k].managed, obj.res[k].managed, new.res[k].managed)
      BY <2>1 DEF NamingStep
    <3>. QED
      BY <3>1, <3>2, <3>3 DEF ShapeOK, Pick
  <2>. QED
    BY <1>0, <2>2 DEF Shape
<1>3. CASE ForgetResource
  <2>1. ASSUME NEW k \in Kinds PROVE ShapeOK(born, net'.res[k], k)
    <3>1. ShapeOK(born, net.res[k], k)
      BY <1>0 DEF Shape
    <3>2. \/ /\ net'.res[k].id = net.res[k].id
             /\ net'.res[k].managed = net.res[k].managed
          \/ net'.res[k].id = NoId /\ net'.res[k].managed = FALSE
      BY <1>3, ForgetFields
    <3>. QED
      BY <3>1, <3>2 DEF ShapeOK
  <2>. QED
    BY <1>0, <2>1 DEF Shape
<1>. QED
  BY <1>1, <1>2, <1>3, ObjectSteps

(* Only reconcileDelete forgets a name.                                    *)
LEMMA KnownGrows ==
    ASSUME TypeOK, ForeignInv, PassInv, Next, ~ForgetResource
    PROVE  Known(net) \subseteq Known(net')
<1>1. CASE NamesSame
  BY <1>1 DEF NamesSame, Known
<1>2. CASE Record \/ Claim \/ Finish
  <2>1. PICK new \in Network : NamingStep(new)
    BY <1>2, NamingSteps
  <2>. QED
    BY <2>1 DEF NamingStep, Known, Pick
<1>. QED
  BY <1>1, <1>2, ObjectSteps

(* The policy is edited to Abandon at most.                                *)
LEMMA PolicyNext ==
    ASSUME PolicyEdits \subseteq AbandonOnly, TypeOK, Next
    PROVE  net'.policy \in {net.policy, "Abandon"}
<1>0. net \in Network
  BY DEF TypeOK
<1>1. CASE StatusOnly
  BY <1>1 DEF StatusOnly, SameSpec
<1>2. CASE AddFinalizer \/ Release
  BY <1>0, <1>2 DEF AddFinalizer, Release, Network
<1>3. CASE Edits
  BY <1>3, EditFields
<1>4. CASE Marks
  BY <1>0, <1>4, DeletedFields DEF Marks, SameSpec
<1>. QED
  BY <1>1, <1>2, <1>3, <1>4, ObjectSteps

(* Every version of the object keeps its policy, its shape and its names.  *)
LEMMA VersionsNext ==
    ASSUME PolicyEdits \subseteq AbandonOnly,
           TypeOK, ForeignInv, CopiesInv, PassInv, Next
    PROVE  PolicyInv' /\ ShapeInv' /\ KnownInv'
<1>0. /\ born' = born /\ PolicyInv /\ ShapeInv /\ KnownInv
      /\ net'.policy \in {net.policy, "Abandon"} /\ Shape(net)'
      /\ seen'.net = seen.net \/ (seen'.net = net /\ net' = net)
  BY PolicyNext, ShapeNext, SeenSteps DEF PassInv, Next, History
<1>1. /\ {net'.policy, seen'.net.policy} \subseteq {born, "Abandon"}
      /\ seen'.net.policy = "Abandon" => net'.policy = "Abandon"
      /\ NetView.policy \in {born, "Abandon"}
      /\ NetView.policy = "Abandon" => net.policy = "Abandon"
      /\ net.policy = "Abandon" => net'.policy = "Abandon"
  BY <1>0 DEF PolicyInv, NetView
<1>2. Shape(seen.net)'
  BY <1>0 DEF ShapeInv, Shape
<1>3. NetView'.phase = "live" => NetView.phase = "live" /\ ~ForgetResource
  BY DeletionSeen DEF ForgetResource, CopiesInv, DeletionCalls
<1>4. NetView'.phase = "live" => Known(seen'.net) \subseteq Known(net')
  BY <1>0, <1>3, KnownGrows DEF KnownInv
<1>5. CASE Return
  <2>1. obj' = NoNetwork /\ pc' = "idle" /\ route' = "none"
    BY <1>5 DEF Return
  <2>2. Shape(obj)'
    BY <1>0, <2>1, NothingNamed DEF Shape, ShapeOK
  <2>. QED
    BY <1>0, <1>1, <1>2, <1>4, <2>1, <2>2, NothingNamed
       DEF PolicyInv, ShapeInv, KnownInv, LiveCalls
<1>6. CASE UNCHANGED passVars
  <2>1. obj' = obj /\ pc' = pc /\ route' = route
    BY <1>6 DEF passVars
  <2>2. Shape(obj)'
    BY <1>0, <2>1 DEF ShapeInv, Shape
  <2>3. ForgetResource => pc' = "idle"
    BY DEF ForgetResource, Return
  <2>4. pc' \in LiveCalls => Known(obj') \subseteq Known(net')
    BY <1>0, <2>1, <2>3, KnownGrows DEF KnownInv, LiveCalls
  <2>5. PolicyInv'
    BY <1>0, <1>1, <2>1 DEF PolicyInv
  <2>. QED
    BY <1>0, <1>2, <1>4, <2>2, <2>4, <2>5 DEF ShapeInv, KnownInv
<1>7. CASE Begin
  <2>1. /\ obj' = NetView /\ net' = net /\ route' = route /\ pc' = FirstCall(NetView)
    BY <1>7 DEF Begin
  <2>2. Shape(obj)'
    BY <1>0, <2>1 DEF ShapeInv, Shape, NetView
  <2>3. pc' \in LiveCalls => NetView.phase = "live"
    <3>1. NetView.phase \in {"live", "deleting", "absent"} /\ NetView.phase # "absent"
      BY <1>7, ViewType DEF Begin, Network
    <3>. QED
      BY <2>1, <3>1 DEF FirstCall, LiveCalls, DeletionCalls
  <2>4. pc' \in LiveCalls => Known(obj') \subseteq Known(net')
    BY <1>0, <2>1, <2>3 DEF KnownInv, NetView
  <2>5. PolicyInv'
    BY <1>0, <1>1, <2>1 DEF PolicyInv
  <2>. QED
    BY <1>0, <1>2, <1>4, <2>2, <2>4, <2>5 DEF ShapeInv, KnownInv
<1>8. CASE PassGoesOn
  <2>1. /\ obj' = obj \/ obj' = net'
        /\ route' \in {route, obj'.policy}
        /\ pc \in LiveCalls /\ pc # "idle"
    BY <1>8 DEF PassGoesOn, LiveCalls
  <2>2. Shape(obj)'
    BY <1>0, <1>8 DEF ShapeInv, Shape, PassGoesOn
  <2>3. ~ForgetResource
    BY <2>1 DEF ForgetResource, LiveCalls, DeletionCalls
  <2>4. Known(obj') \subseteq Known(net')
    BY <1>0, <1>8, <2>1, <2>3, KnownGrows DEF KnownInv, PassGoesOn
  <2>5. PolicyInv'
    BY <1>0, <1>1, <1>8, <2>1 DEF PolicyInv, PassGoesOn
  <2>. QED
    BY <1>0, <1>2, <1>4, <2>2, <2>4, <2>5 DEF ShapeInv, KnownInv
<1>9. CASE DeletionGoesOn
  <2>1. /\ obj' = obj /\ route' = route /\ pc # "idle" /\ pc' \notin LiveCalls
    BY <1>9 DEF DeletionGoesOn, LiveCalls, DeletionCalls
  <2>2. Shape(obj)'
    BY <1>0, <2>1 DEF ShapeInv, Shape
  <2>3. PolicyInv'
    BY <1>0, <1>1, <2>1 DEF PolicyInv
  <2>. QED
    BY <1>0, <1>2, <1>4, <2>1, <2>2, <2>3 DEF ShapeInv, KnownInv
<1>. QED
  BY <1>5, <1>6, <1>7, <1>8, <1>9, PassSteps

(* The end of a pass leaves no call.                                       *)
LEMMA ReturnCalls == ASSUME Return PROVE CallsInv'
BY DEF Return, CallsInv, EnsureInv, AnswerInv, TargetInv

(* fail is one.                                                            *)
LEMMA FailCalls == ASSUME Fail PROVE CallsInv'
BY ReturnCalls DEF Fail

(* A resource that was not named before goes on to be recorded.            *)
LEMMA NewsCalls ==
    ASSUME TypeOK, ForeignInv, PassInv, pc = "ensure", obj.res[kind].id = NoId,
           NEW id \in Ids, id.kind = kind, NEW name, Ensured(kind, id, name)
    PROVE  CallsInv'
<1>0. /\ kind \in Kinds /\ got \in [Kinds -> Resource]
      /\ EnsureInv /\ AnswerInv
  BY DEF TypeOK, PassInv, CallsInv
<1>1. /\ pc' = "record" /\ kind' = kind /\ obj' = obj /\ route' = route
      /\ got' = [got EXCEPT ![kind] = [id |-> id, name |-> name]]
  BY IdFacts DEF Ensured
<1>2. got'[kind].id = id /\ \A k \in Kinds \ {kind} : got'[k] = got[k]
  BY <1>0, <1>1
<1>3. Before(kind) \subseteq Kinds \ {kind}
  BY <1>0 DEF Before, Kinds
<1>4. EnsureInv'
  BY <1>0, <1>1, <1>2, <1>3, IdFacts DEF EnsureInv
<1>5. route = "Hybrid" => \A k \in {"vpc", "subnet"} : got'[k].id = UserId(k)
  <2>1. ASSUME route = "Hybrid", kind # "sg" PROVE FALSE
    BY <2>1 DEF ForeignInv, PassOK
  <2>. QED
    BY <1>0, <1>2, <2>1 DEF AnswerInv, Kinds
<1>6. AnswerInv'
  BY <1>1, <1>5 DEF AnswerInv
<1>7. TargetInv'
  BY <1>1 DEF TargetInv
<1>. QED
  BY <1>4, <1>6, <1>7 DEF CallsInv

(* A resource that is named and confirmed leads to the next kind.          *)
LEMMA AdvanceCalls ==
    ASSUME TypeOK, ForeignInv, PassInv, pc \in {"ensure", "record"},
           route' = route, pc' = CallAfter(kind), kind' = Following(kind),
           obj'.res[kind].id # NoId, got'[kind].id = obj'.res[kind].id,
           Known(obj) \subseteq Known(obj'),
           \A k \in Kinds \ {kind} : got'[k].id = got[k].id
    PROVE  CallsInv'
<1>0. /\ kind \in Kinds /\ EnsureInv /\ AnswerInv
      /\ route = "Managed" \/ (route = "Hybrid" /\ kind = "sg")
      /\ \A k \in Kinds : obj.res[k].id # NoId => obj'.res[k].id # NoId
  BY DEF TypeOK, PassInv, CallsInv, ForeignInv, PassOK, Known
<1>1. CASE kind \in {"vpc", "subnet"}
  <2>1. /\ pc' = "ensure" /\ route = "Managed"
        /\ \A k \in Before(kind') : k = kind \/ k \in Before(kind)
    BY <1>0, <1>1 DEF CallAfter, Following, Before
  <2>2. \A k \in Before(kind) : k \in Kinds \ {kind}
    BY <1>0 DEF Before, Kinds
  <2>3. \A k \in Before(kind') : obj'.res[k].id # NoId /\ got'[k].id # NoId
    BY <1>0, <2>1, <2>2 DEF EnsureInv
  <2>4. EnsureInv'
    BY <2>1, <2>3 DEF EnsureInv
  <2>5. AnswerInv' /\ TargetInv'
    BY <2>1 DEF AnswerInv, TargetInv
  <2>. QED
    BY <2>4, <2>5 DEF CallsInv
<1>2. CASE kind = "sg"
  <2>1. pc' = "rules" /\ EnsureInv' /\ TargetInv'
    BY <1>2 DEF CallAfter, EnsureInv, TargetInv
  <2>2. /\ obj'.res["sg"].id # NoId /\ RuledGroup' = obj'.res["sg"].id
    BY <1>0, <1>2 DEF RuledGroup
  <2>3. route = "Managed" => Complete(obj')
    <3>1. route = "Managed" => \A k \in {"vpc", "subnet"} : obj'.res[k].id # NoId
      BY <1>0, <1>2 DEF EnsureInv, Before, Kinds
    <3>. QED
      BY <2>2, <3>1 DEF Complete, Kinds
  <2>4. route = "Hybrid" => \A k \in {"vpc", "subnet"} : got'[k].id = UserId(k)
    BY <1>0, <1>2 DEF AnswerInv, Kinds
  <2>5. AnswerInv'
    BY <1>0, <2>1, <2>2, <2>3, <2>4 DEF AnswerInv
  <2>. QED
    BY <2>1, <2>5 DEF CallsInv
<1>. QED
  BY <1>0, <1>1, <1>2 DEF Kinds

(* The first of what remains does remain.                                  *)
LEMMA TargetRemains ==
    ASSUME NEW n, Remaining(n) # {} PROVE Target(n) \in Remaining(n)
BY DEF Remaining, Target, Kinds

(* The resource that reconcileDelete is at is used by none that remains.   *)
LEMMA TargetFirst ==
    ASSUME NEW n, Target(n) \in Remaining(n)
    PROVE  Uses(Target(n)) \cap Remaining(n) = {}
<1>1. /\ Uses("sg") = {} /\ Uses("subnet") = {"sg"} /\ Uses("vpc") = {"sg", "subnet"}
  BY DEF Uses
<1>2. CASE "sg" \in Remaining(n)
  <2>1. Target(n) = "sg"
    BY <1>2 DEF Target
  <2>. QED
    BY <1>1, <2>1
<1>3. CASE "sg" \notin Remaining(n) /\ "subnet" \in Remaining(n)
  <2>1. Target(n) = "subnet"
    BY <1>3 DEF Target
  <2>. QED
    BY <1>1, <1>3, <2>1
<1>4. CASE "sg" \notin Remaining(n) /\ "subnet" \notin Remaining(n)
  <2>1. Target(n) = "vpc"
    BY <1>4 DEF Target
  <2>. QED
    BY <1>1, <1>4, <2>1
<1>. QED
  BY <1>2, <1>3, <1>4

(* Reconcile up to the dispatch on the policy.                             *)
LEMMA DispatchCalls ==
    ASSUME TypeOK, PassInv,
           \/ Begin \/ AddFinalizer \/ ClusterNotFound \/ AddOwner \/ ClusterFound
           \/ ClusterBound \/ DeleteOrphan \/ Authorize \/ Refuse
    PROVE  CallsInv'
<1>0. /\ obj \in Network /\ EnsureInv /\ AnswerInv /\ TargetInv
  BY DEF TypeOK, PassInv, CallsInv
<1>1. CASE Begin
  <2>1. /\ obj' = NetView /\ pc' = FirstCall(NetView) /\ pc = "idle"
        /\ kind' = kind /\ route' = route
    BY <1>1 DEF Begin
  <2>2. pc' = "release" => NetView.policy = "Abandon" \/ Remaining(NetView) = {}
    BY <1>0, <2>1 DEF FirstCall, HasManaged, Remaining
  <2>3. EnsureInv' /\ AnswerInv'
    BY <1>0, <2>1 DEF FirstCall, EnsureInv, AnswerInv
  <2>4. TargetInv'
    BY <2>1, <2>2 DEF FirstCall, TargetInv, Remaining
  <2>. QED
    BY <2>3, <2>4 DEF CallsInv
<1>2. CASE AddFinalizer \/ AddOwner \/ DeleteOrphan
  BY <1>2, ReturnCalls DEF AddFinalizer, AddOwner, DeleteOrphan
<1>3. CASE ClusterNotFound \/ ClusterBound \/ ClusterFound
  <2>1. /\ pc \in {"bind", "bound"} /\ pc' \in {"orphan", "authorize", "bound"}
        /\ kind' = kind
    BY <1>3 DEF ClusterNotFound, ClusterBound, ClusterFound, AfterBind
  <2>. QED
    BY <1>0, <2>1 DEF CallsInv, EnsureInv, AnswerInv, TargetInv
<1>4. CASE Authorize
  <2>1. /\ pc = "authorize" /\ setCondition
        /\ route' = obj'.policy /\ pc' = PolicyCall(obj') /\ kind' = kind
    BY <1>4 DEF Authorize
  <2>2. obj' \in Network
    BY <2>1, SetConditionType
  <2>3. kind' = "vpc" /\ obj'.policy \in Policies
    BY <1>0, <2>1, <2>2 DEF EnsureInv, Network
  <2>4. EnsureInv'
    BY <2>1, <2>3 DEF EnsureInv, PolicyCall, Policies, Before
  <2>5. AnswerInv'
    BY <2>1, <2>3 DEF AnswerInv, PolicyCall, Policies, Complete, Kinds, RuledGroup
  <2>6. TargetInv'
    BY <2>1, <2>3 DEF TargetInv, PolicyCall, Policies
  <2>. QED
    BY <2>4, <2>5, <2>6 DEF CallsInv
<1>5. CASE Refuse
  BY <1>5, FailCalls DEF Refuse
<1>. QED
  BY <1>1, <1>2, <1>3, <1>4, <1>5

(* reconcileManaged up to the rules.                                       *)
LEMMA ManagedCalls ==
    ASSUME TypeOK, ForeignInv, PassInv, Next,
           \/ OwnershipToken \/ EnsureKnown \/ EnsureFound \/ EnsureCreated \/ Record
    PROVE  CallsInv'
<1>0. /\ net \in Network /\ obj \in Network /\ kind \in Kinds
      /\ got \in [Kinds -> Resource]
      /\ EnsureInv /\ AnswerInv /\ TargetInv
  BY DEF TypeOK, PassInv, CallsInv
<1>1. CASE OwnershipToken
  <2>1. /\ pc = "token" /\ pc' = "ensure" /\ kind' = kind /\ route' = route
        /\ got' = got
    BY <1>1 DEF OwnershipToken, PatchThen, PatchStatus
  <2>2. EnsureInv'
    BY <1>0, <2>1 DEF EnsureInv, Before
  <2>3. AnswerInv' /\ TargetInv'
    BY <1>0, <2>1 DEF AnswerInv, TargetInv
  <2>. QED
    BY <2>2, <2>3 DEF CallsInv
<1>2. CASE Fail
  BY <1>2, FailCalls
<1>3. CASE EnsureKnown /\ ~Fail
  <2>. DEFINE i == obj.res[kind].id
  <2>1. /\ pc = "ensure" /\ i # NoId /\ Ensured(kind, i, cname[i])
    BY <1>3 DEF EnsureKnown
  <2>2. /\ pc' = CallAfter(kind) /\ kind' = Following(kind)
        /\ obj' = obj /\ route' = route
        /\ got' = [got EXCEPT ![kind] = [id |-> i, name |-> cname[i]]]
    BY <2>1 DEF Ensured
  <2>3. got'[kind].id = i /\ \A k \in Kinds \ {kind} : got'[k] = got[k]
    BY <1>0, <2>2
  <2>. QED
    BY <2>1, <2>2, <2>3, AdvanceCalls
<1>4. CASE EnsureFound /\ ~Fail
  <2>1. PICK i \in Found(kind) : Ensured(kind, i, cname[i])
    BY <1>4 DEF EnsureFound
  <2>2. i \in Ids /\ i.kind = kind /\ pc = "ensure" /\ obj.res[kind].id = NoId
    BY <1>4, <2>1 DEF Found, TypeOK, EnsureFound
  <2>. QED
    BY <2>1, <2>2, NewsCalls
<1>5. CASE EnsureCreated /\ ~Fail
  <2>1. PICK n \in 1..MaxIds : Ensured(kind, OwnId(kind, n), managedName(obj.base))
    BY <1>5 DEF EnsureCreated
  <2>2. /\ OwnId(kind, n) \in Ids /\ OwnId(kind, n).kind = kind
        /\ pc = "ensure" /\ obj.res[kind].id = NoId
    BY <1>0, <1>5, <2>1, IdFacts, KindFacts DEF EnsureCreated
  <2>. QED
    BY <2>1, <2>2, NewsCalls
<1>6. CASE Record
  <2>1. /\ pc = "record" /\ pc' = CallAfter(kind) /\ kind' = Following(kind)
        /\ route' = route /\ got' = got /\ obj' = net'
        /\ net' = MergeStatus(net, obj, Recorded)
    BY <1>6 DEF Record, Recorded, PatchThen, PatchStatus
  <2>. DEFINE r == [id |-> got[kind].id, name |-> got[kind].name, managed |-> TRUE]
  <2>2. Recorded \in Network
    BY PatchFacts
  <2>3. Recorded.res[kind] = r
    <3>1. Recorded.res = [obj.res EXCEPT ![kind] = r]
      BY PatchFacts
    <3>. QED
      BY <1>0, <3>1 DEF Network
  <2>4. net'.res[kind].id = Pick(net.res[kind].id, obj.res[kind].id, Recorded.res[kind].id)
    BY <1>0, <2>1, <2>2, MergePicks
  <2>5. net'.res[kind].id = got[kind].id /\ got[kind].id # NoId
    BY <1>0, <2>1, <2>3, <2>4 DEF EnsureInv, Pick
  <2>6. Known(obj) \subseteq Known(net')
    <3>1. ~ForgetResource /\ pc \in LiveCalls
      BY <2>1 DEF ForgetResource, LiveCalls, DeletionCalls, PCs
    <3>. QED
      BY <3>1, KnownGrows DEF PassInv, KnownInv
  <2>. QED
    BY <2>1, <2>5, <2>6, AdvanceCalls
<1>. QED
  BY <1>1, <1>2, <1>3, <1>4, <1>5, <1>6

(* The rules and the last patch; reconcileObserve and reconcileAdopt.      *)
LEMMA LivePassCalls ==
    ASSUME TypeOK, ForeignInv, PassInv,
           \/ EnsureRules \/ EnsureRulesFails \/ Finish \/ Observe \/ Adopt \/ Claim
    PROVE  CallsInv'
<1>0. /\ kind \in Kinds /\ PassOK /\ EnsureInv /\ AnswerInv /\ TargetInv
  BY DEF TypeOK, PassInv, CallsInv, ForeignInv
<1>1. CASE Fail
  BY <1>1, FailCalls
<1>2. CASE EnsureRules /\ ~Fail
  <2>1. pc = "rules" /\ pc' = "finish" /\ UNCHANGED <<kind, route, obj, got>>
    BY <1>2 DEF EnsureRules
  <2>2. route # "Observe"
    BY <1>0, <2>1 DEF PassOK
  <2>. QED
    BY <1>0, <2>1, <2>2 DEF CallsInv, EnsureInv, AnswerInv, TargetInv, RuledGroup
<1>3. CASE EnsureRulesFails \/ Finish \/ Claim
  BY <1>3, FailCalls, ReturnCalls DEF EnsureRulesFails, Finish, Claim
<1>4. CASE Observe /\ ~Fail
  <2>1. /\ got' = [k \in Kinds |->
                     IF k \in {j \in Kinds : j # "sg" \/ route = "Observe"}
                     THEN [id |-> UserId(k), name |-> cname[UserId(k)]]
                     ELSE NoResource]
        /\ pc' = IF route = "Observe" THEN "finish"
                 ELSE IF obj.token THEN "ensure" ELSE "token"
        /\ pc = "observe" /\ kind' = "sg" /\ UNCHANGED <<route, obj>>
    BY <1>4 DEF Observe
  <2>2. \A k \in Kinds : k # "sg" \/ route = "Observe" => got'[k].id = UserId(k)
    BY <2>1
  <2>3. route \in {"Observe", "Hybrid"} /\ obj.policy = route
    BY <1>0, <2>1 DEF PassOK, AnswerInv
  <2>4. EnsureInv' /\ TargetInv'
    BY <2>1, <2>3 DEF EnsureInv, TargetInv
  <2>5. AnswerInv'
    BY <2>1, <2>2, <2>3 DEF AnswerInv, Kinds
  <2>. QED
    BY <2>4, <2>5 DEF CallsInv
<1>5. CASE Adopt /\ ~Fail
  <2>1. /\ got' = [k \in Kinds |-> [id |-> DriverId(k), name |-> cname[DriverId(k)]]]
        /\ pc' = "claim" /\ UNCHANGED <<kind, route, obj>>
    BY <1>5 DEF Adopt
  <2>. QED
    BY <2>1 DEF CallsInv, EnsureInv, TargetInv, AnswerInv
<1>. QED
  BY <1>1, <1>2, <1>3, <1>4, <1>5

(* reconcileDelete, and the faults of a pass.                              *)
LEMMA DeleteCalls ==
    ASSUME TypeOK, PassInv,
           \/ Wait \/ Drained \/ Verify \/ DeleteResource \/ ForgetResource
           \/ Release \/ CallFails \/ Crash
    PROVE  CallsInv'
<1>0. EnsureInv /\ AnswerInv /\ TargetInv
  BY DEF PassInv, CallsInv
<1>1. CASE Return \/ Fail
  BY <1>1, FailCalls, ReturnCalls
<1>2. CASE Drained
  <2>1. /\ obj' = obj /\ route' = route /\ pc = "drain"
        /\ pc' = IF Remaining(obj) = {} THEN "release" ELSE "verify"
        /\ kind' = IF Remaining(obj) = {} THEN kind ELSE Target(obj)
    BY <1>2 DEF Drained
  <2>2. EnsureInv' /\ AnswerInv'
    BY <2>1 DEF EnsureInv, AnswerInv
  <2>3. Remaining(obj') = Remaining(obj) /\ Target(obj') = Target(obj)
    BY <2>1
  <2>4. TargetInv'
    BY <2>1, <2>3, TargetRemains DEF TargetInv
  <2>. QED
    BY <2>2, <2>4 DEF CallsInv
<1>3. CASE (Verify \/ DeleteResource) /\ ~(Return \/ Fail)
  <2>1. /\ pc \in {"verify", "delete"} /\ pc' \in {"delete", "forget"}
        /\ UNCHANGED <<kind, obj>>
    BY <1>3 DEF Verify, DeleteResource
  <2>. QED
    BY <1>0, <2>1 DEF CallsInv, EnsureInv, AnswerInv, TargetInv, Remaining, Target
<1>. QED
  BY <1>1, <1>2, <1>3 DEF Wait, Verify, DeleteResource, ForgetResource, Release,
     CallFails, Crash

(* Each call finds what it should initially...                             *)
LEMMA PassInit == Init => PassInv
<1>. SUFFICES ASSUME Init PROVE PassInv
  OBVIOUS
<1>1. PICK p, cs, b : net = NewNetwork(p, cs, b) /\ born = p
  BY DEF Init
<1>2. /\ net.policy = born /\ \A k \in Kinds : net.res[k] = NoStatus
      /\ seen.net = net /\ obj = NoNetwork /\ pc = "idle" /\ route = "none"
  BY <1>1 DEF Init, NewNetwork
<1>3. PolicyInv
  BY <1>2, NothingNamed DEF PolicyInv
<1>4. ShapeInv
  BY <1>2, NothingNamed DEF ShapeInv, Shape, ShapeOK
<1>5. KnownInv
  BY <1>2 DEF KnownInv, LiveCalls
<1>6. CallsInv
  BY DEF Init, CallsInv, EnsureInv, AnswerInv, TargetInv
<1>. QED
  BY <1>3, <1>4, <1>5, <1>6 DEF PassInv

(* ... and after every step.                                               *)
LEMMA PassNext ==
    ASSUME PolicyEdits \subseteq AbandonOnly
    PROVE  TypeOK /\ ForeignInv /\ CopiesInv /\ PassInv /\ [Next]_vars => PassInv'
<1>1. ASSUME TypeOK, ForeignInv, CopiesInv, PassInv, Next PROVE CallsInv'
  <2>1. CASE UNCHANGED passVars
    BY <1>1, <2>1 DEF PassInv, CallsInv, EnsureInv, AnswerInv, TargetInv, RuledGroup,
       passVars
  <2>2. EditPolicy \/ EditCIDRs \/ EditName => UNCHANGED passVars
    BY DEF EditPolicy, EditCIDRs, EditName, Edit
  <2>3. UserDelete \/ GarbageCollect => UNCHANGED passVars
    BY DEF UserDelete, GarbageCollect
  <2>. QED
    BY <1>1, <2>1, <2>2, <2>3, StepGroups, QuietSame, DispatchCalls, ManagedCalls,
       LivePassCalls, DeleteCalls
<1>2. ASSUME TypeOK, ForeignInv, CopiesInv, PassInv, Next PROVE PassInv'
  BY <1>1, <1>2, VersionsNext DEF PassInv
<1>3. ASSUME PassInv, UNCHANGED vars PROVE PassInv'
  BY <1>3 DEF vars, PassInv, PolicyInv, ShapeInv, Shape, KnownInv, NetView, CallsInv,
     EnsureInv, AnswerInv, TargetInv, RuledGroup
<1>. QED
  BY <1>2, <1>3

-----------------------------------------------------------------------------
(* The invariants together, for the modules that build on them.            *)
Sound == TypeOK /\ ForeignInv /\ CopiesInv /\ PassInv

(* A step keeps them.                                                      *)
LEMMA SoundNext ==
    ASSUME PolicyEdits \subseteq AbandonOnly PROVE Sound /\ [Next]_vars => Sound'
<1>1. PolicyEdits \subseteq SafeEdits
  BY AbandonIsSafe
<1>. QED
  BY <1>1, TypeNext, ForeignNext, CopiesNext, PassNext DEF Sound

(* However old the copies of the object are that passes start from, each   *)
(* call of a pass finds what the calls before it left.                     *)
LEMMA SoundHolds == ASSUME PolicyEdits \subseteq AbandonOnly PROVE Spec => []Sound
<1>1. Init => Sound
  BY TypeInit, ForeignInit, CopiesInit, PassInit DEF Sound
<1>2. Sound /\ [Next]_vars => Sound'
  BY SoundNext
<1>. QED
  BY <1>1, <1>2, PTL DEF Spec

=============================================================================
