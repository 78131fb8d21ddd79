----------------------- MODULE NetworkReconcilerProofs -----------------------
(* Theorems about NetworkReconciler for every value of its constants.      *)
EXTENDS NetworkReconciler, TLAPS

-----------------------------------------------------------------------------
(* Type correctness                                                        *)

(* The bounds are natural numbers.                                         *)
LEMMA Bounds ==
    MaxMishaps \in Nat /\ MaxIds \in Nat /\ MaxGen \in Nat /\ MaxClusters \in Nat
BY ConstantsOK

(* The ids the model names are ids.                                        *)
LEMMA IdFacts ==
    /\ \A k \in Kinds : UserId(k) \in Ids /\ DriverId(k) \in Ids
    /\ \A k \in Kinds : \A n \in 1..MaxIds : OwnId(k, n) \in Ids
    /\ UserIds \subseteq Ids /\ DriverIds \subseteq Ids
    /\ NoId \notin Ids
BY DEF Ids, OwnIds, UserIds, DriverIds, UserId, DriverId, OwnId, NoId, Kinds

(* The names the model uses are names.                                     *)
LEMMA NameFacts ==
    /\ {NoName, UserName, DriverName, Renamed} \subseteq Names
    /\ \A b \in Bases : managedName(b) \in Names
BY DEF Names

(* The blank status and the blank answer have their types.                 *)
LEMMA StatusFacts ==
    /\ NoStatus \in ResourceStatus
    /\ NoResource \in Resource
    /\ NothingGot \in [Kinds -> Resource]
BY NameFacts DEF ResourceStatus, Resource, NoStatus, NoResource, NothingGot

(* A new object, and the blank copy between passes, are objects.           *)
LEMMA NewNetworkType ==
    ASSUME NEW p \in Policies, NEW cs \in SUBSET CIDRs, NEW b \in Bases
    PROVE  NewNetwork(p, cs, b) \in Network
BY ConstantsOK, StatusFacts DEF NewNetwork, Network

(* The blank copy a pass leaves behind is an object.                       *)
LEMMA NoNetworkType == NoNetwork \in Network
<1>1. (CHOOSE b \in Bases : TRUE) \in Bases
  BY ConstantsOK
<1>2. NewNetwork("Abandon", {}, CHOOSE b \in Bases : TRUE) \in Network
  BY <1>1, NewNetworkType DEF Policies
<1>. QED
  BY <1>2 DEF NoNetwork, Network

(* A merge patch of well-typed objects gives a well-typed object.          *)
LEMMA MergeType ==
    ASSUME NEW cur \in Network, NEW base \in Network, NEW new \in Network
    PROVE  MergeStatus(cur, base, new) \in Network
<1>. DEFINE r == [k \in Kinds |->
            [id |-> Pick(cur.res[k].id, base.res[k].id, new.res[k].id),
             name |-> Pick(cur.res[k].name, base.res[k].name, new.res[k].name),
             managed |-> Pick(cur.res[k].managed, base.res[k].managed,
                              new.res[k].managed)]]
<1>1. r \in [Kinds -> ResourceStatus]
  BY DEF Network, ResourceStatus, Pick
<1>. HIDE DEF r
<1>2. /\ Pick(cur.clusterUID, base.clusterUID, new.clusterUID) \in 0..MaxClusters
      /\ Pick(cur.token, base.token, new.token) \in BOOLEAN
      /\ Pick(cur.applied, base.applied, new.applied) \in SUBSET CIDRs
      /\ Pick(cur.og, base.og, new.og) \in Nat
  BY DEF Network, Pick
<1>3. MergeStatus(cur, base, new) =
        [cur EXCEPT
            !.clusterUID = Pick(cur.clusterUID, base.clusterUID, new.clusterUID),
            !.token = Pick(cur.token, base.token, new.token),
            !.res = r,
            !.applied = Pick(cur.applied, base.applied, new.applied),
            !.og = Pick(cur.og, base.og, new.og)]
  BY DEF MergeStatus, r
<1>. HIDE DEF Pick
<1>. QED
  BY <1>1, <1>2, <1>3 DEF Network

(* The initial states are well typed.                                      *)
LEMMA TypeInit == Init => TypeOK
<1>. SUFFICES ASSUME Init PROVE TypeOK
  OBVIOUS
<1>1. net \in Network /\ born \in Policies
  BY NewNetworkType, ConstantsOK DEF Init
<1>2. obj \in Network /\ got \in [Kinds -> Resource]
  BY NoNetworkType, StatusFacts DEF Init
<1>3. seen \in [net : Network, cluster : 0..MaxClusters,
                machines : {"none", "booting", "ready"}]
  BY <1>1, ConstantsOK DEF Init
<1>4. alive \in SUBSET Ids /\ made \in SUBSET Ids /\ vm = NoVM
  BY IdFacts DEF Init
<1>5. cname \in [Ids -> Names]
  BY NameFacts DEF Init
<1>6. parent \in [Ids -> Ids \cup {NoId}]
  BY IdFacts DEF Init, Kinds
<1>7. rules \in [Ids -> SUBSET Rules]
  BY DEF Init
<1>8. vm \in [subnet : Ids \cup {NoId}, sg : Ids \cup {NoId}]
  BY <1>4 DEF NoVM
<1>9. /\ pc \in PCs /\ kind \in Kinds /\ route \in Policies \cup {"none"}
  BY DEF Init, PCs, Kinds
<1>10. /\ cluster = 0 /\ uids = 0 /\ mishaps = MaxMishaps
       /\ machines = "none" /\ late = FALSE /\ expired = FALSE /\ owned = {}
  BY DEF Init
<1>11. /\ cluster \in 0..MaxClusters /\ uids \in 0..MaxClusters
       /\ mishaps \in 0..MaxMishaps
  BY <1>10, Bounds
<1>12. /\ machines \in {"none", "booting", "ready"}
       /\ late \in BOOLEAN /\ expired \in BOOLEAN /\ owned \in SUBSET Ids
  BY <1>10, Zenon
<1>. QED
  BY <1>1, <1>2, <1>3, <1>4, <1>5, <1>6, <1>7, <1>8, <1>9, <1>11, <1>12 DEF TypeOK

(* What the actions do to an object keeps it an object.                    *)
LEMMA EditType ==
    ASSUME NEW n \in Network
    PROVE  /\ \A r \in BOOLEAN : [n EXCEPT !.ready = r] \in Network
           /\ [n EXCEPT !.fin = TRUE] \in Network
           /\ [n EXCEPT !.fin = FALSE, !.phase = "absent"] \in Network
           /\ \A o \in SUBSET (1..MaxClusters) :
                 [n EXCEPT !.owners = o] \in Network
           /\ \A c \in 0..MaxClusters : [n EXCEPT !.clusterUID = c] \in Network
           /\ [n EXCEPT !.token = TRUE] \in Network
           /\ \A k \in Kinds : \A r \in ResourceStatus :
                 [n EXCEPT !.res[k] = r] \in Network
           /\ \A f \in [Kinds -> ResourceStatus] :
                 /\ [n EXCEPT !.token = TRUE, !.res = f] \in Network
                 /\ \A g \in Nat : \A a \in SUBSET CIDRs :
                      [n EXCEPT !.og = g, !.applied = a, !.res = f] \in Network
           /\ MarkDeleted(n) \in Network
           /\ \A p \in Policies :
                 [[n EXCEPT !.policy = p] EXCEPT !.gen = @ + 1] \in Network
           /\ \A cs \in SUBSET CIDRs :
                 [[n EXCEPT !.cidrs = cs] EXCEPT !.gen = @ + 1] \in Network
           /\ \A b \in Bases :
                 [[n EXCEPT !.base = b] EXCEPT !.gen = @ + 1] \in Network
<1>1. /\ n.ready \in BOOLEAN /\ n.gen \in Nat /\ n.gen + 1 \in Nat
      /\ n.res \in [Kinds -> ResourceStatus]
  BY DEF Network
<1>2. \A k \in Kinds : \A r \in ResourceStatus :
         [n.res EXCEPT ![k] = r] \in [Kinds -> ResourceStatus]
  BY <1>1
<1>3. MarkDeleted(n) \in Network
  BY <1>1 DEF MarkDeleted, Network
<1>. QED
  BY <1>1, <1>2, <1>3 DEF Network

(* Publishing a Ready condition leaves an object an object.                *)
LEMMA ReadyType ==
    ASSUME NEW n \in Network, NEW r \in BOOLEAN
    PROVE  [n EXCEPT !.ready = r] \in Network
BY EditType

(* The ids a status marks controller-managed are ids.                      *)
LEMMA ManagedIdsType ==
    ASSUME NEW n \in Network PROVE ManagedIds(n) \in SUBSET Ids
BY DEF ManagedIds, Network, ResourceStatus

(* The parts of TypeOK an action may change together.                      *)
APIType  == net \in Network /\ seen \in [net : Network, cluster : 0..MaxClusters,
                                         machines : {"none", "booting", "ready"}]
PassType == /\ pc \in PCs /\ kind \in Kinds /\ route \in Policies \cup {"none"}
            /\ obj \in Network /\ got \in [Kinds -> Resource]
CloudType == /\ alive \in SUBSET Ids /\ made \in SUBSET Ids
             /\ cname \in [Ids -> Names]
             /\ parent \in [Ids -> Ids \cup {NoId}]
             /\ rules \in [Ids -> SUBSET Rules]
             /\ vm \in [subnet : Ids \cup {NoId}, sg : Ids \cup {NoId}]
EnvType == /\ cluster \in 0..MaxClusters /\ uids \in 0..MaxClusters
           /\ machines \in {"none", "booting", "ready"}
           /\ late \in BOOLEAN /\ expired \in BOOLEAN
           /\ mishaps \in 0..MaxMishaps

(* TypeOK is the conjunction of the parts above.                           *)
LEMMA TypeParts ==
    TypeOK <=> /\ APIType /\ PassType /\ CloudType /\ EnvType
               /\ born \in Policies /\ owned \in SUBSET Ids
BY DEF TypeOK, APIType, PassType, CloudType, EnvType

(* What an action leaves alone keeps its type.                             *)
LEMMA Unchanged ==
    /\ CloudType /\ UNCHANGED cloudVars => CloudType'
    /\ EnvType /\ UNCHANGED <<envVars, mishaps>> => EnvType'
    /\ PassType /\ UNCHANGED passVars => PassType'
    /\ APIType /\ UNCHANGED apiVars => APIType'
BY DEF CloudType, EnvType, PassType, APIType, cloudVars, envVars, passVars, apiVars

(* What a pass reads, cached or not, is well typed.                        *)
LEMMA ViewType ==
    ASSUME TypeOK
    PROVE  /\ NetView \in Network /\ ClusterView \in 0..MaxClusters
           /\ MachineView \in {"none", "booting", "ready"}
BY DEF TypeOK, NetView, ClusterView, MachineView

(* The end of a pass leaves well-typed locals.                             *)
LEMMA ReturnType == Return => PassType'
BY NoNetworkType, StatusFacts DEF Return, PassType, PCs, Kinds

(* A patch of the conditions writes a truth value.                         *)
LEMMA WrittenReadyType ==
    ASSUME TypeOK, NEW v \in BOOLEAN PROVE WrittenReady(v) \subseteq BOOLEAN
BY DEF TypeOK, WrittenReady, Network

(* fail keeps the types.                                                   *)
LEMMA FailType == TypeOK /\ Fail => net' \in Network /\ PassType'
BY ReturnType, WrittenReadyType, EditType DEF Fail, TypeOK

(* setCondition keeps the types, written or not.                           *)
LEMMA SetConditionType ==
    ASSUME TypeOK, setCondition
    PROVE  net' \in Network /\ obj' \in Network /\ mishaps' \in 0..MaxMishaps
<1>1. obj.ready \in BOOLEAN
  BY DEF TypeOK, Network
<1>2. CASE ConditionWritten
  <2>1. PICK r \in WrittenReady(obj.ready) : net' = [net EXCEPT !.ready = r]
    BY <1>2 DEF ConditionWritten
  <2>2. r \in BOOLEAN
    BY <1>1, <2>1, WrittenReadyType
  <2>3. net' \in Network
    BY <2>1, <2>2, EditType DEF TypeOK
  <2>. QED
    BY <1>2, <2>3 DEF ConditionWritten, TypeOK
<1>3. CASE ConditionNotWritten
  BY <1>3, Bounds DEF ConditionNotWritten, TypeOK
<1>. QED
  BY <1>2, <1>3 DEF setCondition

Typed == APIType /\ PassType /\ CloudType /\ EnvType

(* A step of the pass that touches only the object and the pass's locals.  *)
LEMMA LocalStepType ==
    ASSUME TypeOK, net' \in Network, PassType',
           UNCHANGED <<seen, cloudVars, envVars, mishaps>>
    PROVE  Typed'
BY TypeParts, Unchanged DEF Typed, APIType

(* The same with setCondition, which may spend a fault.                    *)
LEMMA ConditionStepType ==
    ASSUME TypeOK, setCondition, PassType', UNCHANGED <<seen, cloudVars, envVars>>
    PROVE  Typed'
<1>1. net' \in Network /\ mishaps' \in 0..MaxMishaps
  BY SetConditionType
<1>2. EnvType'
  BY <1>1, TypeParts DEF EnvType, envVars
<1>. QED
  BY <1>1, <1>2, TypeParts, Unchanged DEF Typed, APIType

(* patchStatus with a well-typed status keeps the types.                   *)
LEMMA PatchThenType ==
    ASSUME TypeOK, NEW new \in Network, NEW next \in PCs, NEW k \in Kinds,
           PatchThen(new, next, k)
    PROVE  net' \in Network /\ PassType'
<1>1. net' \in Network /\ obj' \in Network
  BY MergeType DEF PatchThen, PatchStatus, TypeOK
<1>. QED
  BY <1>1 DEF PatchThen, TypeOK, PassType

(* An answer of an Ensure call keeps the types.                            *)
LEMMA EnsuredType ==
    ASSUME TypeOK, NEW id \in Ids, NEW name \in Names,
           Ensured(kind, id, name)
    PROVE  net' \in Network /\ PassType'
<1>1. kind \in Kinds /\ got \in [Kinds -> Resource]
  BY DEF TypeOK
<1>2. [id |-> id, name |-> name] \in Resource
  BY DEF Resource
<1>3. got' \in [Kinds -> Resource]
  BY <1>1, <1>2 DEF Ensured
<1>4. pc' \in PCs /\ kind' \in Kinds
  BY <1>1 DEF Ensured, CallAfter, Following, PCs, Kinds
<1>. QED
  BY <1>3, <1>4 DEF Ensured, TypeOK, PassType

(* Reconcile up to the dispatch on the policy                              *)
LEMMA DispatchType ==
    ASSUME TypeOK,
           \/ Begin \/ AddFinalizer \/ ClusterNotFound \/ AddOwner \/ ClusterFound
           \/ ClusterBound \/ DeleteOrphan \/ Authorize \/ Refuse
    PROVE  Typed'
<1>. USE DEF TypeOK
<1>1. CASE Begin
  <2>1. PassType'
    BY <1>1, ViewType DEF Begin, FirstCall, PassType, PCs
  <2>. QED
    BY <1>1, <2>1, LocalStepType DEF Begin
<1>2. CASE AddFinalizer
  <2>1. net' \in Network /\ PassType'
    BY <1>2, EditType, ReturnType DEF AddFinalizer
  <2>. QED
    BY <1>2, <2>1, LocalStepType DEF AddFinalizer
<1>3. CASE ClusterNotFound
  <2>1. obj' \in Network
    BY <1>3, SetConditionType DEF ClusterNotFound
  <2>2. PassType'
    BY <1>3, <2>1 DEF ClusterNotFound, PassType, AfterBind, PCs
  <2>. QED
    BY <1>3, <2>2, ConditionStepType DEF ClusterNotFound
<1>4. CASE AddOwner
  <2>1. obj.owners \cup {ClusterView} \in SUBSET (1..MaxClusters)
    BY <1>4, ViewType, Bounds DEF AddOwner, Network
  <2>2. [net EXCEPT !.owners = obj.owners \cup {ClusterView}] \in Network
    BY <2>1 DEF Network
  <2>3. net' \in Network /\ PassType'
    BY <1>4, <2>2, ReturnType DEF AddOwner
  <2>. QED
    BY <1>4, <2>3, LocalStepType DEF AddOwner
<1>5. CASE ClusterFound
  <2>1. [obj EXCEPT !.clusterUID = ClusterView] \in Network
    BY ViewType, EditType
  <2>2. CASE obj.clusterUID = ClusterView
    <3>1. net' \in Network /\ PassType'
      BY <1>5, <2>2 DEF ClusterFound, PassType, PCs
    <3>. QED
      BY <1>5, <3>1, LocalStepType DEF ClusterFound
  <2>3. CASE obj.clusterUID # ClusterView
    <3>1. net' \in Network /\ obj' \in Network
      BY <1>5, <2>1, <2>3, MergeType DEF ClusterFound, PatchStatus
    <3>2. PassType'
      BY <1>5, <2>3, <3>1 DEF ClusterFound, PassType, PCs
    <3>. QED
      BY <1>5, <3>1, <3>2, LocalStepType DEF ClusterFound
  <2>. QED
    BY <2>2, <2>3
<1>6. CASE ClusterBound
  <2>1. obj' \in Network
    BY <1>6, SetConditionType DEF ClusterBound
  <2>2. PassType'
    BY <1>6, <2>1 DEF ClusterBound, PassType, AfterBind, PCs
  <2>. QED
    BY <1>6, <2>2, ConditionStepType DEF ClusterBound
<1>7. CASE DeleteOrphan
  <2>1. net' \in Network /\ PassType'
    BY <1>7, EditType, ReturnType DEF DeleteOrphan
  <2>. QED
    BY <1>7, <2>1, LocalStepType DEF DeleteOrphan
<1>8. CASE Authorize
  <2>1. obj' \in Network
    BY <1>8, SetConditionType DEF Authorize
  <2>2. obj'.policy \in Policies
    BY <2>1 DEF Network
  <2>3. PolicyCall(obj') \in PCs
    BY <2>2 DEF PolicyCall, PCs, Policies
  <2>4. PassType'
    BY <1>8, <2>1, <2>2, <2>3 DEF Authorize, PassType
  <2>. QED
    BY <1>8, <2>4, ConditionStepType DEF Authorize
<1>9. CASE Refuse
  <2>1. net' \in Network /\ PassType'
    BY <1>9, FailType DEF Refuse
  <2>. QED
    BY <1>9, <2>1, LocalStepType DEF Refuse
<1>. QED
  BY <1>1, <1>2, <1>3, <1>4, <1>5, <1>6, <1>7, <1>8, <1>9

(* reconcileManaged, reconcileObserve and reconcileAdopt                   *)
LEMMA LiveType ==
    ASSUME TypeOK,
           \/ OwnershipToken \/ EnsureKnown \/ EnsureFound \/ Record
           \/ Finish \/ Observe \/ Adopt \/ Claim
    PROVE  Typed'
<1>. USE DEF TypeOK
<1>1. CASE OwnershipToken
  <2>1. net' \in Network /\ PassType'
    BY <1>1, EditType, PatchThenType DEF OwnershipToken, PCs
  <2>. QED
    BY <1>1, <2>1, LocalStepType DEF OwnershipToken
<1>2. CASE EnsureKnown
  <2>1. net' \in Network /\ PassType'
    BY <1>2, EnsuredType, FailType DEF EnsureKnown
  <2>. QED
    BY <1>2, <2>1, LocalStepType DEF EnsureKnown
<1>3. CASE EnsureFound
  <2>1. Found(kind) \subseteq Ids
    BY DEF Found
  <2>2. net' \in Network /\ PassType'
    BY <1>3, <2>1, EnsuredType, FailType DEF EnsureFound
  <2>. QED
    BY <1>3, <2>2, LocalStepType DEF EnsureFound
<1>4. CASE Record
  <2>1. [id |-> got[kind].id, name |-> got[kind].name, managed |-> TRUE]
            \in ResourceStatus
    BY DEF ResourceStatus, Resource
  <2>2. CallAfter(kind) \in PCs /\ Following(kind) \in Kinds
    BY DEF CallAfter, Following, PCs, Kinds
  <2>3. net' \in Network /\ PassType'
    BY <1>4, <2>1, <2>2, EditType, PatchThenType DEF Record
  <2>. QED
    BY <1>4, <2>3, LocalStepType DEF Record
<1>5. CASE Finish
  <2>1. [k \in Kinds |-> Observed(k, k = "sg" /\ route = "Hybrid")]
            \in [Kinds -> ResourceStatus]
    BY DEF Observed, ResourceStatus, Resource
  <2>2. /\ obj.gen \in Nat /\ obj.applied \in SUBSET CIDRs
        /\ obj.cidrs \in SUBSET CIDRs /\ obj.res \in [Kinds -> ResourceStatus]
    BY DEF Network
  <2>3. Finished \in Network
    BY <2>1, <2>2, EditType DEF Finished, FinishedWith
  <2>4. MergeStatus(net, obj, Finished) \in Network
    BY <2>3, MergeType
  <2>5. net' \in Network
    BY <1>5, <2>4, WrittenReadyType, EditType DEF Finish
  <2>6. PassType'
    BY <1>5, ReturnType DEF Finish
  <2>. QED
    BY <1>5, <2>5, <2>6, LocalStepType DEF Finish
<1>6. CASE Observe
  <2>1. DEFINE look == {k \in Kinds : k # "sg" \/ route = "Observe"}
  <2>2. [k \in Kinds |-> IF k \in look
                         THEN [id |-> UserId(k), name |-> cname[UserId(k)]]
                         ELSE NoResource] \in [Kinds -> Resource]
    BY IdFacts, StatusFacts DEF Resource
  <2>3. net' \in Network /\ PassType'
    BY <1>6, <2>2, FailType DEF Observe, PassType, PCs, Kinds
  <2>. QED
    BY <1>6, <2>3, LocalStepType DEF Observe
<1>7. CASE Adopt
  <2>1. [k \in Kinds |-> [id |-> DriverId(k), name |-> cname[DriverId(k)]]]
            \in [Kinds -> Resource]
    BY IdFacts DEF Resource
  <2>2. net' \in Network /\ PassType'
    BY <1>7, <2>1, FailType DEF Adopt, PassType, PCs
  <2>. QED
    BY <1>7, <2>2, LocalStepType DEF Adopt
<1>8. CASE Claim
  <2>1. [k \in Kinds |-> Observed(k, TRUE)] \in [Kinds -> ResourceStatus]
    BY DEF Observed, ResourceStatus, Resource
  <2>2. net' \in Network
    BY <1>8, <2>1, EditType, MergeType DEF Claim
  <2>3. PassType'
    BY <1>8, ReturnType DEF Claim
  <2>. QED
    BY <1>8, <2>2, <2>3, LocalStepType DEF Claim
<1>. QED
  BY <1>1, <1>2, <1>3, <1>4, <1>5, <1>6, <1>7, <1>8

(* A fault spends one of the faults still allowed.                         *)
LEMMA SpendType ==
    ASSUME EnvType, mishaps > 0, mishaps' = mishaps - 1, UNCHANGED envVars
    PROVE  EnvType'
<1>1. mishaps' \in 0..MaxMishaps
  BY Bounds DEF EnvType
<1>. QED
  BY <1>1 DEF EnvType, envVars

(* A cloud that lost a resource is well typed.                             *)
LEMMA GoneType ==
    ASSUME CloudType, NEW i \in Ids, Gone(i) PROVE CloudType'
BY NameFacts DEF CloudType, Gone

(* The calls that create and delete in the cloud or change rules           *)
LEMMA CloudCallType ==
    ASSUME TypeOK,
           \/ EnsureCreated \/ EnsureRules \/ EnsureRulesFails \/ DeleteResource
    PROVE  Typed'
<1>. USE DEF TypeOK
<1>0. /\ RuledGroup \in Ids \cup {NoId}
      /\ RKE2Rules \subseteq Rules
      /\ obj.base \in Bases
  BY DEF RuledGroup, RKE2Rules, Rules, Network, Resource, ResourceStatus, Kinds
<1>1. CASE EnsureCreated
  <2>1. CASE kind = "subnet" /\ got["vpc"].id \notin alive
    <3>1. net' \in Network /\ PassType'
      BY <1>1, <2>1, FailType DEF EnsureCreated
    <3>. QED
      BY <1>1, <2>1, <3>1, LocalStepType DEF EnsureCreated
  <2>2. CASE ~(kind = "subnet" /\ got["vpc"].id \notin alive)
    <3>1. PICK n \in 1..MaxIds :
            /\ alive' = alive \cup {OwnId(kind, n)}
            /\ made' = made \cup {OwnId(kind, n)}
            /\ cname' = [cname EXCEPT ![OwnId(kind, n)] = managedName(obj.base)]
            /\ parent' = [parent EXCEPT ![OwnId(kind, n)] =
                              IF kind = "subnet" THEN got["vpc"].id ELSE NoId]
            /\ Ensured(kind, OwnId(kind, n), managedName(obj.base))
            /\ UNCHANGED <<rules, vm>>
      BY <1>1, <2>2 DEF EnsureCreated
    <3>2. OwnId(kind, n) \in Ids
      BY IdFacts
    <3>3. managedName(obj.base) \in Names
      BY <1>0, NameFacts
    <3>4. got["vpc"].id \in Ids \cup {NoId}
      BY DEF Resource, Kinds
    <3>5. CloudType'
      BY <3>1, <3>2, <3>3, <3>4 DEF CloudType
    <3>6. net' \in Network /\ PassType'
      BY <3>1, <3>2, <3>3, EnsuredType
    <3>. QED
      BY <1>1, <3>5, <3>6, TypeParts, Unchanged DEF EnsureCreated, Typed, APIType
  <2>. QED
    BY <2>1, <2>2
<1>2. CASE EnsureRules
  <2>1. CloudType'
    BY <1>0, <1>2 DEF EnsureRules, CloudType
  <2>2. net' \in Network /\ PassType'
    BY <1>2, FailType DEF EnsureRules, PassType, PCs
  <2>. QED
    BY <1>2, <2>1, <2>2, TypeParts, Unchanged DEF EnsureRules, Typed, APIType
<1>3. CASE EnsureRulesFails
  <2>1. PICK done \in {rules[RuledGroup] \cup A : A \in SUBSET RKE2Rules}
          \cup {(rules[RuledGroup] \cup RKE2Rules) \ R :
                    R \in SUBSET ObsoleteSSHRules} :
            rules' = [rules EXCEPT ![RuledGroup] = done]
    BY <1>3 DEF EnsureRulesFails
  <2>2. RuledGroup \in Ids
    BY <1>3 DEF EnsureRulesFails
  <2>3. rules[RuledGroup] \subseteq Rules
    BY <2>2
  <2>4. done \in SUBSET Rules
    BY <1>0, <2>1, <2>3
  <2>5. CloudType'
    BY <1>3, <2>1, <2>2, <2>4 DEF EnsureRulesFails, CloudType
  <2>6. net' \in Network /\ PassType'
    BY <1>3, FailType DEF EnsureRulesFails
  <2>7. EnvType'
    BY <1>3, TypeParts, SpendType DEF EnsureRulesFails
  <2>. QED
    BY <1>3, <2>5, <2>6, <2>7, TypeParts DEF EnsureRulesFails, Typed, APIType
<1>4. CASE DeleteResource
  <2>. DEFINE i == obj.res[kind].id
  <2>1. CASE i \notin alive
    <3>1. PassType' /\ UNCHANGED cloudVars
      BY <1>4, <2>1 DEF DeleteResource, PassType, PCs
    <3>. QED
      BY <1>4, <3>1, LocalStepType DEF DeleteResource
  <2>2. CASE i \in alive /\ InUse(i)
    <3>1. PassType' /\ UNCHANGED cloudVars
      BY <1>4, <2>2, ReturnType DEF DeleteResource
    <3>. QED
      BY <1>4, <3>1, LocalStepType DEF DeleteResource
  <2>3. CASE i \in alive /\ ~InUse(i)
    <3>1. Gone(i) /\ pc' = "forget" /\ UNCHANGED <<kind, route, obj, got>>
      BY <1>4, <2>3 DEF DeleteResource
    <3>2. CloudType'
      BY <2>3, <3>1, GoneType, TypeParts
    <3>3. PassType'
      BY <3>1 DEF PassType, PCs
    <3>. QED
      BY <1>4, <3>2, <3>3, TypeParts, Unchanged DEF DeleteResource, Typed, APIType
  <2>. QED
    BY <2>1, <2>2, <2>3
<1>. QED
  BY <1>1, <1>2, <1>3, <1>4

(* The rest of reconcileDelete, failing calls and restarts                 *)
LEMMA DeleteType ==
    ASSUME TypeOK,
           \/ Wait \/ Drained \/ Verify \/ ForgetResource \/ Release
           \/ CallFails \/ Crash
    PROVE  Typed'
<1>. USE DEF TypeOK
<1>1. CASE Wait
  <2>1. obj.ready \in BOOLEAN
    BY DEF Network
  <2>2. WrittenReady(obj.ready) \subseteq BOOLEAN
    BY <2>1, WrittenReadyType
  <2>3. net' = net \/ \E r \in WrittenReady(obj.ready) :
                         net' = [net EXCEPT !.ready = r]
    BY <1>1, Zenon DEF Wait
  <2>5. net' \in Network
    BY <2>2, <2>3, ReadyType
  <2>4. PassType'
    BY <1>1, ReturnType DEF Wait
  <2>. QED
    BY <1>1, <2>4, <2>5, LocalStepType DEF Wait
<1>2. CASE Drained
  <2>1. PassType'
    BY <1>2 DEF Drained, Target, PassType, PCs, Kinds
  <2>. QED
    BY <1>2, <2>1, LocalStepType DEF Drained
<1>3. CASE Verify
  <2>1. net' \in Network /\ PassType'
    BY <1>3, FailType DEF Verify, PassType, PCs
  <2>. QED
    BY <1>3, <2>1, LocalStepType DEF Verify
<1>4. CASE ForgetResource
  <2>1. net' \in Network /\ PassType'
    BY <1>4, StatusFacts, EditType, MergeType, ReturnType DEF ForgetResource
  <2>. QED
    BY <1>4, <2>1, LocalStepType DEF ForgetResource
<1>5. CASE Release
  <2>1. net' \in Network /\ PassType'
    BY <1>5, EditType, ReturnType DEF Release
  <2>. QED
    BY <1>5, <2>1, LocalStepType DEF Release
<1>6. CASE CallFails
  <2>1. net' \in Network /\ PassType'
    BY <1>6, FailType, ReturnType DEF CallFails
  <2>2. EnvType'
    BY <1>6, TypeParts, SpendType DEF CallFails
  <2>. QED
    BY <1>6, <2>1, <2>2, TypeParts, Unchanged DEF CallFails, Typed, APIType
<1>7. CASE Crash
  <2>1. seen' \in [net : Network, cluster : 0..MaxClusters,
                   machines : {"none", "booting", "ready"}]
    BY <1>7 DEF Crash
  <2>2. EnvType'
    BY <1>7, TypeParts, SpendType DEF Crash
  <2>3. PassType'
    BY <1>7, ReturnType DEF Crash
  <2>. QED
    BY <1>7, <2>1, <2>2, <2>3, TypeParts, Unchanged DEF Crash, Typed, APIType
<1>. QED
  BY <1>1, <1>2, <1>3, <1>4, <1>5, <1>6, <1>7

(* A step of the world that touches only the object.                       *)
LEMMA ObjectStepType ==
    ASSUME TypeOK, net' \in Network,
           UNCHANGED <<seen, passVars, cloudVars, envVars, mishaps>>
    PROVE  Typed'
BY TypeParts, Unchanged DEF Typed, APIType

(* Users, Kubernetes, Rancher, the cloud and the informers                 *)
LEMMA WorldType ==
    ASSUME TypeOK, WorldStep \/ Rename \/ Vanish
    PROVE  Typed'
<1>. USE DEF TypeOK
<1>1. CASE EditPolicy
  <2>1. PICK p \in Policies : Edit([net EXCEPT !.policy = p])
    BY <1>1 DEF EditPolicy
  <2>. QED
    BY <2>1, EditType, ObjectStepType DEF Edit
<1>2. CASE EditCIDRs
  <2>1. PICK cs \in SUBSET CIDRs : Edit([net EXCEPT !.cidrs = cs])
    BY <1>2 DEF EditCIDRs
  <2>. QED
    BY <2>1, EditType, ObjectStepType DEF Edit
<1>3. CASE EditName
  <2>1. PICK b \in Bases : Edit([net EXCEPT !.base = b])
    BY <1>3 DEF EditName
  <2>. QED
    BY <2>1, EditType, ObjectStepType DEF Edit
<1>4. CASE UserDelete
  BY <1>4, EditType, ObjectStepType DEF UserDelete
<1>5. CASE GarbageCollect
  BY <1>5, EditType, ObjectStepType DEF GarbageCollect
<1>6. CASE CreateCluster \/ DeleteCluster
  <2>1. cluster' \in 0..MaxClusters /\ uids' \in 0..MaxClusters
    BY <1>6, Bounds DEF CreateCluster, DeleteCluster
  <2>2. EnvType'
    BY <1>6, <2>1, TypeParts DEF CreateCluster, DeleteCluster, EnvType
  <2>. QED
    BY <1>6, <2>2, TypeParts, Unchanged DEF CreateCluster, DeleteCluster, Typed
<1>7. CASE AddMachine
  <2>1. late' \in BOOLEAN
    BY <1>7, Zenon DEF AddMachine
  <2>2. EnvType'
    BY <1>7, <2>1, TypeParts DEF AddMachine, EnvType
  <2>. QED
    BY <1>7, <2>2, TypeParts, Unchanged DEF AddMachine, Typed
<1>8. CASE TimePasses
  <2>1. EnvType'
    BY <1>8, TypeParts DEF TimePasses, EnvType
  <2>. QED
    BY <1>8, <2>1, TypeParts, Unchanged DEF TimePasses, Typed
<1>9. CASE MachineBoots \/ RemoveMachine
  <2>1. vm' \in [subnet : Ids \cup {NoId}, sg : Ids \cup {NoId}]
    BY <1>9 DEF MachineBoots, RemoveMachine, NoVM
  <2>2. CloudType'
    BY <1>9, <2>1 DEF MachineBoots, RemoveMachine, CloudType
  <2>3. EnvType'
    BY <1>9, TypeParts DEF MachineBoots, RemoveMachine, EnvType
  <2>. QED
    BY <1>9, <2>2, <2>3, TypeParts, Unchanged DEF MachineBoots, RemoveMachine, Typed
<1>10. CASE MachineBootsOnOwnNetwork
  <2>1. DriverId("subnet") \in Ids /\ DriverId("vpc") \in Ids /\ DriverId("sg") \in Ids
    BY IdFacts DEF Kinds
  <2>2. vm' \in [subnet : Ids \cup {NoId}, sg : Ids \cup {NoId}]
    BY <1>10, <2>1 DEF MachineBootsOnOwnNetwork
  <2>3. /\ alive' \in SUBSET Ids /\ made' \in SUBSET Ids
        /\ cname' \in [Ids -> Names] /\ parent' \in [Ids -> Ids \cup {NoId}]
    BY <1>10, <2>1, IdFacts, NameFacts DEF MachineBootsOnOwnNetwork
  <2>4. CloudType'
    BY <1>10, <2>2, <2>3 DEF MachineBootsOnOwnNetwork, CloudType
  <2>5. EnvType'
    BY <1>10, TypeParts DEF MachineBootsOnOwnNetwork, EnvType
  <2>. QED
    BY <1>10, <2>4, <2>5, TypeParts, Unchanged DEF MachineBootsOnOwnNetwork, Typed
<1>11. CASE ServerGone
  <2>1. CloudType'
    BY <1>11 DEF ServerGone, CloudType, NoVM
  <2>. QED
    BY <1>11, <2>1, TypeParts, Unchanged DEF ServerGone, Typed
<1>12. CASE SyncNetwork \/ SyncCluster \/ SyncMachines
  <2>1. seen' \in [net : Network, cluster : 0..MaxClusters,
                   machines : {"none", "booting", "ready"}]
    BY <1>12 DEF SyncNetwork, SyncCluster, SyncMachines
  <2>. QED
    BY <1>12, <2>1, TypeParts, Unchanged
       DEF SyncNetwork, SyncCluster, SyncMachines, Typed, APIType
<1>13. CASE Rename
  <2>1. CloudType'
    BY <1>13, NameFacts DEF Rename, CloudType
  <2>2. EnvType'
    BY <1>13, TypeParts, SpendType DEF Rename
  <2>. QED
    BY <1>13, <2>1, <2>2, TypeParts, Unchanged DEF Rename, Typed
<1>14. CASE Vanish
  <2>1. CloudType'
    BY <1>14, TypeParts, GoneType DEF Vanish
  <2>2. EnvType'
    BY <1>14, TypeParts, SpendType DEF Vanish
  <2>. QED
    BY <1>14, <2>1, <2>2, TypeParts, Unchanged DEF Vanish, Typed
<1>. QED
  BY <1>1, <1>2, <1>3, <1>4, <1>5, <1>6, <1>7, <1>8, <1>9, <1>10, <1>11, <1>12,
     <1>13, <1>14 DEF WorldStep

(* Every action keeps every variable in its type.                          *)
LEMMA TypeNext == TypeOK /\ [Next]_vars => TypeOK'
<1>1. ASSUME TypeOK, Next PROVE TypeOK'
  <2>1. Typed'
    BY <1>1, DispatchType, LiveType, CloudCallType, DeleteType, WorldType
       DEF Next, PassStep, FaultStep
  <2>2. born' \in Policies /\ owned' \in SUBSET Ids
    BY <1>1, <2>1, ManagedIdsType DEF Next, History, TypeOK, Typed, APIType
  <2>. QED
    BY <2>1, <2>2 DEF TypeOK, Typed, APIType, PassType, CloudType, EnvType
<1>2. ASSUME TypeOK, UNCHANGED vars PROVE TypeOK'
  BY <1>2 DEF TypeOK, vars
<1>. QED
  BY <1>1, <1>2

(* Every variable keeps its type, for every choice of policies, edits,     *)
(* lagging informers, faults and bounds.                                   *)
THEOREM TypeCorrect == Spec => []TypeOK
BY TypeInit, TypeNext, PTL DEF Spec

-----------------------------------------------------------------------------
(* Resources the user brought stay untouched                               *)

(* Edits that keep the kind of ownership the object was created with:      *)
(* to Abandon, or between the two policies that own the whole network.     *)
Claiming  == {"Managed", "Adopt"}
SafeEdits == {e \in Policies \X Policies :
                e[2] = "Abandon" \/ (e[1] \in Claiming /\ e[2] \in Claiming)}

(* The policies an object may then have, and the kinds it may then own.    *)
BornPolicies(b) == {b, "Abandon"} \cup (IF b \in Claiming THEN Claiming ELSE {})
MayOwn(b, k)    == b \in Claiming \/ (b = "Hybrid" /\ k = "sg")

(* A version of the object, a cached or local copy included, marks nothing *)
(* managed that it may not own, and names no resource of the user's where  *)
(* it may own one.                                                         *)
CopyOK(b, n) ==
    /\ n.policy \in BornPolicies(b)
    /\ \A k \in Kinds : IF MayOwn(b, k) THEN n.res[k].id \notin UserIds
                                         ELSE ~n.res[k].managed

(* What each point of a pass relies on.                                    *)
PassOK ==
    /\ route \in BornPolicies(born) \cup {"none"}
    /\ \A k \in Kinds : MayOwn(born, k) => got[k].id \notin UserIds
    /\ pc \in {"token", "ensure", "record"} =>
          route = "Managed" \/ (route = "Hybrid" /\ kind = "sg")
    /\ pc = "observe" => route \in {"Observe", "Hybrid"}
    /\ pc \in {"adopt", "claim"} => route = "Adopt"
    /\ pc = "rules" => route \in {"Managed", "Hybrid", "Adopt"}
    /\ pc = "finish" => route \in {"Managed", "Hybrid", "Adopt", "Observe"}
    /\ pc \in {"verify", "delete"} => obj.res[kind].managed

UserCloudOK ==
    /\ UserIds \subseteq alive
    /\ \A i \in UserIds : rules[i] = {} /\ cname[i] = UserName

ForeignInv ==
    /\ CopyOK(born, net) /\ CopyOK(born, seen.net) /\ CopyOK(born, obj)
    /\ PassOK /\ UserCloudOK

(* No id and no name of the controller or the driver is the user's.        *)
LEMMA UserIdFacts ==
    /\ NoId \notin UserIds
    /\ \A k \in Kinds : DriverId(k) \notin UserIds
    /\ \A k \in Kinds : \A n : OwnId(k, n) \notin UserIds
    /\ \A b : managedName(b) # UserName
    /\ UserId("sg") \in UserIds
BY DEF NoId, UserIds, DriverId, OwnId, managedName, UserName, UserId, Kinds

(* Only the policy and the recorded resources matter.                      *)
LEMMA CopySame ==
    ASSUME NEW b, NEW n, NEW m, CopyOK(b, n), m.policy = n.policy, m.res = n.res
    PROVE  CopyOK(b, m)
BY DEF CopyOK

(* The Ready condition plays no part in CopyOK.                            *)
LEMMA CopyReady ==
    ASSUME NEW b, NEW n \in Network, NEW r, CopyOK(b, n)
    PROVE  CopyOK(b, [n EXCEPT !.ready = r])
BY CopySame DEF Network

(* The blank copy names nothing.                                           *)
LEMMA CopyNone == \A b : CopyOK(b, NoNetwork)
BY UserIdFacts DEF CopyOK, NoNetwork, NewNetwork, NoStatus, BornPolicies

(* The deletion mark plays no part in CopyOK.                              *)
LEMMA CopyDeleted ==
    ASSUME NEW b, NEW n \in Network, CopyOK(b, n) PROVE CopyOK(b, MarkDeleted(n))
<1>1. MarkDeleted(n).policy = n.policy /\ MarkDeleted(n).res = n.res
  BY DEF MarkDeleted, Network
<1>. QED
  BY <1>1, CopySame

(* A merge mixes two versions field by field: whichever copy the patch was *)
(* computed against, each field comes from a version that is all right.    *)
LEMMA CopyMerge ==
    ASSUME NEW b, NEW cur \in Network, NEW base \in Network, NEW new \in Network,
           CopyOK(b, cur), CopyOK(b, new)
    PROVE  CopyOK(b, MergeStatus(cur, base, new))
<1>. DEFINE m == MergeStatus(cur, base, new)
<1>1. m.policy = cur.policy
  BY DEF MergeStatus, Network
<1>2. m.res = [k \in Kinds |->
            [id |-> Pick(cur.res[k].id, base.res[k].id, new.res[k].id),
             name |-> Pick(cur.res[k].name, base.res[k].name, new.res[k].name),
             managed |-> Pick(cur.res[k].managed, base.res[k].managed,
                              new.res[k].managed)]]
  BY DEF MergeStatus, Network
<1>3. ASSUME NEW k \in Kinds
      PROVE  /\ m.res[k].id \in {cur.res[k].id, new.res[k].id}
             /\ m.res[k].managed \in {cur.res[k].managed, new.res[k].managed}
  BY <1>2 DEF Pick
<1>. HIDE DEF m
<1>4. ASSUME NEW k \in Kinds
      PROVE  IF MayOwn(b, k) THEN m.res[k].id \notin UserIds ELSE ~m.res[k].managed
  BY <1>3 DEF CopyOK
<1>. QED
  BY <1>1, <1>4 DEF CopyOK, m

(* The end of a pass: nothing is left to rely on.                          *)
LEMMA ReturnForeign ==
    ASSUME Return, born' = born PROVE CopyOK(born, obj') /\ PassOK'
BY CopyNone, UserIdFacts DEF Return, PassOK, NothingGot, NoResource

(* fail keeps the copies and the pass as ForeignInv wants them.            *)
LEMMA FailForeign ==
    ASSUME TypeOK, ForeignInv, Fail, born' = born
    PROVE  CopyOK(born, net') /\ CopyOK(born, obj') /\ PassOK'
<1>1. net' = net \/ \E r \in WrittenReady(FALSE) : net' = [net EXCEPT !.ready = r]
  BY Zenon DEF Fail
<1>2. CopyOK(born, net')
  <2>1. net \in Network /\ CopyOK(born, net)
    BY DEF ForeignInv, TypeOK
  <2>2. \A r : CopyOK(born, [net EXCEPT !.ready = r])
    BY <2>1, CopyReady
  <2>. QED
    BY <1>1, <2>1, <2>2, Zenon
<1>. QED
  BY <1>2, ReturnForeign DEF Fail

(* setCondition does too.                                                  *)
LEMMA SetConditionForeign ==
    ASSUME TypeOK, ForeignInv, setCondition
    PROVE  CopyOK(born, net') /\ CopyOK(born, obj')
BY CopyReady
   DEF setCondition, ConditionWritten, ConditionNotWritten, ForeignInv, TypeOK

(* A step that leaves the cloud and the caches alone.                      *)
LEMMA LocalStepForeign ==
    ASSUME ForeignInv, born' = born, UNCHANGED <<seen, cloudVars>>,
           CopyOK(born, net'), CopyOK(born, obj'), PassOK'
    PROVE  ForeignInv'
BY DEF ForeignInv, UserCloudOK, cloudVars

(* Reconcile up to the dispatch on the policy.                             *)
LEMMA DispatchForeign ==
    ASSUME TypeOK, ForeignInv, born' = born,
           \/ Begin \/ AddFinalizer \/ ClusterNotFound \/ AddOwner \/ ClusterFound
           \/ ClusterBound \/ DeleteOrphan \/ Authorize \/ Refuse
    PROVE  ForeignInv'
<1>0. /\ net \in Network /\ obj \in Network
      /\ CopyOK(born, net) /\ CopyOK(born, obj) /\ CopyOK(born, NetView)
      /\ PassOK
  BY DEF TypeOK, ForeignInv, NetView
<1>1. CASE Begin
  <2>1. PassOK'
    BY <1>0, <1>1 DEF Begin, PassOK, FirstCall
  <2>. QED
    BY <1>0, <1>1, <2>1, LocalStepForeign DEF Begin
<1>2. CASE AddFinalizer
  <2>1. CopyOK(born, [net EXCEPT !.fin = TRUE])
    BY <1>0, CopySame DEF Network
  <2>2. CopyOK(born, net')
    BY <1>0, <1>2, <2>1 DEF AddFinalizer
  <2>. QED
    BY <1>2, <2>2, ReturnForeign, LocalStepForeign DEF AddFinalizer
<1>3. CASE ClusterNotFound
  <2>1. CopyOK(born, net') /\ CopyOK(born, obj')
    BY <1>3, SetConditionForeign DEF ClusterNotFound
  <2>2. PassOK'
    BY <1>0, <1>3 DEF ClusterNotFound, PassOK, AfterBind
  <2>. QED
    BY <1>3, <2>1, <2>2, LocalStepForeign DEF ClusterNotFound
<1>4. CASE AddOwner
  <2>1. CopyOK(born, [net EXCEPT !.owners = obj.owners \cup {ClusterView}])
    BY <1>0, CopySame DEF Network
  <2>2. CopyOK(born, net')
    BY <1>0, <1>4, <2>1 DEF AddOwner
  <2>. QED
    BY <1>4, <2>2, ReturnForeign, LocalStepForeign DEF AddOwner
<1>5. CASE ClusterFound
  <2>1. CASE obj.clusterUID = ClusterView
    <3>1. PassOK' /\ UNCHANGED <<net, obj>>
      BY <1>0, <1>5, <2>1 DEF ClusterFound, PassOK
    <3>. QED
      BY <1>0, <1>5, <3>1, LocalStepForeign DEF ClusterFound
  <2>2. CASE obj.clusterUID # ClusterView
    <3>. DEFINE new == [obj EXCEPT !.clusterUID = ClusterView]
    <3>1. new \in Network
      BY <1>0, ViewType, EditType
    <3>2. CopyOK(born, new)
      BY <1>0, CopySame DEF Network
    <3>3. CopyOK(born, MergeStatus(net, obj, new))
      BY <1>0, <3>1, <3>2, CopyMerge
    <3>4. CopyOK(born, net') /\ CopyOK(born, obj')
      BY <1>5, <2>2, <3>3 DEF ClusterFound, PatchStatus
    <3>5. PassOK'
      BY <1>0, <1>5, <2>2 DEF ClusterFound, PassOK
    <3>. QED
      BY <1>5, <3>4, <3>5, LocalStepForeign DEF ClusterFound
  <2>. QED
    BY <2>1, <2>2
<1>6. CASE ClusterBound
  <2>1. CopyOK(born, net') /\ CopyOK(born, obj')
    BY <1>6, SetConditionForeign DEF ClusterBound
  <2>2. PassOK'
    BY <1>0, <1>6 DEF ClusterBound, PassOK, AfterBind
  <2>. QED
    BY <1>6, <2>1, <2>2, LocalStepForeign DEF ClusterBound
<1>7. CASE DeleteOrphan
  <2>1. CopyOK(born, net')
    BY <1>0, <1>7, CopyDeleted DEF DeleteOrphan
  <2>. QED
    BY <1>7, <2>1, ReturnForeign, LocalStepForeign DEF DeleteOrphan
<1>8. CASE Authorize
  <2>1. CopyOK(born, net') /\ CopyOK(born, obj')
    BY <1>8, SetConditionForeign DEF Authorize
  <2>2. obj'.policy \in BornPolicies(born)
    BY <2>1 DEF CopyOK
  <2>3. kind' = kind /\ got' = got /\ route' = obj'.policy /\ pc' = PolicyCall(obj')
    BY <1>8 DEF Authorize
  <2>4. PassOK'
    BY <1>0, <2>2, <2>3 DEF PassOK, PolicyCall
  <2>. QED
    BY <1>8, <2>1, <2>4, LocalStepForeign DEF Authorize
<1>9. CASE Refuse
  BY <1>9, FailForeign, LocalStepForeign DEF Refuse
<1>. QED
  BY <1>1, <1>2, <1>3, <1>4, <1>5, <1>6, <1>7, <1>8, <1>9

(* A kind the pass records may be owned.                                   *)
LEMMA RecordsOwn ==
    ASSUME PassOK, pc \in {"token", "ensure", "record"}, kind \in Kinds
    PROVE  MayOwn(born, kind)
BY DEF PassOK, BornPolicies, MayOwn, Claiming

(* patchStatus does, if the new status does.                               *)
LEMMA PatchThenForeign ==
    ASSUME TypeOK, ForeignInv, born' = born,
           pc \in {"token", "record"}, NEW new \in Network, CopyOK(born, new),
           NEW next \in {"ensure", "rules"}, NEW k \in Kinds, kind = "sg" => k = "sg",
           PatchThen(new, next, k)
    PROVE  CopyOK(born, net') /\ CopyOK(born, obj') /\ PassOK'
<1>0. net \in Network /\ obj \in Network /\ CopyOK(born, net) /\ PassOK
  BY DEF TypeOK, ForeignInv
<1>1. CopyOK(born, MergeStatus(net, obj, new))
  BY <1>0, CopyMerge
<1>2. CopyOK(born, net') /\ CopyOK(born, obj')
  BY <1>1 DEF PatchThen, PatchStatus
<1>3. PassOK'
  BY <1>0 DEF PatchThen, PassOK
<1>. QED
  BY <1>2, <1>3

(* An Ensure call does, if its answer is not the user's.                   *)
LEMMA EnsuredForeign ==
    ASSUME TypeOK, ForeignInv, born' = born, pc = "ensure",
           NEW id, id \notin UserIds, NEW name, Ensured(kind, id, name)
    PROVE  CopyOK(born, net') /\ CopyOK(born, obj') /\ PassOK'
<1>0. kind \in Kinds /\ got \in [Kinds -> Resource] /\ PassOK
  BY DEF TypeOK, ForeignInv
<1>1. \A k \in Kinds : MayOwn(born, k) => got'[k].id \notin UserIds
  BY <1>0 DEF Ensured, PassOK
<1>2. PassOK'
  BY <1>0, <1>1 DEF Ensured, PassOK, CallAfter, Following
<1>. QED
  BY <1>2 DEF Ensured, ForeignInv

(* reconcileManaged, reconcileObserve and reconcileAdopt without the calls *)
(* that change the cloud.                                                  *)
LEMMA LiveForeign ==
    ASSUME TypeOK, ForeignInv, born' = born,
           \/ OwnershipToken \/ EnsureKnown \/ EnsureFound \/ Record
           \/ Finish \/ Observe \/ Adopt \/ Claim
    PROVE  ForeignInv'
<1>0. /\ net \in Network /\ obj \in Network /\ kind \in Kinds
      /\ got \in [Kinds -> Resource]
      /\ CopyOK(born, net) /\ CopyOK(born, obj) /\ PassOK /\ UserCloudOK
  BY DEF TypeOK, ForeignInv
<1>1. CASE OwnershipToken
  <2>1. [obj EXCEPT !.token = TRUE] \in Network
    BY <1>0, EditType
  <2>2. CopyOK(born, [obj EXCEPT !.token = TRUE])
    BY <1>0, CopySame DEF Network
  <2>. QED
    BY <1>0, <1>1, <2>1, <2>2, PatchThenForeign, LocalStepForeign DEF OwnershipToken
<1>2. CASE EnsureKnown
  <2>1. obj.res[kind].id \notin UserIds
    BY <1>0, <1>2, RecordsOwn DEF EnsureKnown, CopyOK
  <2>2. CopyOK(born, net') /\ CopyOK(born, obj') /\ PassOK'
    BY <1>2, <2>1, EnsuredForeign, FailForeign DEF EnsureKnown
  <2>. QED
    BY <1>2, <2>2, LocalStepForeign DEF EnsureKnown
<1>3. CASE EnsureFound
  <2>1. \A i \in Found(kind) : i \notin UserIds
    BY <1>0, UserIdFacts DEF Found, UserCloudOK
  <2>2. CopyOK(born, net') /\ CopyOK(born, obj') /\ PassOK'
    BY <1>3, <2>1, EnsuredForeign, FailForeign DEF EnsureFound
  <2>. QED
    BY <1>3, <2>2, LocalStepForeign DEF EnsureFound
<1>4. CASE Record
  <2>. DEFINE r == [id |-> got[kind].id, name |-> got[kind].name, managed |-> TRUE]
              new == [obj EXCEPT !.res[kind] = r]
  <2>1. r \in ResourceStatus
    BY <1>0 DEF ResourceStatus, Resource
  <2>2. new \in Network
    BY <1>0, <2>1, EditType
  <2>3. MayOwn(born, kind) /\ got[kind].id \notin UserIds
    BY <1>0, <1>4, RecordsOwn DEF Record, PassOK
  <2>4. new.policy = obj.policy /\ new.res = [obj.res EXCEPT ![kind] = r]
    BY <1>0 DEF Network
  <2>5. \A k \in Kinds : new.res[k] = IF k = kind THEN r ELSE obj.res[k]
    BY <1>0, <2>4 DEF Network
  <2>6. CopyOK(born, new)
    BY <1>0, <2>3, <2>4, <2>5 DEF CopyOK
  <2>7. CallAfter(kind) \in {"ensure", "rules"} /\ Following(kind) \in Kinds
        /\ (kind = "sg" => Following(kind) = "sg")
    BY DEF CallAfter, Following, Kinds
  <2>. QED
    BY <1>4, <2>2, <2>6, <2>7, PatchThenForeign, LocalStepForeign DEF Record
<1>5. CASE Finish
  <2>1. Finished \in Network
    <3>1. [k \in Kinds |-> Observed(k, k = "sg" /\ route = "Hybrid")]
            \in [Kinds -> ResourceStatus]
      BY <1>0 DEF Observed, ResourceStatus, Resource
    <3>2. /\ obj.gen \in Nat /\ obj.applied \in SUBSET CIDRs
          /\ obj.cidrs \in SUBSET CIDRs /\ obj.res \in [Kinds -> ResourceStatus]
      BY <1>0 DEF Network
    <3>. QED
      BY <1>0, <3>1, <3>2, EditType DEF Finished, FinishedWith
  <2>2. Finished.policy = obj.policy
    BY <1>0 DEF Finished, FinishedWith, Network
  <2>3. ASSUME route \notin {"Observe", "Hybrid"} PROVE CopyOK(born, Finished)
    <3>1. Finished.res = obj.res
      BY <1>0, <2>3 DEF Finished, FinishedWith, Network
    <3>. QED
      BY <1>0, <2>2, <3>1, CopySame
  <2>4. ASSUME route \in {"Observe", "Hybrid"} PROVE CopyOK(born, Finished)
    <3>1. Finished.res = [k \in Kinds |-> Observed(k, k = "sg" /\ route = "Hybrid")]
      BY <1>0, <2>4 DEF Finished, FinishedWith, Network
    <3>2. route \in BornPolicies(born)
      BY <1>0, <2>4 DEF PassOK
    <3>3. ASSUME NEW k \in Kinds
          PROVE  IF MayOwn(born, k) THEN Finished.res[k].id \notin UserIds
                                    ELSE ~Finished.res[k].managed
      <4>1. /\ Finished.res[k].id = got[k].id
            /\ Finished.res[k].managed = (k = "sg" /\ route = "Hybrid")
        BY <3>1 DEF Observed
      <4>2. MayOwn(born, k) => got[k].id \notin UserIds
        BY <1>0 DEF PassOK
      <4>3. ~MayOwn(born, k) => ~(k = "sg" /\ route = "Hybrid")
        BY <3>2 DEF MayOwn, BornPolicies, Claiming
      <4>. QED
        BY <4>1, <4>2, <4>3
    <3>. QED
      BY <1>0, <2>2, <3>3 DEF CopyOK
  <2>5. Finished \in Network /\ CopyOK(born, Finished)
    BY <2>1, <2>3, <2>4
  <2>6. /\ MergeStatus(net, obj, Finished) \in Network
        /\ CopyOK(born, MergeStatus(net, obj, Finished))
    BY <1>0, <2>5, MergeType, CopyMerge
  <2>7. \A r : CopyOK(born, [MergeStatus(net, obj, Finished) EXCEPT !.ready = r])
    BY <2>6, CopyReady
  <2>8. net' = net \/ \E r \in WrittenReady(TRUE) :
            net' = [MergeStatus(net, obj, Finished) EXCEPT !.ready = r]
    BY <1>5, Zenon DEF Finish
  <2>9. CopyOK(born, net')
    BY <1>0, <2>7, <2>8, Zenon
  <2>. QED
    BY <1>5, <2>9, ReturnForeign, LocalStepForeign DEF Finish
<1>6. CASE Observe
  <2>1. route \in {"Observe", "Hybrid"} /\ route \in BornPolicies(born)
    BY <1>0, <1>6 DEF Observe, PassOK
  <2>2. CASE Fail
    BY <1>6, <2>2, FailForeign, LocalStepForeign DEF Observe
  <2>3. CASE ~Fail
    <3>1. /\ got' = [k \in Kinds |->
                       IF k \in {j \in Kinds : j # "sg" \/ route = "Observe"}
                       THEN [id |-> UserId(k), name |-> cname[UserId(k)]]
                       ELSE NoResource]
          /\ pc' = IF route = "Observe" THEN "finish"
                   ELSE IF obj.token THEN "ensure" ELSE "token"
          /\ kind' = "sg"
          /\ UNCHANGED <<net, route, obj>>
      BY <1>6, <2>3 DEF Observe
    <3>2. \A k \in Kinds : MayOwn(born, k) => got'[k].id \notin UserIds
      BY <2>1, <3>1, UserIdFacts
         DEF MayOwn, BornPolicies, Claiming, NoResource
    <3>3. PassOK'
      BY <1>0, <2>1, <3>1, <3>2 DEF PassOK
    <3>. QED
      BY <1>0, <1>6, <3>1, <3>3, LocalStepForeign DEF Observe
  <2>. QED
    BY <2>2, <2>3
<1>7. CASE Adopt
  <2>1. route = "Adopt"
    BY <1>0, <1>7 DEF Adopt, PassOK
  <2>2. CASE Fail
    BY <1>7, <2>2, FailForeign, LocalStepForeign DEF Adopt
  <2>3. CASE ~Fail
    <3>1. /\ got' = [k \in Kinds |-> [id |-> DriverId(k),
                                      name |-> cname[DriverId(k)]]]
          /\ pc' = "claim"
          /\ UNCHANGED <<net, kind, route, obj>>
      BY <1>7, <2>3 DEF Adopt
    <3>2. \A k \in Kinds : got'[k].id \notin UserIds
      BY <3>1, UserIdFacts
    <3>3. PassOK'
      BY <1>0, <2>1, <3>1, <3>2 DEF PassOK
    <3>. QED
      BY <1>0, <1>7, <3>1, <3>3, LocalStepForeign DEF Adopt
  <2>. QED
    BY <2>2, <2>3
<1>8. CASE Claim
  <2>. DEFINE f == [k \in Kinds |-> Observed(k, TRUE)]
              new == [obj EXCEPT !.token = TRUE, !.res = f]
  <2>1. f \in [Kinds -> ResourceStatus]
    BY <1>0 DEF Observed, ResourceStatus, Resource
  <2>2. new \in Network
    BY <1>0, <2>1, EditType
  <2>3. new.policy = obj.policy /\ new.res = f
    BY <1>0 DEF Network
  <2>4. born \in Claiming
    BY <1>0, <1>8 DEF Claim, PassOK, BornPolicies, Claiming
  <2>5. \A k \in Kinds : MayOwn(born, k) /\ f[k].id \notin UserIds
    BY <1>0, <2>4 DEF MayOwn, Observed, PassOK
  <2>6. CopyOK(born, new)
    BY <1>0, <2>3, <2>5 DEF CopyOK
  <2>7. CopyOK(born, net')
    BY <1>0, <1>8, <2>2, <2>6, CopyMerge DEF Claim
  <2>. QED
    BY <1>8, <2>7, ReturnForeign, LocalStepForeign DEF Claim
<1>. QED
  BY <1>1, <1>2, <1>3, <1>4, <1>5, <1>6, <1>7, <1>8

(* A resource that is not the user's may change.                           *)
LEMMA GoneForeign ==
    ASSUME TypeOK, UserCloudOK, NEW i \in Ids \ UserIds, Gone(i) PROVE UserCloudOK'
BY IdFacts DEF TypeOK, UserCloudOK, Gone

(* The calls that create, change and delete cloud resources.               *)
LEMMA CloudCallForeign ==
    ASSUME TypeOK, ForeignInv, born' = born,
           \/ EnsureCreated \/ EnsureRules \/ EnsureRulesFails \/ DeleteResource
    PROVE  ForeignInv'
<1>0. /\ net \in Network /\ obj \in Network /\ kind \in Kinds
      /\ got \in [Kinds -> Resource] /\ cname \in [Ids -> Names]
      /\ rules \in [Ids -> SUBSET Rules] /\ alive \in SUBSET Ids
      /\ CopyOK(born, net) /\ CopyOK(born, obj) /\ CopyOK(born, seen.net)
      /\ PassOK /\ UserCloudOK
  BY DEF TypeOK, ForeignInv
<1>1. CASE EnsureCreated
  <2>1. CASE kind = "subnet" /\ got["vpc"].id \notin alive
    BY <1>1, <2>1, FailForeign, LocalStepForeign DEF EnsureCreated
  <2>2. CASE ~(kind = "subnet" /\ got["vpc"].id \notin alive)
    <3>1. PICK n \in 1..MaxIds :
            /\ alive' = alive \cup {OwnId(kind, n)}
            /\ cname' = [cname EXCEPT ![OwnId(kind, n)] = managedName(obj.base)]
            /\ Ensured(kind, OwnId(kind, n), managedName(obj.base))
            /\ UNCHANGED rules
      BY <1>1, <2>2 DEF EnsureCreated
    <3>2. OwnId(kind, n) \in Ids /\ OwnId(kind, n) \notin UserIds
      BY <1>0, IdFacts, UserIdFacts
    <3>3. UserCloudOK'
      BY <1>0, <3>1, <3>2, IdFacts DEF UserCloudOK
    <3>4. CopyOK(born, net') /\ CopyOK(born, obj') /\ PassOK'
      BY <1>1, <3>1, <3>2, EnsuredForeign DEF EnsureCreated
    <3>. QED
      BY <1>0, <1>1, <3>3, <3>4 DEF EnsureCreated, ForeignInv
  <2>. QED
    BY <2>1, <2>2
<1>2. ASSUME pc = "rules" PROVE RuledGroup \notin UserIds
  <2>1. route \in {"Managed", "Hybrid", "Adopt"} /\ route \in BornPolicies(born)
    BY <1>0, <1>2 DEF PassOK
  <2>2. MayOwn(born, "sg")
    BY <2>1 DEF MayOwn, BornPolicies, Claiming
  <2>. QED
    BY <1>0, <2>2 DEF RuledGroup, CopyOK, PassOK, Kinds
<1>3. CASE EnsureRules
  <2>1. UserCloudOK'
    BY <1>0, <1>2, <1>3, IdFacts DEF EnsureRules, UserCloudOK
  <2>2. CopyOK(born, net') /\ CopyOK(born, obj') /\ PassOK'
    <3>1. CASE Fail
      BY <1>3, <3>1, FailForeign DEF EnsureRules
    <3>2. CASE ~Fail
      BY <1>0, <1>3, <3>2 DEF EnsureRules, PassOK
    <3>. QED
      BY <3>1, <3>2
  <2>. QED
    BY <1>0, <1>3, <2>1, <2>2 DEF EnsureRules, ForeignInv
<1>4. CASE EnsureRulesFails
  <2>1. PICK done : rules' = [rules EXCEPT ![RuledGroup] = done]
    BY <1>4 DEF EnsureRulesFails
  <2>2. UserCloudOK'
    BY <1>0, <1>2, <1>4, <2>1, IdFacts DEF EnsureRulesFails, UserCloudOK
  <2>3. CopyOK(born, net') /\ CopyOK(born, obj') /\ PassOK'
    BY <1>4, FailForeign DEF EnsureRulesFails
  <2>. QED
    BY <1>0, <1>4, <2>2, <2>3 DEF EnsureRulesFails, ForeignInv
<1>5. CASE DeleteResource
  <2>. DEFINE i == obj.res[kind].id
  <2>1. i \notin UserIds
    BY <1>0, <1>5 DEF DeleteResource, PassOK, CopyOK
  <2>2. CASE i \notin alive
    <3>1. PassOK' /\ UNCHANGED <<obj, cloudVars>>
      BY <1>0, <1>5, <2>2 DEF DeleteResource, PassOK
    <3>. QED
      BY <1>0, <1>5, <3>1, LocalStepForeign DEF DeleteResource
  <2>3. CASE i \in alive /\ InUse(i)
    BY <1>0, <1>5, <2>3, ReturnForeign, LocalStepForeign DEF DeleteResource
  <2>4. CASE i \in alive /\ ~InUse(i)
    <3>1. Gone(i) /\ pc' = "forget" /\ UNCHANGED <<kind, route, obj, got>>
      BY <1>5, <2>4 DEF DeleteResource
    <3>2. UserCloudOK'
      BY <1>0, <2>1, <2>4, <3>1, GoneForeign
    <3>3. PassOK'
      BY <1>0, <3>1 DEF PassOK
    <3>. QED
      BY <1>0, <1>5, <3>1, <3>2, <3>3 DEF DeleteResource, ForeignInv
  <2>. QED
    BY <2>2, <2>3, <2>4
<1>. QED
  BY <1>1, <1>3, <1>4, <1>5

(* The rest of reconcileDelete, failing calls and restarts.                *)
LEMMA DeleteForeign ==
    ASSUME TypeOK, ForeignInv, born' = born,
           \/ Wait \/ Drained \/ Verify \/ ForgetResource \/ Release
           \/ CallFails \/ Crash
    PROVE  ForeignInv'
<1>0. /\ net \in Network /\ obj \in Network /\ kind \in Kinds
      /\ CopyOK(born, net) /\ CopyOK(born, obj) /\ CopyOK(born, seen.net)
      /\ PassOK /\ UserCloudOK
  BY DEF TypeOK, ForeignInv
<1>1. CASE Wait
  <2>1. net' = net \/ \E r \in WrittenReady(obj.ready) :
                         net' = [net EXCEPT !.ready = r]
    BY <1>1, Zenon DEF Wait
  <2>2. \A r : CopyOK(born, [net EXCEPT !.ready = r])
    BY <1>0, CopyReady
  <2>3. CopyOK(born, net')
    BY <1>0, <2>1, <2>2, Zenon
  <2>. QED
    BY <1>1, <2>3, ReturnForeign, LocalStepForeign DEF Wait
<1>2. CASE Drained
  <2>1. Remaining(obj) # {} => Target(obj) \in Remaining(obj)
    BY DEF Remaining, Target, Kinds
  <2>2. PassOK'
    BY <1>0, <1>2, <2>1 DEF Drained, PassOK, Remaining
  <2>. QED
    BY <1>0, <1>2, <2>2, LocalStepForeign DEF Drained
<1>3. CASE Verify
  <2>1. CASE Fail
    BY <1>3, <2>1, FailForeign, LocalStepForeign DEF Verify
  <2>2. CASE ~Fail
    <3>1. PassOK' /\ UNCHANGED <<net, obj>>
      BY <1>0, <1>3, <2>2 DEF Verify, PassOK
    <3>. QED
      BY <1>0, <1>3, <3>1, LocalStepForeign DEF Verify
  <2>. QED
    BY <2>1, <2>2
<1>4. CASE ForgetResource
  <2>. DEFINE new == [obj EXCEPT !.res[kind] = NoStatus]
  <2>1. new \in Network
    BY <1>0, StatusFacts, EditType
  <2>2. /\ new.policy = obj.policy
        /\ \A k \in Kinds : new.res[k] = IF k = kind THEN NoStatus ELSE obj.res[k]
    BY <1>0 DEF Network
  <2>3. CopyOK(born, new)
    BY <1>0, <2>2, UserIdFacts DEF CopyOK, NoStatus
  <2>4. CopyOK(born, net')
    BY <1>0, <1>4, <2>1, <2>3, CopyMerge DEF ForgetResource
  <2>. QED
    BY <1>4, <2>4, ReturnForeign, LocalStepForeign DEF ForgetResource
<1>5. CASE Release
  <2>1. net'.policy = net.policy /\ net'.res = net.res
    BY <1>0, <1>5 DEF Release, Network
  <2>2. CopyOK(born, net')
    BY <1>0, <2>1, CopySame
  <2>. QED
    BY <1>5, <2>2, ReturnForeign, LocalStepForeign DEF Release
<1>6. CASE CallFails
  <2>1. CASE Fail
    BY <1>6, <2>1, FailForeign, LocalStepForeign DEF CallFails
  <2>2. CASE net' = net /\ Return
    BY <1>0, <1>6, <2>2, ReturnForeign, LocalStepForeign DEF CallFails
  <2>. QED
    BY <1>6, <2>1, <2>2 DEF CallFails
<1>7. CASE Crash
  <2>1. seen'.net \in {net, seen.net} /\ net' = net
    BY <1>7 DEF Crash
  <2>2. UserCloudOK'
    BY <1>0, <1>7 DEF Crash, UserCloudOK, cloudVars
  <2>3. CopyOK(born, obj') /\ PassOK'
    BY <1>7, ReturnForeign DEF Crash
  <2>. QED
    BY <1>0, <2>1, <2>2, <2>3 DEF ForeignInv
<1>. QED
  BY <1>1, <1>2, <1>3, <1>4, <1>5, <1>6, <1>7

(* A step of the world that leaves the pass, the caches and the cloud      *)
(* alone.                                                                  *)
LEMMA WorldStepForeign ==
    ASSUME ForeignInv, born' = born, CopyOK(born, net'),
           UNCHANGED <<seen, passVars, alive, cname, rules>>
    PROVE  ForeignInv'
BY DEF ForeignInv, PassOK, UserCloudOK, passVars

(* Users, Kubernetes, Rancher, the cloud and the informers.  Here, and     *)
(* only here, it matters which policies a user edits between.              *)
LEMMA WorldForeign ==
    ASSUME TypeOK, ForeignInv, born' = born, PolicyEdits \subseteq SafeEdits,
           WorldStep \/ Rename \/ Vanish
    PROVE  ForeignInv'
<1>0. /\ net \in Network /\ alive \in SUBSET Ids /\ cname \in [Ids -> Names]
      /\ CopyOK(born, net) /\ CopyOK(born, obj) /\ CopyOK(born, seen.net)
      /\ PassOK /\ UserCloudOK
  BY DEF TypeOK, ForeignInv
<1>1. CASE EditPolicy
  <2>1. PICK p \in Policies : /\ <<net.policy, p>> \in PolicyEdits
                              /\ Edit([net EXCEPT !.policy = p])
    BY <1>1 DEF EditPolicy
  <2>2. net'.policy = p /\ net'.res = net.res
    BY <1>0, <2>1 DEF Edit, Network
  <2>3. p = "Abandon" \/ (net.policy \in Claiming /\ p \in Claiming)
    BY <2>1 DEF SafeEdits
  <2>4. p \in BornPolicies(born)
    BY <1>0, <2>3 DEF CopyOK, BornPolicies, Claiming
  <2>5. CopyOK(born, net')
    BY <1>0, <2>2, <2>4 DEF CopyOK
  <2>. QED
    BY <2>1, <2>5, WorldStepForeign DEF Edit, cloudVars
<1>2. CASE EditCIDRs
  <2>1. PICK cs : Edit([net EXCEPT !.cidrs = cs])
    BY <1>2 DEF EditCIDRs
  <2>2. net'.policy = net.policy /\ net'.res = net.res
    BY <1>0, <2>1 DEF Edit, Network
  <2>. QED
    BY <1>0, <2>1, <2>2, CopySame, WorldStepForeign DEF Edit, cloudVars
<1>3. CASE EditName
  <2>1. PICK b : Edit([net EXCEPT !.base = b])
    BY <1>3 DEF EditName
  <2>2. net'.policy = net.policy /\ net'.res = net.res
    BY <1>0, <2>1 DEF Edit, Network
  <2>. QED
    BY <1>0, <2>1, <2>2, CopySame, WorldStepForeign DEF Edit, cloudVars
<1>4. CASE UserDelete \/ GarbageCollect
  <2>1. CopyOK(born, net')
    BY <1>0, <1>4, CopyDeleted DEF UserDelete, GarbageCollect
  <2>. QED
    BY <1>4, <2>1, WorldStepForeign DEF UserDelete, GarbageCollect, cloudVars
<1>5. CASE \/ CreateCluster \/ DeleteCluster \/ AddMachine \/ TimePasses
          \/ MachineBoots \/ RemoveMachine \/ ServerGone
  <2>1. UNCHANGED <<net, seen, passVars, alive, cname, rules>>
    BY <1>5 DEF CreateCluster, DeleteCluster, AddMachine, TimePasses, MachineBoots,
                RemoveMachine, ServerGone, cloudVars, apiVars
  <2>. QED
    BY <1>0, <2>1, WorldStepForeign
<1>6. CASE MachineBootsOnOwnNetwork
  <2>1. \A i \in UserIds : i \in Ids /\ i \notin DriverIds
    BY IdFacts DEF UserIds, DriverIds
  <2>2. UserCloudOK'
    BY <1>0, <1>6, <2>1 DEF MachineBootsOnOwnNetwork, UserCloudOK
  <2>. QED
    BY <1>0, <1>6, <2>2
       DEF MachineBootsOnOwnNetwork, ForeignInv, PassOK, passVars, apiVars
<1>7. CASE SyncNetwork \/ SyncCluster \/ SyncMachines
  <2>1. seen'.net \in {net, seen.net} /\ net' = net
    BY <1>7 DEF SyncNetwork, SyncCluster, SyncMachines, TypeOK
  <2>2. UNCHANGED <<passVars, cloudVars>>
    BY <1>7 DEF SyncNetwork, SyncCluster, SyncMachines
  <2>. QED
    BY <1>0, <2>1, <2>2 DEF ForeignInv, PassOK, UserCloudOK, passVars, cloudVars
<1>8. CASE Rename
  <2>1. UserCloudOK'
    BY <1>0, <1>8 DEF Rename, UserCloudOK
  <2>. QED
    BY <1>0, <1>8, <2>1 DEF Rename, ForeignInv, PassOK, passVars, apiVars
<1>9. CASE Vanish
  <2>1. UserCloudOK'
    BY <1>0, <1>9, GoneForeign DEF Vanish
  <2>. QED
    BY <1>0, <1>9, <2>1 DEF Vanish, ForeignInv, PassOK, passVars, apiVars
<1>. QED
  BY <1>1, <1>2, <1>3, <1>4, <1>5, <1>6, <1>7, <1>8, <1>9 DEF WorldStep

(* The inductive invariant holds initially...                              *)
LEMMA ForeignInit == Init => ForeignInv
<1>. SUFFICES ASSUME Init PROVE ForeignInv
  OBVIOUS
<1>1. PICK p, cs, b : net = NewNetwork(p, cs, b) /\ born = p
  BY DEF Init
<1>2. CopyOK(born, net)
  BY <1>1, UserIdFacts DEF CopyOK, NewNetwork, NoStatus, BornPolicies
<1>3. CopyOK(born, obj) /\ CopyOK(born, seen.net)
  BY <1>2, CopyNone DEF Init
<1>4. PassOK
  BY UserIdFacts DEF Init, PassOK, NothingGot, NoResource
<1>5. UserCloudOK
  BY IdFacts DEF Init, UserCloudOK
<1>. QED
  BY <1>2, <1>3, <1>4, <1>5 DEF ForeignInv

(* ... and every step, with safe policy edits, keeps it.                   *)
LEMMA ForeignNext ==
    ASSUME PolicyEdits \subseteq SafeEdits
    PROVE  TypeOK /\ ForeignInv /\ [Next]_vars => ForeignInv'
<1>1. ASSUME TypeOK, ForeignInv, Next PROVE ForeignInv'
  <2>1. born' = born
    BY <1>1 DEF Next, History
  <2>. QED
    BY <1>1, <2>1, DispatchForeign, LiveForeign, CloudCallForeign, DeleteForeign,
       WorldForeign DEF Next, PassStep, FaultStep
<1>2. ASSUME ForeignInv, UNCHANGED vars PROVE ForeignInv'
  BY <1>2 DEF ForeignInv, PassOK, UserCloudOK, vars
<1>. QED
  BY <1>1, <1>2

(* As long as users edit the policy only to Abandon or between Managed and *)
(* Adopt, no fault, restart, stale cache, concurrent edit or deletion makes *)
(* the controller delete a resource the user brought or change the rules   *)
(* of the user's security group.                                           *)
THEOREM ForeignStaysUntouched ==
    ASSUME PolicyEdits \subseteq SafeEdits
    PROVE  Spec => []ForeignUntouched
<1>1. Init => ForeignInv
  BY ForeignInit
<1>2. TypeOK /\ ForeignInv /\ [Next]_vars => ForeignInv'
  BY ForeignNext
<1>3. ForeignInv => ForeignUntouched
  BY UserIdFacts DEF ForeignInv, UserCloudOK, ForeignUntouched
<1>. QED
  BY <1>1, <1>2, <1>3, TypeCorrect, PTL DEF Spec

-----------------------------------------------------------------------------
(* The orphan cleanup and the owner references                             *)

(* A version of the object that names the existing cluster as an owner was *)
(* written by a pass that saw that cluster, and an informer that delivered *)
(* the cluster once does not lose it while it exists.                      *)
OwnersOK(n) ==
    /\ n.owners \subseteq 1..uids
    /\ cluster \in n.owners => ClusterView = cluster

BindInv ==
    /\ cluster \in {0, uids}
    /\ seen.cluster \in 0..uids
    /\ OwnersOK(net) /\ OwnersOK(seen.net) /\ OwnersOK(obj)
    /\ pc = "orphan" => cluster \notin net.owners

(* The inductive invariant holds initially.                                *)
LEMMA BindInit == Init => BindInv
<1>. SUFFICES ASSUME Init PROVE BindInv
  OBVIOUS
<1>1. net.owners = {} /\ seen.net.owners = {}
  BY DEF Init, NewNetwork
<1>2. obj.owners = {}
  BY DEF Init, NoNetwork, NewNetwork
<1>. QED
  BY <1>1, <1>2 DEF Init, BindInv, OwnersOK

-----------------------------------------------------------------------------
(* What patches, edits and the deletion mark do to the owner references.   *)
LEMMA SameOwners ==
    ASSUME NEW n \in Network
    PROVE  /\ \A b, m : MergeStatus(n, b, m).owners = n.owners
           /\ MarkDeleted(n).owners = n.owners
           /\ \A p : [n EXCEPT !.policy = p].owners = n.owners
BY DEF Network, MergeStatus, MarkDeleted

(* The Ready condition is not an owner reference.                          *)
LEMMA ReadyOwners ==
    ASSUME NEW n \in Network, NEW r PROVE [n EXCEPT !.ready = r].owners = n.owners
BY DEF Network

(* The blank copy has no owner.                                            *)
LEMMA NoOwners == NoNetwork.owners = {}
BY DEF NoNetwork, NewNetwork

(* A step of the pass that leaves owners, caches and the cluster alone, and *)
(* whose copy is one of the copies there were.                             *)
OwnersKept ==
    /\ seen' = seen /\ cluster' = cluster /\ uids' = uids
    /\ net'.owners = net.owners
    /\ obj'.owners \in {{}, net.owners, obj.owners, NetView.owners}
    /\ pc' = "orphan" => pc = "orphan" \/ cluster \notin net.owners

(* Such a step keeps the invariant.                                        *)
LEMMA OwnersKeptBind ==
    ASSUME BindInv, OwnersKept PROVE BindInv'
<1>1. ClusterView' = ClusterView
  BY DEF OwnersKept, ClusterView
<1>2. OwnersOK(NetView)
  BY DEF BindInv, NetView
<1>3. OwnersOK(net)' /\ OwnersOK(seen.net)' /\ OwnersOK(obj)'
  BY <1>1, <1>2 DEF OwnersKept, BindInv, OwnersOK
<1>. QED
  BY <1>3 DEF OwnersKept, BindInv

(* fail leaves the owners alone.                                           *)
LEMMA FailOwners ==
    ASSUME TypeOK, Fail
    PROVE  net'.owners = net.owners /\ obj'.owners = {} /\ pc' = "idle"
<1>1. net' = net \/ \E r \in WrittenReady(FALSE) : net' = [net EXCEPT !.ready = r]
  BY Zenon DEF Fail
<1>2. net \in Network
  BY DEF TypeOK
<1>3. ASSUME net' = net PROVE net'.owners = net.owners
  BY <1>3
<1>4. ASSUME NEW r, net' = [net EXCEPT !.ready = r] PROVE net'.owners = net.owners
  BY <1>2, <1>4, ReadyOwners
<1>5. obj' = NoNetwork /\ pc' = "idle"
  BY Zenon DEF Fail, Return
<1>6. net'.owners = net.owners
  BY <1>1, <1>3, <1>4, Zenon
<1>. QED
  BY <1>5, <1>6, NoOwners

(* setCondition does too, written or not.                                  *)
LEMMA SetConditionOwners ==
    ASSUME TypeOK, setCondition
    PROVE  net'.owners = net.owners /\ obj'.owners \in {net.owners, obj.owners}
<1>1. CASE ConditionWritten
  <2>1. PICK r : net' = [net EXCEPT !.ready = r] /\ obj' = net'
    BY <1>1, Zenon DEF ConditionWritten
  <2>. QED
    BY <2>1, ReadyOwners DEF TypeOK
<1>2. CASE ConditionNotWritten
  BY <1>2 DEF ConditionNotWritten
<1>. QED
  BY <1>1, <1>2 DEF setCondition

(* patchStatus does too.                                                   *)
LEMMA PatchThenOwners ==
    ASSUME TypeOK, NEW new, NEW next, NEW k, PatchThen(new, next, k)
    PROVE  net'.owners = net.owners /\ obj'.owners = net.owners /\ pc' = next
BY SameOwners DEF TypeOK, PatchThen, PatchStatus

-----------------------------------------------------------------------------
(* The start of a pass, and the binding of the owner.                      *)
LEMMA DispatchBind ==
    ASSUME TypeOK, BindInv,
           \/ Begin \/ AddFinalizer \/ ClusterNotFound \/ AddOwner
           \/ ClusterFound \/ ClusterBound \/ DeleteOrphan \/ Authorize \/ Refuse
    PROVE  BindInv'
<1>1. CASE Begin
  BY <1>1, OwnersKeptBind DEF Begin, FirstCall, envVars, OwnersKept
<1>2. CASE AddFinalizer
  BY <1>2, OwnersKeptBind, NoOwners
     DEF AddFinalizer, Return, envVars, OwnersKept, TypeOK, Network
<1>3. CASE ClusterNotFound
  <2>1. cluster \notin net.owners
    BY <1>3 DEF ClusterNotFound, BindInv, OwnersOK
  <2>. QED
    BY <1>3, <2>1, SetConditionOwners, OwnersKeptBind
       DEF ClusterNotFound, envVars, OwnersKept
<1>4. CASE AddOwner
  <2>1. net'.owners = obj.owners \cup {ClusterView}
    BY <1>4 DEF AddOwner, TypeOK, Network
  <2>2. /\ ClusterView \in 1..uids /\ cluster \notin obj.owners
        /\ seen' = seen /\ cluster' = cluster /\ uids' = uids
        /\ obj'.owners = {} /\ pc' = "idle"
    BY <1>4, NoOwners
       DEF AddOwner, BindInv, OwnersOK, ClusterView, envVars, Return, TypeOK
  <2>3. ClusterView' = ClusterView
    BY <2>2 DEF ClusterView
  <2>. QED
    BY <2>1, <2>2, <2>3 DEF BindInv, OwnersOK
<1>5. CASE ClusterFound
  BY <1>5, SameOwners, OwnersKeptBind
     DEF ClusterFound, PatchStatus, envVars, OwnersKept, TypeOK
<1>6. CASE ClusterBound
  BY <1>6, SetConditionOwners, OwnersKeptBind
     DEF ClusterBound, AfterBind, envVars, OwnersKept
<1>7. CASE DeleteOrphan
  BY <1>7, SameOwners, NoOwners, OwnersKeptBind
     DEF DeleteOrphan, Return, envVars, OwnersKept, TypeOK
<1>8. CASE Authorize
  BY <1>8, SetConditionOwners, OwnersKeptBind
     DEF Authorize, PolicyCall, envVars, OwnersKept
<1>9. CASE Refuse
  BY <1>9, FailOwners, OwnersKeptBind DEF Refuse, envVars, OwnersKept
<1>. QED
  BY <1>1, <1>2, <1>3, <1>4, <1>5, <1>6, <1>7, <1>8, <1>9

(* An answer of an Ensure call is only noted.                              *)
LEMMA EnsuredOwners ==
    ASSUME NEW k, NEW id, NEW name, Ensured(k, id, name)
    PROVE  net' = net /\ obj' = obj /\ pc' \in {"record", "rules", "ensure"}
BY DEF Ensured, CallAfter

(* The passes of a live object.                                            *)
LEMMA LiveBind ==
    ASSUME TypeOK, BindInv,
           \/ OwnershipToken \/ EnsureKnown \/ EnsureFound \/ EnsureCreated
           \/ Record \/ EnsureRules \/ EnsureRulesFails \/ Finish
           \/ Observe \/ Adopt \/ Claim
    PROVE  BindInv'
<1>1. CASE OwnershipToken
  BY <1>1, PatchThenOwners, OwnersKeptBind DEF OwnershipToken, envVars, OwnersKept
<1>2. CASE EnsureKnown
  BY <1>2, EnsuredOwners, FailOwners, OwnersKeptBind
     DEF EnsureKnown, envVars, OwnersKept
<1>3. CASE EnsureFound
  <2>1. Fail \/ \E i : Ensured(kind, i, cname[i])
    BY <1>3, Zenon DEF EnsureFound
  <2>. QED
    BY <1>3, <2>1, EnsuredOwners, FailOwners, OwnersKeptBind
       DEF EnsureFound, envVars, OwnersKept
<1>4. CASE EnsureCreated
  <2>1. Fail \/ \E i : Ensured(kind, i, managedName(obj.base))
    BY <1>4, Zenon DEF EnsureCreated
  <2>. QED
    BY <1>4, <2>1, EnsuredOwners, FailOwners, OwnersKeptBind
       DEF EnsureCreated, envVars, OwnersKept
<1>5. CASE Record
  BY <1>5, PatchThenOwners, OwnersKeptBind
     DEF Record, CallAfter, envVars, OwnersKept
<1>6. CASE EnsureRules
  <2>1. Fail \/ (net' = net /\ obj' = obj /\ pc' = "finish")
    BY <1>6, Zenon DEF EnsureRules
  <2>. QED
    BY <1>6, <2>1, FailOwners, OwnersKeptBind DEF EnsureRules, envVars, OwnersKept
<1>7. CASE EnsureRulesFails
  BY <1>7, FailOwners, OwnersKeptBind DEF EnsureRulesFails, envVars, OwnersKept
<1>8. CASE Finish
  <2>1. \E r : net' = [MergeStatus(net, obj, Finished) EXCEPT !.ready = r]
    BY <1>8, Zenon DEF Finish
  <2>2. \A m, r : [MergeStatus(net, obj, m) EXCEPT !.ready = r].owners = net.owners
    BY DEF MergeStatus, TypeOK, Network
  <2>3. net'.owners = net.owners
    BY <2>1, <2>2, Zenon
  <2>. QED
    BY <1>8, <2>3, NoOwners, OwnersKeptBind DEF Finish, Return, envVars, OwnersKept
<1>9. CASE Observe
  BY <1>9, FailOwners, OwnersKeptBind DEF Observe, envVars, OwnersKept
<1>10. CASE Adopt
  BY <1>10, FailOwners, OwnersKeptBind DEF Adopt, envVars, OwnersKept
<1>11. CASE Claim
  BY <1>11, SameOwners, NoOwners, OwnersKeptBind
     DEF Claim, Return, envVars, OwnersKept, TypeOK
<1>. QED
  BY <1>1, <1>2, <1>3, <1>4, <1>5, <1>6, <1>7, <1>8, <1>9, <1>10, <1>11

(* The passes of an object being deleted, and failed calls.                *)
LEMMA DeleteBind ==
    ASSUME TypeOK, BindInv,
           \/ Wait \/ Drained \/ Verify \/ DeleteResource \/ ForgetResource
           \/ Release \/ CallFails
    PROVE  BindInv'
<1>1. CASE Wait
  <2>1. net' = net \/ \E r : net' = [net EXCEPT !.ready = r]
    BY <1>1, Zenon DEF Wait
  <2>2. net \in Network
    BY DEF TypeOK
  <2>3. net'.owners = net.owners
    BY <2>1, <2>2, ReadyOwners, Zenon
  <2>. QED
    BY <1>1, <2>3, NoOwners, OwnersKeptBind DEF Wait, Return, envVars, OwnersKept
<1>2. CASE Drained
  BY <1>2, OwnersKeptBind DEF Drained, envVars, OwnersKept
<1>3. CASE Verify
  BY <1>3, FailOwners, OwnersKeptBind DEF Verify, envVars, OwnersKept
<1>4. CASE DeleteResource
  <2>1. (pc' = "forget" /\ obj' = obj) \/ Return
    BY <1>4 DEF DeleteResource
  <2>. QED
    BY <1>4, <2>1, NoOwners, OwnersKeptBind
       DEF DeleteResource, Return, envVars, OwnersKept
<1>5. CASE ForgetResource
  BY <1>5, SameOwners, NoOwners, OwnersKeptBind
     DEF ForgetResource, Return, envVars, OwnersKept, TypeOK
<1>6. CASE Release
  BY <1>6, NoOwners, OwnersKeptBind
     DEF Release, Return, envVars, OwnersKept, TypeOK, Network
<1>7. CASE CallFails
  BY <1>7, FailOwners, NoOwners, OwnersKeptBind
     DEF CallFails, Return, envVars, OwnersKept
<1>. QED
  BY <1>1, <1>2, <1>3, <1>4, <1>5, <1>6, <1>7

-----------------------------------------------------------------------------
(* Caches that catch up, one by one or by a restart.                       *)
LEMMA SyncBind ==
    ASSUME TypeOK, BindInv, net' = net, cluster' = cluster, uids' = uids,
           seen'.net \in {net, seen.net}, seen'.cluster \in {cluster, seen.cluster},
           obj'.owners \in {{}, obj.owners}, pc' \in {"idle", pc}
    PROVE  BindInv'
<1>1. ASSUME NEW n, OwnersOK(n) PROVE cluster \in n.owners => ClusterView' = cluster
  BY <1>1 DEF OwnersOK, ClusterView
<1>2. cluster \in 0..uids
  BY DEF BindInv, TypeOK
<1>3. OwnersOK(net)' /\ OwnersOK(seen.net)' /\ OwnersOK(obj)'
  BY <1>1 DEF BindInv, OwnersOK
<1>. QED
  BY <1>2, <1>3 DEF BindInv

(* Users, Rancher, the garbage collector, the clock and the informers.     *)
LEMMA WorldBind ==
    ASSUME TypeOK, BindInv, WorldStep \/ Crash \/ Rename \/ Vanish
    PROVE  BindInv'
<1>0. net \in Network
  BY DEF TypeOK
<1>1. CASE EditPolicy \/ EditCIDRs \/ EditName
  <2>1. \A p : [[net EXCEPT !.policy = p] EXCEPT !.gen = @ + 1].owners = net.owners
    BY <1>0 DEF Network
  <2>2. \A cs : [[net EXCEPT !.cidrs = cs] EXCEPT !.gen = @ + 1].owners = net.owners
    BY <1>0 DEF Network
  <2>3. \A b : [[net EXCEPT !.base = b] EXCEPT !.gen = @ + 1].owners = net.owners
    BY <1>0 DEF Network
  <2>4. net'.owners = net.owners
    BY <1>1, <2>1, <2>2, <2>3, Zenon DEF EditPolicy, EditCIDRs, EditName, Edit
  <2>5. UNCHANGED <<seen, passVars, envVars>>
    BY <1>1 DEF EditPolicy, EditCIDRs, EditName, Edit
  <2>. QED
    BY <2>4, <2>5, OwnersKeptBind DEF passVars, envVars, OwnersKept
<1>2. CASE UserDelete \/ GarbageCollect
  BY <1>0, <1>2, SameOwners, OwnersKeptBind
     DEF UserDelete, GarbageCollect, passVars, envVars, OwnersKept
<1>3. CASE CreateCluster
  <2>1. /\ cluster' = uids + 1 /\ uids' = uids + 1
        /\ net' = net /\ seen' = seen /\ obj' = obj
    BY <1>3 DEF CreateCluster, apiVars, passVars
  <2>2. uids \in Nat
    BY Bounds DEF TypeOK
  <2>3. ASSUME NEW n, OwnersOK(n)
        PROVE  n.owners \subseteq 1..uids' /\ cluster' \notin n.owners
    BY <2>1, <2>2, <2>3 DEF OwnersOK
  <2>4. OwnersOK(net)' /\ OwnersOK(seen.net)' /\ OwnersOK(obj)'
    BY <2>1, <2>3 DEF BindInv, OwnersOK
  <2>. QED
    BY <2>1, <2>2, <2>3, <2>4 DEF BindInv
<1>4. CASE DeleteCluster
  <2>1. cluster' = 0 /\ uids' = uids /\ net' = net /\ seen' = seen /\ obj' = obj
    BY <1>4 DEF DeleteCluster, apiVars, passVars
  <2>2. ASSUME NEW n, OwnersOK(n) PROVE cluster' \notin n.owners
    BY <2>1, <2>2 DEF OwnersOK
  <2>3. OwnersOK(net)' /\ OwnersOK(seen.net)' /\ OwnersOK(obj)'
    BY <2>1, <2>2 DEF BindInv, OwnersOK
  <2>. QED
    BY <2>1, <2>2, <2>3 DEF BindInv
<1>5. CASE \/ AddMachine \/ MachineBoots \/ MachineBootsOnOwnNetwork
           \/ RemoveMachine \/ ServerGone \/ TimePasses \/ Rename \/ Vanish
  <2>1. UNCHANGED <<apiVars, passVars, cluster, uids>>
    BY <1>5 DEF AddMachine, MachineBoots, MachineBootsOnOwnNetwork, RemoveMachine,
                ServerGone, TimePasses, Rename, Vanish, envVars
  <2>. QED
    BY <2>1, OwnersKeptBind DEF apiVars, passVars, OwnersKept
<1>6. CASE SyncNetwork \/ SyncCluster \/ SyncMachines
  BY <1>6, SyncBind DEF SyncNetwork, SyncCluster, SyncMachines, passVars, envVars,
                        TypeOK
<1>7. CASE Crash
  BY <1>7, SyncBind, NoOwners DEF Crash, Return, envVars, TypeOK
<1>. QED
  BY <1>1, <1>2, <1>3, <1>4, <1>5, <1>6, <1>7 DEF WorldStep

(* Every step keeps the inductive invariant.                               *)
LEMMA BindNext == TypeOK /\ BindInv /\ [Next]_vars => BindInv'
<1>1. ASSUME TypeOK, BindInv, Next PROVE BindInv'
  BY <1>1, DispatchBind, LiveBind, DeleteBind, WorldBind
     DEF Next, PassStep, FaultStep
<1>2. ASSUME BindInv, UNCHANGED vars PROVE BindInv'
  BY <1>2 DEF BindInv, OwnersOK, ClusterView, vars
<1>. QED
  BY <1>1, <1>2

(* Under any lag of the object's and the cluster's caches, any faults and  *)
(* any number of incarnations of the cluster, the orphan cleanup of        *)
(* Reconcile never deletes an object that an existing cluster owns.        *)
THEOREM OrphanCleanupSparesBound == Spec => OrphanSparesBound
<1>1. Init => BindInv
  BY BindInit
<1>2. TypeOK /\ BindInv /\ [Next]_vars => BindInv'
  BY BindNext
<1>3. BindInv => [pc = "orphan" /\ net'.phase # net.phase
                    => cluster \notin net.owners]_vars
  BY DEF BindInv
<1>. QED
  BY <1>1, <1>2, <1>3, TypeCorrect, PTL DEF Spec, OrphanSparesBound

=============================================================================
