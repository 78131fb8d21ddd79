-------------------------- MODULE NetworkReconciler --------------------------
(***************************************************************************)
(* The reconciler of one TCloudClusterNetwork object                       *)
(* (internal/controller/tcloudclusternetwork_controller.go) together with  *)
(* what it works on: the object in the Kubernetes API server, the informer *)
(* cache it is read from, the cloud resources, and the Rancher cluster and *)
(* machines that use them.                                                 *)
(*                                                                         *)
(* A call of Reconcile is a PASS.  pc says which remote call the pass is   *)
(* about to make, so users, the garbage collector, Rancher and faults may  *)
(* act between any two calls.  obj is the pass's local copy `network`: it  *)
(* is what the pass decides on, and each successful patch replaces it by   *)
(* the API server's answer.                                                *)
(*                                                                         *)
(* Abstractions.                                                           *)
(*  - controller-runtime runs one pass per object at a time and main.go    *)
(*    elects one leader, so there is one pass.                             *)
(*  - Of the conditions only Ready is kept; all conditions are one list in *)
(*    a merge patch, so every patch of any condition writes Ready too.     *)
(*  - A security group's rules are its SSH CIDRs plus "rke2", the          *)
(*    intra-cluster rules taken as one.                                    *)
(*  - A call whose effect happens but whose answer is lost is the call     *)
(*    followed by CallFails in the next step.                              *)
(*  - The object is read from an informer.  Cluster and machines are       *)
(*    unstructured, which the manager's client reads from the API server;  *)
(*    a lag of theirs is the time between a read and its use, or the cache *)
(*    of a client that is set up to keep them.                             *)
(*  - One base name stands for the three name fields of the spec: the      *)
(*    three kinds of resource are looked up in different listings.         *)
(***************************************************************************)
EXTENDS Integers, FiniteSets

CONSTANTS
    CIDRs,         \* SSH CIDRs a spec may allow
    Bases,         \* base names a spec may give the managed resources
    InitPolicies,  \* policies the object may be created with
    PolicyEdits,   \* pairs <<from, to>> of policies a user may edit between
    Lagging,       \* the copies that may lag behind the API server
    Mishaps,       \* the kinds of fault that may happen
    MaxMishaps,    \* bound: faults in a behaviour
    MaxIds,        \* bound: resources of one kind the controller may create
    MaxGen,        \* bound: spec edits stop at this generation
    MaxClusters    \* bound: incarnations of the Rancher cluster

(* "Hybrid" is spec.managementPolicy Observe with                          *)
(* network.securityGroup.managementPolicy Managed.                         *)
Policies == {"Managed", "Observe", "Hybrid", "Adopt", "Abandon"}
Kinds    == {"vpc", "subnet", "sg"}
Faults   == {"error", "crash", "rename", "vanish"}
Informers == {"network", "cluster", "machines"}

ASSUME ConstantsOK ==
    /\ CIDRs # {} /\ "rke2" \notin CIDRs
    /\ Bases # {}
    /\ InitPolicies \subseteq Policies
    /\ PolicyEdits \subseteq Policies \X Policies
    /\ Lagging \subseteq Informers
    /\ Mishaps \subseteq Faults
    /\ MaxMishaps \in Nat
    /\ MaxIds \in Nat
    /\ MaxGen \in Nat
    /\ MaxClusters \in Nat

-----------------------------------------------------------------------------
(* Cloud identifiers and names.  The cloud never reuses an identifier.     *)

NoId         == [kind |-> "none", origin |-> "none", n |-> 0]
OwnId(k, i)  == [kind |-> k, origin |-> "controller", n |-> i]
UserId(k)    == [kind |-> k, origin |-> "user", n |-> 1]
DriverId(k)  == [kind |-> k, origin |-> "driver", n |-> 1]
OwnIds       == [kind : Kinds, origin : {"controller"}, n : 1..MaxIds]
UserIds      == [kind : Kinds, origin : {"user"}, n : {1}]
DriverIds    == [kind : Kinds, origin : {"driver"}, n : {1}]
Ids          == OwnIds \cup UserIds \cup DriverIds

NoName         == <<"", "">>
UserName       == <<"user", "">>
DriverName     == <<"driver", "">>
Renamed        == <<"renamed", "">>
(* Only the controller appends the token of the object's UID to a name.    *)
managedName(b) == <<b, "token">>
Names          == {NoName, UserName, DriverName, Renamed}
                    \cup {managedName(b) : b \in Bases}

Rules == CIDRs \cup {"rke2"}

ResourceStatus == [id : Ids \cup {NoId}, name : Names, managed : BOOLEAN]
Resource       == [id : Ids \cup {NoId}, name : Names]
NoStatus       == [id |-> NoId, name |-> NoName, managed |-> FALSE]
NoResource     == [id |-> NoId, name |-> NoName]

(* The object: phase is "deleting" once deletionTimestamp is set; fin is   *)
(* the finalizer; policy, cidrs and base are the spec; the rest from       *)
(* clusterUID on is the status.                                            *)
Network ==
    [phase : {"live", "deleting", "absent"}, fin : BOOLEAN, gen : Nat,
     policy : Policies, cidrs : SUBSET CIDRs, base : Bases,
     owners : SUBSET (1..MaxClusters), clusterUID : 0..MaxClusters,
     token : BOOLEAN, res : [Kinds -> ResourceStatus],
     applied : SUBSET CIDRs, og : Nat, ready : BOOLEAN]

NewNetwork(p, cs, b) ==
    [phase |-> "live", fin |-> FALSE, gen |-> 1, policy |-> p, cidrs |-> cs,
     base |-> b, owners |-> {}, clusterUID |-> 0, token |-> FALSE,
     res |-> [k \in Kinds |-> NoStatus], applied |-> {}, og |-> 0,
     ready |-> FALSE]

(* What a pass's local variables hold between passes.                      *)
NoNetwork == [NewNetwork("Abandon", {}, CHOOSE b \in Bases : TRUE)
                EXCEPT !.phase = "absent"]
NothingGot == [k \in Kinds |-> NoResource]

ManagedIds(n) == {n.res[k].id : k \in {j \in Kinds : n.res[j].managed}} \ {NoId}
Complete(n)   == \A k \in Kinds : n.res[k].id # NoId

-----------------------------------------------------------------------------
VARIABLES
    net,       \* the object in the API server
    seen,      \* the informers' copies: [net, cluster, machines]
    pc,        \* the call the pass makes next; "idle" between passes
    kind,      \* the kind of resource the pass is at
    route,     \* the policy the pass was dispatched on
    obj,       \* the pass's copy of the object
    got,       \* what the cloud answered in this pass, per kind
    alive,     \* the resources that exist in the cloud
    made,      \* the resources that exist or existed
    cname,     \* the cloud name of each resource
    parent,    \* the VPC each subnet is in
    rules,     \* the rules of each security group
    vm,        \* the subnet and group the machine's server is attached to
    cluster,   \* UID of the Rancher cluster, 0 when there is none
    uids,      \* cluster UIDs given out so far
    machines,  \* the cluster's machine object
    late,      \* a machine was created after the object's deletion began
    expired,   \* orphanCleanupAfter has passed since the object's creation
    mishaps,   \* faults still allowed
    born,      \* history: the policy the object was created with
    owned      \* history: ids the status ever recorded as controller-managed

apiVars   == <<net, seen>>
passVars  == <<pc, kind, route, obj, got>>
cloudVars == <<alive, made, cname, parent, rules, vm>>
envVars   == <<cluster, uids, machines, late, expired>>
vars      == <<net, seen, pc, kind, route, obj, got, alive, made, cname,
               parent, rules, vm, cluster, uids, machines, late, expired,
               mishaps, born, owned>>

PCs == {"idle", "finalizer", "bind", "bound", "orphan", "authorize", "token", "ensure",
        "record", "rules", "finish", "observe", "adopt", "claim", "refuse",
        "drain", "verify", "delete", "forget", "release"}

NoVM == [subnet |-> NoId, sg |-> NoId]

TypeOK ==
    /\ net \in Network
    /\ seen \in [net : Network, cluster : 0..MaxClusters,
                 machines : {"none", "booting", "ready"}]
    /\ pc \in PCs
    /\ kind \in Kinds
    /\ route \in Policies \cup {"none"}
    /\ obj \in Network
    /\ got \in [Kinds -> Resource]
    /\ alive \in SUBSET Ids
    /\ made \in SUBSET Ids
    /\ cname \in [Ids -> Names]
    /\ parent \in [Ids -> Ids \cup {NoId}]
    /\ rules \in [Ids -> SUBSET Rules]
    /\ vm \in [subnet : Ids \cup {NoId}, sg : Ids \cup {NoId}]
    /\ cluster \in 0..MaxClusters
    /\ uids \in 0..MaxClusters
    /\ machines \in {"none", "booting", "ready"}
    /\ late \in BOOLEAN
    /\ expired \in BOOLEAN
    /\ mishaps \in 0..MaxMishaps
    /\ born \in Policies
    /\ owned \in SUBSET Ids

Init ==
    /\ \E p \in InitPolicies, cs \in (SUBSET CIDRs) \ {{}}, b \in Bases :
         /\ net = NewNetwork(p, cs, b)
         /\ born = p
    /\ seen = [net |-> net, cluster |-> 0, machines |-> "none"]
    /\ pc = "idle" /\ kind = "vpc" /\ route = "none"
    /\ obj = NoNetwork /\ got = NothingGot
    /\ alive = UserIds /\ made = UserIds
    /\ cname = [i \in Ids |-> IF i \in UserIds THEN UserName ELSE NoName]
    /\ parent = [i \in Ids |-> IF i = UserId("subnet") THEN UserId("vpc")
                                                        ELSE NoId]
    /\ rules = [i \in Ids |-> {}]
    /\ vm = NoVM
    /\ cluster = 0 /\ uids = 0 /\ machines = "none"
    /\ late = FALSE /\ expired = FALSE
    /\ mishaps = MaxMishaps
    /\ owned = {}

-----------------------------------------------------------------------------
(* A definition named ...Mutant beside the one it alters is a mistake that *)
(* the properties are tested against; the specification does not use it.   *)

(* The API server and the caches in front of it.                           *)

(* A machine API that is not installed (IsNoMatchError) counts as no       *)
(* machines, as an empty list does.                                        *)
NetView     == IF "network" \in Lagging THEN seen.net ELSE net
ClusterView == IF "cluster" \in Lagging THEN seen.cluster ELSE cluster
MachineView == IF "machines" \in Lagging THEN seen.machines ELSE machines

(* One leaf of a JSON merge patch: only what the pass changed is sent.     *)
Pick(cur, base, new) == IF new = base THEN cur ELSE new

(* The status after the patch from base to new meets the current object.   *)
MergeStatusMutant(cur, base, new) ==
    [cur EXCEPT !.clusterUID = new.clusterUID, !.token = new.token,
                !.res = new.res, !.applied = new.applied, !.og = new.og]
MergeStatus(cur, base, new) ==
    [cur EXCEPT
        !.clusterUID = Pick(@, base.clusterUID, new.clusterUID),
        !.token = Pick(@, base.token, new.token),
        !.res = [k \in Kinds |->
            [id |-> Pick(cur.res[k].id, base.res[k].id, new.res[k].id),
             name |-> Pick(cur.res[k].name, base.res[k].name, new.res[k].name),
             managed |-> Pick(cur.res[k].managed, base.res[k].managed,
                              new.res[k].managed)]],
        !.applied = Pick(@, base.applied, new.applied),
        !.og = Pick(@, base.og, new.og)]

(* A patch that publishes Ready = v sends the whole list of conditions, or *)
(* nothing when that leaves the pass's copy as it was.                     *)
WrittenReady(v) == IF obj.ready = v THEN {v, net.ready} ELSE {v}

(* patchStatus: the answer becomes the copy.  The object exists: a pass    *)
(* that patches works on a live object with a finalizer, and only a later  *)
(* pass removes that.                                                      *)
PatchStatus(new) ==
    /\ net' = MergeStatus(net, obj, new)
    /\ obj' = net'

(* The end of a pass: its locals are gone.                                 *)
Return ==
    /\ pc' = "idle" /\ kind' = "vpc" /\ route' = "none"
    /\ obj' = NoNetwork /\ got' = NothingGot

(* fail: publish Ready=False if the object still exists, and return.       *)
FailMutant == net' = net /\ Return
Fail ==
    /\ net' \in IF net.phase = "absent" THEN {net}
                ELSE {[net EXCEPT !.ready = r] : r \in WrittenReady(FALSE)}
    /\ Return

(* setCondition ignores the error of its patch: the copy is then the old   *)
(* one.  ConditionNotWritten is a patch the API server did not accept.     *)
ConditionWritten ==
    /\ \E r \in WrittenReady(obj.ready) : net' = [net EXCEPT !.ready = r]
    /\ obj' = net'
    /\ mishaps' = mishaps
ConditionNotWritten ==
    /\ "error" \in Mishaps /\ mishaps > 0
    /\ mishaps' = mishaps - 1
    /\ UNCHANGED <<net, obj>>
setCondition == ConditionWritten \/ ConditionNotWritten

(* The API server marks the object for deletion: the generation advances,  *)
(* and without a finalizer the object is gone at once.                     *)
MarkDeleted(n) ==
    IF n.fin THEN [n EXCEPT !.phase = "deleting", !.gen = @ + 1]
             ELSE [n EXCEPT !.phase = "absent"]

-----------------------------------------------------------------------------
(* Reconcile: read the object from the cache and dispatch on its deletion. *)

(* reconcileDelete waits and deletes only if something is marked managed.  *)
HasManagedMutant(n) == \A k \in Kinds : n.res[k].managed
HasManaged(n) == \E k \in Kinds : n.res[k].managed

FirstCall(n) ==
    IF n.phase = "deleting"
    THEN IF n.policy = "Abandon" \/ ~HasManaged(n) THEN "release" ELSE "drain"
    ELSE IF n.fin THEN "bind" ELSE "finalizer"

Begin ==
    /\ pc = "idle"
    /\ NetView.phase # "absent"
    /\ NetView.phase = "deleting" => NetView.fin
    /\ obj' = NetView
    /\ pc' = FirstCall(NetView)
    /\ UNCHANGED <<net, seen, kind, route, got, cloudVars, envVars, mishaps>>

(* An Update carries the resourceVersion read: it fails on a newer object. *)
AddFinalizer ==
    /\ pc = "finalizer"
    /\ net' = IF net = obj THEN [net EXCEPT !.fin = TRUE] ELSE net
    /\ Return
    /\ UNCHANGED <<seen, cloudVars, envVars, mishaps>>

(* The timeout of orphanExpired is not data here: TimePasses is not fair,  *)
(* so it may come at any time, and a timeout of 0, which disables the      *)
(* cleanup, is a behaviour in which it never does.                         *)
orphanExpired == expired

(* bindClusterOwner, one action per outcome of the cluster lookup.         *)

AfterBindMutant(bound) == IF orphanExpired THEN "orphan" ELSE "authorize"
AfterBindMutant2(bound) == "authorize"
AfterBind(bound) == IF ~bound /\ orphanExpired THEN "orphan" ELSE "authorize"

ClusterNotFound ==
    /\ pc = "bind"
    /\ ClusterView = 0
    /\ setCondition
    /\ pc' = AfterBind(FALSE)
    /\ UNCHANGED <<seen, kind, route, got, cloudVars, envVars>>

(* The patch sends the whole list of owner references.                     *)
AddOwner ==
    /\ pc = "bind"
    /\ ClusterView \notin obj.owners \cup {0}
    /\ net' = [net EXCEPT !.owners = obj.owners \cup {ClusterView}]
    /\ Return
    /\ UNCHANGED <<seen, cloudVars, envVars, mishaps>>

ClusterFound ==
    /\ pc = "bind"
    /\ ClusterView \in obj.owners
    /\ IF obj.clusterUID = ClusterView THEN UNCHANGED <<net, obj>>
       ELSE PatchStatus([obj EXCEPT !.clusterUID = ClusterView])
    /\ pc' = "bound"
    /\ UNCHANGED <<seen, kind, route, got, cloudVars, envVars, mishaps>>

ClusterBound ==
    /\ pc = "bound"
    /\ setCondition
    /\ pc' = AfterBind(TRUE)
    /\ UNCHANGED <<seen, kind, route, got, cloudVars, envVars>>

DeleteOrphan ==
    /\ pc = "orphan"
    /\ net' = IF net.phase = "live" THEN MarkDeleted(net) ELSE net
    /\ Return
    /\ UNCHANGED <<seen, cloudVars, envVars, mishaps>>

(* cloudService succeeded: publish it, then follow the policy of the copy. *)
PolicyCall(n) ==
    CASE n.policy = "Managed" -> IF n.token THEN "ensure" ELSE "token"
      [] n.policy \in {"Observe", "Hybrid"} -> "observe"
      [] n.policy = "Adopt" -> IF Complete(n) THEN "rules" ELSE "adopt"
      [] OTHER -> "refuse"

Authorize ==
    /\ pc = "authorize"
    /\ setCondition
    /\ route' = obj'.policy
    /\ pc' = PolicyCall(obj')
    /\ UNCHANGED <<seen, kind, got, cloudVars, envVars>>

(* A live object with policy Abandon.                                      *)
Refuse ==
    /\ pc = "refuse"
    /\ Fail
    /\ UNCHANGED <<seen, cloudVars, envVars, mishaps>>

-----------------------------------------------------------------------------
(* reconcileManaged, and the security group of a hybrid network            *)

(* A status patch of a pass that goes on at next.                          *)
PatchThen(new, next, nextKind) ==
    /\ PatchStatus(new)
    /\ pc' = next /\ kind' = nextKind
    /\ UNCHANGED <<route, got>>

OwnershipToken ==
    /\ pc = "token"
    /\ PatchThen([obj EXCEPT !.token = TRUE], "ensure", kind)
    /\ UNCHANGED <<seen, cloudVars, envVars, mishaps>>

Following(k) == CASE k = "vpc" -> "subnet" [] k = "subnet" -> "sg" [] OTHER -> "sg"
CallAfterMutant(k) == IF k = "sg" THEN "finish" ELSE "ensure"
CallAfter(k) == IF k = "sg" THEN "rules" ELSE "ensure"

(* The cloud answered with resource id: it is recorded if it is news.      *)
Ensured(k, id, name) ==
    /\ got' = [got EXCEPT ![k] = [id |-> id, name |-> name]]
    /\ IF obj.res[k].id # id THEN pc' = "record" /\ kind' = k
       ELSE pc' = CallAfter(k) /\ kind' = Following(k)
    /\ UNCHANGED <<net, obj, route>>

(* What EnsureVPC, EnsureSubnet and EnsureSecurityGroup find by name.      *)
FoundMutant(k) == {i \in alive : i.kind = k /\ cname[i] = <<obj.base, "">>}
Found(k) == {i \in alive : /\ i.kind = k
                           /\ cname[i] = managedName(obj.base)
                           /\ k = "subnet" => parent[i] = got["vpc"].id}

EnsureKnown ==
    /\ pc = "ensure"
    /\ obj.res[kind].id # NoId
    /\ IF obj.res[kind].id \in alive
       THEN Ensured(kind, obj.res[kind].id, cname[obj.res[kind].id])
       ELSE Fail
    /\ UNCHANGED <<seen, cloudVars, envVars, mishaps>>

EnsureFound ==
    /\ pc = "ensure"
    /\ obj.res[kind].id = NoId
    /\ Found(kind) # {}
    /\ IF Cardinality(Found(kind)) > 1 THEN Fail
       ELSE \E i \in Found(kind) : Ensured(kind, i, cname[i])
    /\ UNCHANGED <<seen, cloudVars, envVars, mishaps>>

(* The cloud refuses a subnet in a VPC that no longer exists.              *)
EnsureCreated ==
    /\ pc = "ensure"
    /\ obj.res[kind].id = NoId
    /\ Found(kind) = {}
    /\ IF kind = "subnet" /\ got["vpc"].id \notin alive
       THEN Fail /\ UNCHANGED cloudVars
       ELSE \E n \in 1..MaxIds :
              LET i == OwnId(kind, n) IN
              /\ i \notin made
              /\ \A m \in 1..(n - 1) : OwnId(kind, m) \in made
              /\ alive' = alive \cup {i}
              /\ made' = made \cup {i}
              /\ cname' = [cname EXCEPT ![i] = managedName(obj.base)]
              /\ parent' = [parent EXCEPT ![i] =
                              IF kind = "subnet" THEN got["vpc"].id ELSE NoId]
              /\ Ensured(kind, i, managedName(obj.base))
              /\ UNCHANGED <<rules, vm>>
    /\ UNCHANGED <<seen, envVars, mishaps>>

Record ==
    /\ pc = "record"
    /\ PatchThen([obj EXCEPT !.res[kind] = [id |-> got[kind].id,
                                            name |-> got[kind].name,
                                            managed |-> TRUE]],
                 CallAfter(kind), Following(kind))
    /\ UNCHANGED <<seen, cloudVars, envVars, mishaps>>

(* The second EnsureSecurityGroup: RKE2Rules are added, then the           *)
(* ObsoleteSSHRules removed.                                               *)
RKE2RulesMutant  == obj.cidrs \cup {"rke2", "0.0.0.0/0"}
RKE2Rules        == obj.cidrs \cup {"rke2"}
ObsoleteSSHRules == obj.applied \ obj.cidrs
RuledGroup       == IF route = "Adopt" THEN obj.res["sg"].id ELSE got["sg"].id

EnsureRules ==
    /\ pc = "rules"
    /\ IF RuledGroup \in alive
       THEN /\ rules' = [rules EXCEPT ![RuledGroup] =
                            (@ \cup RKE2Rules) \ ObsoleteSSHRules]
            /\ pc' = "finish"
            /\ UNCHANGED <<net, kind, route, obj, got>>
       ELSE Fail /\ UNCHANGED rules
    /\ UNCHANGED <<seen, alive, made, cname, parent, vm, envVars, mishaps>>

(* One rule call of the loop fails: what came before it is done.           *)
EnsureRulesFails ==
    /\ pc = "rules"
    /\ RuledGroup \in alive
    /\ "error" \in Mishaps /\ mishaps > 0
    /\ mishaps' = mishaps - 1
    /\ \E done \in
          {rules[RuledGroup] \cup A : A \in SUBSET RKE2Rules}
          \cup {(rules[RuledGroup] \cup RKE2Rules) \ R :
                    R \in SUBSET ObsoleteSSHRules} :
         rules' = [rules EXCEPT ![RuledGroup] = done]
    /\ Fail
    /\ UNCHANGED <<seen, alive, made, cname, parent, vm, envVars>>

(* The last patch of a successful pass, for each policy.                   *)
ObservedMutant(k, m) == [id |-> got[k].id, name |-> got[k].name, managed |-> k = "sg"]
Observed(k, m) == [id |-> got[k].id, name |-> got[k].name, managed |-> m]
FinishedWith(og) ==
    [obj EXCEPT
        !.og = og,
        !.applied = IF route = "Observe" THEN @ ELSE obj.cidrs,
        !.res = IF route \notin {"Observe", "Hybrid"} THEN @
                ELSE [k \in Kinds |->
                        Observed(k, k = "sg" /\ route = "Hybrid")]]
FinishedMutant == FinishedWith(net.gen)
FinishedMutant2 == FinishedWith(obj.og)
Finished       == FinishedWith(obj.gen)

Finish ==
    /\ pc = "finish"
    /\ net' \in {[MergeStatus(net, obj, Finished) EXCEPT !.ready = r] :
                    r \in WrittenReady(TRUE)}
    /\ Return
    /\ UNCHANGED <<seen, cloudVars, envVars, mishaps>>

-----------------------------------------------------------------------------
(* reconcileObserve: spec.network names the user's resources.              *)
Observe ==
    /\ pc = "observe"
    /\ LET look == {k \in Kinds : k # "sg" \/ route = "Observe"} IN
       IF {UserId(k) : k \in look} \subseteq alive
       THEN /\ got' = [k \in Kinds |->
                         IF k \in look
                         THEN [id |-> UserId(k), name |-> cname[UserId(k)]]
                         ELSE NoResource]
            /\ pc' = IF route = "Observe" THEN "finish"
                     ELSE IF obj.token THEN "ensure" ELSE "token"
            /\ kind' = "sg"
            /\ UNCHANGED <<net, route, obj>>
       ELSE Fail
    /\ UNCHANGED <<seen, cloudVars, envVars, mishaps>>

(* reconcileAdopt: the state Secret of a machine that booted names the     *)
(* network its driver made.  The machines are listed from the cache, the   *)
(* Secret is read from the API server.                                     *)
Adopt ==
    /\ pc = "adopt"
    /\ IF MachineView # "none" /\ machines = "ready" /\ DriverIds \subseteq alive
       THEN /\ got' = [k \in Kinds |-> [id |-> DriverId(k),
                                        name |-> cname[DriverId(k)]]]
            /\ pc' = "claim"
            /\ UNCHANGED <<net, kind, route, obj>>
       ELSE Fail
    /\ UNCHANGED <<seen, cloudVars, envVars, mishaps>>

Claim ==
    /\ pc = "claim"
    /\ net' = MergeStatus(net, obj,
                 [obj EXCEPT !.token = TRUE,
                             !.res = [k \in Kinds |-> Observed(k, TRUE)]])
    /\ Return
    /\ UNCHANGED <<seen, cloudVars, envVars, mishaps>>

-----------------------------------------------------------------------------
(* reconcileDelete                                                         *)

(* Ports of servers in subnet i.  The user's subnet has unrelated ones.    *)
AttachedPorts(i) == i \in alive /\ (vm.subnet = i \/ i = UserId("subnet"))

Remaining(n) == {k \in Kinds : n.res[k].managed /\ n.res[k].id # NoId}
TargetMutant(n) == IF "subnet" \in Remaining(n) THEN "subnet"
                   ELSE IF "sg" \in Remaining(n) THEN "sg" ELSE "vpc"
Target(n) == IF "sg" \in Remaining(n) THEN "sg"
             ELSE IF "subnet" \in Remaining(n) THEN "subnet" ELSE "vpc"

PortsGateMutant(n) == AttachedPorts(n.res["vpc"].id)
PortsGate(n) == "subnet" \in Remaining(n) /\ AttachedPorts(n.res["subnet"].id)

(* Waiting for machines or ports publishes a condition and requeues.       *)
Wait ==
    /\ pc = "drain"
    /\ MachineView # "none" \/ PortsGate(obj)
    /\ net' \in IF net.phase = "absent" THEN {net}
                ELSE {[net EXCEPT !.ready = r] : r \in WrittenReady(obj.ready)}
    /\ Return
    /\ UNCHANGED <<seen, cloudVars, envVars, mishaps>>

(* The machine list, the cloud client and the port list are three calls.   *)
(* They are one step: what a machine created in between changes is what    *)
(* late tells of one created right after.                                  *)
Drained ==
    /\ pc = "drain"
    /\ MachineView = "none"
    /\ ~PortsGate(obj)
    /\ pc' = IF Remaining(obj) = {} THEN "release" ELSE "verify"
    /\ kind' = IF Remaining(obj) = {} THEN kind ELSE Target(obj)
    /\ UNCHANGED <<net, seen, route, obj, got, cloudVars, envVars, mishaps>>

(* verifyResource: a missing resource passes, a renamed one does not.      *)
OwnershipMismatchMutant(r) == r.id \notin alive \/ cname[r.id] # r.name
OwnershipMismatch(r)       == r.id \in alive /\ cname[r.id] # r.name
Verify ==
    /\ pc = "verify"
    /\ IF OwnershipMismatch(obj.res[kind]) THEN Fail
       ELSE pc' = "delete" /\ UNCHANGED <<net, kind, route, obj, got>>
    /\ UNCHANGED <<seen, cloudVars, envVars, mishaps>>

(* The cloud keeps what is in use.                                         *)
InUse(i) ==
    \/ AttachedPorts(i)
    \/ vm.sg = i
    \/ \E s \in alive : s.kind = "subnet" /\ parent[s] = i

(* Resource i is gone from the cloud.                                      *)
Gone(i) ==
    /\ alive' = alive \ {i}
    /\ cname' = [cname EXCEPT ![i] = NoName]
    /\ parent' = [parent EXCEPT ![i] = NoId]
    /\ rules' = [rules EXCEPT ![i] = {}]
    /\ UNCHANGED <<made, vm>>

DeleteResource ==
    /\ pc = "delete"
    /\ LET i == obj.res[kind].id IN
       CASE i \notin alive ->
              pc' = "forget" /\ UNCHANGED <<kind, route, obj, got, cloudVars>>
         [] i \in alive /\ InUse(i) ->
              Return /\ UNCHANGED cloudVars
         [] OTHER ->
              Gone(i) /\ pc' = "forget" /\ UNCHANGED <<kind, route, obj, got>>
    /\ UNCHANGED <<net, seen, envVars, mishaps>>

ForgetResource ==
    /\ pc = "forget"
    /\ net' = IF net.phase = "absent" THEN net
              ELSE MergeStatus(net, obj, [obj EXCEPT !.res[kind] = NoStatus])
    /\ Return
    /\ UNCHANGED <<seen, cloudVars, envVars, mishaps>>

(* removeFinalizer: the object goes with its last finalizer.               *)
Release ==
    /\ pc = "release"
    /\ net' = [net EXCEPT !.fin = FALSE, !.phase = "absent"]
    /\ Return
    /\ UNCHANGED <<seen, cloudVars, envVars, mishaps>>

-----------------------------------------------------------------------------
(* Faults of a pass: a call that fails, and a restart of the controller.   *)

PublishesFailure == {"bind", "authorize", "ensure", "observe", "adopt",
                     "drain", "verify"}

CallFails ==
    /\ pc # "idle"
    /\ "error" \in Mishaps /\ mishaps > 0
    /\ mishaps' = mishaps - 1
    /\ \/ pc \in PublishesFailure /\ Fail
       \/ net' = net /\ Return
    /\ UNCHANGED <<seen, cloudVars, envVars>>

Crash ==
    /\ pc # "idle"
    /\ "crash" \in Mishaps /\ mishaps > 0
    /\ mishaps' = mishaps - 1
    /\ Return
    /\ seen' = [net |-> IF "network" \in Lagging THEN net ELSE seen.net,
                cluster |-> IF "cluster" \in Lagging THEN cluster ELSE seen.cluster,
                machines |-> IF "machines" \in Lagging THEN machines
                             ELSE seen.machines]
    /\ UNCHANGED <<net, cloudVars, envVars>>

-----------------------------------------------------------------------------
(* The rest of the world.  Spec edits are what the CRD's validation allows *)
(* (clusterRef, region and projectName are immutable).                     *)

Edit(n) ==
    /\ net.phase # "absent" /\ net.gen < MaxGen
    /\ net' = [n EXCEPT !.gen = @ + 1]
    /\ UNCHANGED <<seen, passVars, cloudVars, envVars, mishaps>>

EditPolicy ==
    \E p \in Policies : /\ <<net.policy, p>> \in PolicyEdits
                        /\ Edit([net EXCEPT !.policy = p])
EditCIDRs ==
    \E cs \in (SUBSET CIDRs) \ {{}, net.cidrs} : Edit([net EXCEPT !.cidrs = cs])
EditName ==
    \E b \in Bases \ {net.base} : Edit([net EXCEPT !.base = b])

UserDelete ==
    /\ net.phase = "live"
    /\ net' = MarkDeleted(net)
    /\ UNCHANGED <<seen, passVars, cloudVars, envVars, mishaps>>

(* Kubernetes collects an object none of whose owners exists any more.     *)
GarbageCollect ==
    /\ net.phase = "live"
    /\ net.owners # {} /\ cluster \notin net.owners
    /\ net' = MarkDeleted(net)
    /\ UNCHANGED <<seen, passVars, cloudVars, envVars, mishaps>>

CreateCluster ==
    /\ cluster = 0 /\ uids < MaxClusters /\ net.phase # "absent"
    /\ uids' = uids + 1 /\ cluster' = uids + 1
    /\ UNCHANGED <<apiVars, passVars, cloudVars, machines, late, expired, mishaps>>

DeleteCluster ==
    /\ cluster # 0
    /\ cluster' = 0
    /\ UNCHANGED <<apiVars, passVars, cloudVars, uids, machines, late, expired,
                   mishaps>>

(* One machine at a time; bound: one machine after the deletion began.     *)
AddMachine ==
    /\ machines = "none" /\ cluster # 0 /\ net.phase # "absent"
    /\ net.phase = "deleting" => ~late
    /\ machines' = "booting"
    /\ late' = (net.phase = "deleting")
    /\ UNCHANGED <<apiVars, passVars, cloudVars, cluster, uids, expired, mishaps>>

(* The machine's server joins the network its machine config names...      *)
MachineBoots ==
    /\ machines = "booting" /\ vm = NoVM
    /\ {net.res["subnet"].id, net.res["sg"].id} \subseteq alive
    /\ machines' = "ready"
    /\ vm' = [subnet |-> net.res["subnet"].id, sg |-> net.res["sg"].id]
    /\ UNCHANGED <<apiVars, passVars, alive, made, cname, parent, rules,
                   cluster, uids, late, expired, mishaps>>

(* ... or, with none named, a network that the machine driver makes.       *)
MachineBootsOnOwnNetwork ==
    /\ machines = "booting" /\ vm = NoVM
    /\ net.policy = "Adopt" /\ DriverIds \cap made = {}
    /\ machines' = "ready"
    /\ vm' = [subnet |-> DriverId("subnet"), sg |-> DriverId("sg")]
    /\ alive' = alive \cup DriverIds
    /\ made' = made \cup DriverIds
    /\ cname' = [i \in Ids |-> IF i \in DriverIds THEN DriverName ELSE cname[i]]
    /\ parent' = [parent EXCEPT ![DriverId("subnet")] = DriverId("vpc")]
    /\ UNCHANGED <<apiVars, passVars, rules, cluster, uids, late, expired, mishaps>>

(* The machine object goes; its server may linger in the cloud.            *)
RemoveMachine ==
    /\ machines # "none"
    /\ machines' = "none"
    /\ vm' \in {vm, NoVM}
    /\ UNCHANGED <<apiVars, passVars, alive, made, cname, parent, rules,
                   cluster, uids, late, expired, mishaps>>

ServerGone ==
    /\ machines = "none" /\ vm # NoVM
    /\ vm' = NoVM
    /\ UNCHANGED <<apiVars, passVars, alive, made, cname, parent, rules, envVars,
                   mishaps>>

TimePasses ==
    /\ ~expired /\ net.phase = "live"
    /\ expired' = TRUE
    /\ UNCHANGED <<apiVars, passVars, cloudVars, cluster, uids, machines, late,
                   mishaps>>

(* Someone changes a controller-managed resource behind its back.          *)
Rename ==
    /\ "rename" \in Mishaps /\ mishaps > 0
    /\ mishaps' = mishaps - 1
    /\ \E i \in alive \ UserIds : cname' = [cname EXCEPT ![i] = Renamed]
    /\ UNCHANGED <<apiVars, passVars, alive, made, parent, rules, vm, envVars>>

Vanish ==
    /\ "vanish" \in Mishaps /\ mishaps > 0
    /\ mishaps' = mishaps - 1
    /\ \E i \in alive \ UserIds : ~InUse(i) /\ Gone(i)
    /\ UNCHANGED <<apiVars, passVars, envVars>>

(* An informer catches up.                                                 *)
SyncNetwork ==
    /\ "network" \in Lagging /\ seen' = [seen EXCEPT !.net = net]
    /\ UNCHANGED <<net, passVars, cloudVars, envVars, mishaps>>
SyncCluster ==
    /\ "cluster" \in Lagging /\ seen' = [seen EXCEPT !.cluster = cluster]
    /\ UNCHANGED <<net, passVars, cloudVars, envVars, mishaps>>
SyncMachines ==
    /\ "machines" \in Lagging /\ seen' = [seen EXCEPT !.machines = machines]
    /\ UNCHANGED <<net, passVars, cloudVars, envVars, mishaps>>

-----------------------------------------------------------------------------
PassStep ==
    \/ Begin \/ AddFinalizer \/ ClusterNotFound \/ AddOwner \/ ClusterFound
    \/ ClusterBound \/ DeleteOrphan \/ Authorize \/ Refuse \/ OwnershipToken
    \/ EnsureKnown \/ EnsureFound \/ EnsureCreated \/ Record \/ EnsureRules
    \/ Finish \/ Observe \/ Adopt \/ Claim \/ Wait \/ Drained \/ Verify
    \/ DeleteResource \/ ForgetResource \/ Release

FaultStep == EnsureRulesFails \/ CallFails \/ Crash \/ Rename \/ Vanish

WorldStep ==
    \/ EditPolicy \/ EditCIDRs \/ EditName \/ UserDelete \/ GarbageCollect
    \/ CreateCluster \/ DeleteCluster \/ AddMachine \/ MachineBoots
    \/ MachineBootsOnOwnNetwork \/ RemoveMachine \/ ServerGone \/ TimePasses
    \/ SyncNetwork \/ SyncCluster \/ SyncMachines

History ==
    /\ born' = born
    /\ owned' = owned \cup ManagedIds(net')

Next == (PassStep \/ FaultStep \/ WorldStep) /\ History

Spec == Init /\ [][Next]_vars

(* The work queue retries every failed pass and resyncs every ready object *)
(* after ten minutes, so passes never stop; Kubernetes collects garbage;   *)
(* machines of an object being deleted, and their servers, go away; an     *)
(* informer delivers what it missed.                                       *)
Fairness ==
    /\ WF_vars(PassStep /\ History)
    /\ WF_vars(GarbageCollect /\ History)
    /\ WF_vars(net.phase = "deleting" /\ RemoveMachine /\ History)
    /\ WF_vars(ServerGone /\ History)
    /\ WF_vars(SyncNetwork /\ History)
    /\ WF_vars(SyncCluster /\ History)
    /\ WF_vars(SyncMachines /\ History)

FairSpec == Spec /\ Fairness

-----------------------------------------------------------------------------
(* Safety                                                                  *)

(* Resources the user brought are never deleted and the rules of the       *)
(* user's security group never changed, whatever fails, restarts or is     *)
(* stale (reconcileObserve, reconcileDelete, verifyResource).              *)
ForeignUntouched ==
    /\ UserIds \subseteq alive
    /\ rules[UserId("sg")] = {}

(* The object goes only after everything its status ever recorded as       *)
(* controller-managed is gone from the cloud, unless the user chose        *)
(* Abandon (reconcileDelete, removeFinalizer).                             *)
RecordedNotLeaked ==
    net.phase = "absent" /\ net.policy # "Abandon" => owned \cap alive = {}

(* A resource the controller created is never lost sight of while the      *)
(* object lives: either the status names it, or the status names none of   *)
(* its kind and the next pass finds it by its name, a subnet in the VPC    *)
(* that the status names (Ensure*, patchStatus).                           *)
CreatedIsFindable ==
    net.phase = "live" =>
        \A i \in alive : i.origin = "controller" =>
            \/ net.res[i.kind].id = i
            \/ /\ net.res[i.kind].id = NoId
               /\ cname[i] = managedName(net.base)
               /\ i.kind = "subnet" => parent[i] = net.res["vpc"].id

(* The object as it is in the API server never loses sight of what it once *)
(* recorded: however old the copies that passes patch from, a recorded     *)
(* resource that exists is still named and marked managed, by a merge of   *)
(* two versions too (patchStatus, the patches of reconcileDelete).         *)
RecordedStaysNamed == owned \cap alive \subseteq ManagedIds(net)

(* A consumer that reads Ready for the current generation of a live object *)
(* finds every id, and every allowed CIDR in a group the controller rules  *)
(* (the final patch of each policy; read by the bootstrap controller).     *)
ReadyIsTrue ==
    net.phase = "live" /\ net.ready /\ net.og = net.gen =>
        /\ Complete(net)
        /\ net.policy # "Observe" =>
              net.cidrs \cup {"rke2"} \subseteq rules[net.res["sg"].id]

(* A pass gets to verifying and deleting resources only when no machine    *)
(* object and no server in the managed subnet is left, other than those of *)
(* a machine created after the deletion began (machineCount,               *)
(* AttachedPorts).                                                         *)
WaitsForMachines ==
    pc \in {"verify", "delete"} =>
        late \/ (machines = "none" /\ vm.subnet \notin ManagedIds(obj))

(* The orphan cleanup never deletes an object that an existing cluster     *)
(* owns (bindClusterOwner, orphanExpired).                                 *)
OrphanSparesBound ==
    [][pc = "orphan" /\ net'.phase # net.phase => cluster \notin net.owners]_vars

(* Security group before subnet before VPC: when the controller deletes a  *)
(* subnet no security group it managed is left in the cloud, and when it   *)
(* deletes a VPC neither a group nor a subnet is (reconcileDelete).        *)
Uses(k) == CASE k = "sg" -> {} [] k = "subnet" -> {"sg"} [] OTHER -> {"sg", "subnet"}
DeletesInOrder ==
    [][pc = "delete" /\ pc' = "forget" =>
         \A i \in alive \ alive' : \A j \in owned \cap alive :
            j.kind \notin Uses(i.kind)]_vars

(* What the README says of Managed, "deletes them when the network object  *)
(* is deleted": nothing the controller created outlives the object.  False *)
(* of the code: see the README's findings.                                 *)
NothingLeftBehind ==
    net.phase = "absent" /\ net.policy # "Abandon" =>
        \A i \in alive : i.origin # "controller"

-----------------------------------------------------------------------------
(* Liveness                                                                *)

(* A subnet was created and not recorded: reconcileDelete does not see it, *)
(* and the cloud keeps the VPC it is in.                                   *)
Stranded ==
    \E i \in alive : /\ i.origin = "controller" /\ i.kind = "subnet"
                     /\ net.res["subnet"].id # i

(* Deletion is retried until machines, ports and resources are gone, also  *)
(* those that someone else deleted, and the object released; the only      *)
(* thing that stops it for good is a stranded subnet (reconcileDelete).    *)
DeletionCompletes == []<>(net.phase = "deleting" => Stranded)

(* Someone else deleted a resource that the status names.                  *)
Lost == \E k \in Kinds : net.res[k].id \notin alive \cup {NoId}

(* A live object reaches Ready for its current generation again and again, *)
(* whatever call failed before, unless a recorded resource is lost: the    *)
(* controller does not make it again (Ensure*, the queue's retries).  Of   *)
(* an Adopt network it is said once the adoption has succeeded.            *)
BecomesReady ==
    []<>(/\ net.phase = "live" /\ net.policy # "Abandon" /\ ~Lost
         /\ net.policy = "Adopt" => Complete(net)
         => net.ready /\ net.og = net.gen)

(* A loss is reported: as long as it lasts, a Managed or hybrid network    *)
(* does not stay Ready (Ensure*, fail).  An adopted network may: a pass    *)
(* looks at its security group only.                                       *)
LossIsReported ==
    []<>(net.phase = "live" /\ net.policy # "Adopt" /\ Lost => ~net.ready)

(* An object whose cluster does not exist is deleted once its orphan       *)
(* timeout has passed (orphanExpired).                                     *)
OrphanReclaimed ==
    []<>(net.phase = "live" /\ expired => cluster # 0)

=============================================================================
