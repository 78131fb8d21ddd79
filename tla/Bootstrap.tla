------------------------------ MODULE Bootstrap ------------------------------
(***************************************************************************)
(* The bootstrap reconciler of one Rancher cluster                         *)
(* (internal/controller/cluster_network_bootstrap_controller.go), composed *)
(* with the life of the cluster's network object (module Lifecycle, which  *)
(* the network reconciler implements).  It asks for the adoption of the    *)
(* network of a legacy cluster, points the machine configs at a network    *)
(* that is Ready, and mirrors the network in the cluster's annotations.    *)
(*                                                                         *)
(* Abstractions.                                                           *)
(*  - An identifier is the number of the life of the object that named it, *)
(*    so that resources of two networks of the cluster are told apart.     *)
(*  - Of a machine config the scope and the resources it names are kept;   *)
(*    the names and flags written with them follow them.                   *)
(*  - The network is read from an informer, which may lag.  Cluster and    *)
(*    configs, unstructured objects, are read from the API server, but     *)
(*    others may write between a read and the patch made from it: this too *)
(*    is a copy that lags.  The pass keeps what it read while the world    *)
(*    moves on.                                                            *)
(*  - The network's name in the annotation is the one derived from the     *)
(*    cluster's name; the security group has no name and no policy of its  *)
(*    own, and the config allows SSH from everywhere.  Credential          *)
(*    reference and region are present: a pass that finds them missing is  *)
(*    a pass that fails.                                                   *)
(***************************************************************************)
EXTENDS Integers, Sequences, FiniteSets, SequencesExt

CONSTANTS
    Kinds,      \* the kinds of resource that a config names
    Users,      \* which kinds use which, see Lifecycle
    Configs,    \* names of machine configs, "pool" among them
    Lagging,    \* the copies that may lag behind the API server
    MaxLives,   \* bound: network objects of the cluster, one after another
    MaxEdits,   \* bound: edits by users and degradations of the network
    MaxMishaps  \* bound: failed calls and restarts

Copies == {"cluster", "configs", "network"}

ASSUME BootstrapConstants ==
    /\ Lagging \subseteq Copies
    /\ Users \in [Kinds -> SUBSET Kinds]
    /\ "pool" \in Configs /\ IsFiniteSet(Configs)
    /\ {MaxLives, MaxEdits, MaxMishaps} \subseteq Nat

Lives   == 1..MaxLives
NoId    == 0
UserNet == MaxLives + 1   \* existing resources that the user named

CIDRChoices == {"0.0.0.0/0", "edited"}
(* Abandon is a user's edit after which the network is never Ready again:  *)
(* here it is a network that degrades and does not recover.                *)
Policies    == {"Managed", "Observe", "Adopt"}

(* A machine config; "none" when it does not exist.                        *)
Config ==
    [scope : {"none", "machine", "shared"}, owned : BOOLEAN,
     ids : [Kinds -> Lives \cup {NoId, UserNet}]]
NoConfig         == [scope |-> "none", owned |-> FALSE, ids |-> [k \in Kinds |-> NoId]]
MachineScoped(w) == [scope |-> "machine", owned |-> w, ids |-> [k \in Kinds |-> NoId]]
ExistingNetwork  == [scope |-> "shared", owned |-> FALSE,
                     ids |-> [k \in Kinds |-> UserNet]]

(* The cluster's annotations: provider, network name, policy, SSH CIDRs    *)
(* and the policy of the security group.                                   *)
Annotations ==
    [provider : BOOLEAN, name : BOOLEAN, policy : Policies \cup {""},
     cidrs : CIDRChoices \cup {""}, sg : {"Managed", "Observe", ""}]
NewAnnotations(p) ==
    [provider |-> FALSE, name |-> FALSE, policy |-> p, cidrs |-> "", sg |-> ""]

(* A definition named ...Mutant beside the one it alters is a mistake that *)
(* the properties are tested against; the specification does not use it.   *)

networkSecurityGroupPolicyMutant(p) == p
networkSecurityGroupPolicy(p) == IF p \in {"Managed", "Adopt"} THEN "Managed" ELSE "Observe"

VARIABLES
    o,        \* the network object as Lifecycle has it
    spec,     \* its spec, and which life of the object this is
    cluster,  \* the provisioning cluster
    configs,  \* the machine configs
    seen,     \* the copies of cluster, configs and network that reads give
    pc,       \* the call the pass makes next; "idle" between passes
    copy,     \* the pass's copy of the cluster
    refs,     \* the configs its pools refer to, as read when the pass began
    found,    \* the pass's copy of the network
    todo,     \* the configs the pass has still to patch
    edits,    \* edits still allowed
    mishaps,  \* faults still allowed
    born,     \* history: policy annotation and first config at creation
    single,   \* history: the cluster once had one node
    readied   \* history: the lives that were Ready for their generation

netVars  == <<o, spec>>
passVars == <<pc, copy, refs, found, todo>>
vars     == <<o, spec, cluster, configs, seen, pc, copy, refs, found, todo, edits,
              mishaps, born, single, readied>>

Network == INSTANCE Lifecycle WITH Ids <- Lives

Net        == [o |-> o, spec |-> spec]
NoNet      == [o |-> [Network!NewObject(FALSE) EXCEPT !.phase = "absent"],
               spec |-> [policy |-> "Managed", cidrs |-> "0.0.0.0/0", life |-> 0]]
NoCluster  == [phase |-> "absent", ann |-> NewAnnotations(""), pools |-> <<>>]

World   == [cluster |-> cluster, configs |-> configs, network |-> Net]
View(i) == IF i \in Lagging THEN seen[i] ELSE World[i]

IsReady(n) == n.o.ready /\ n.o.og = n.o.gen

ASpec    == [policy : Policies, cidrs : CIDRChoices, life : 0..MaxLives]
ANet     == [o : Network!NetworkObject, spec : ASpec]
Pool     == [config : Configs \cup {""}, quantity : 1..2]
ACluster == [phase : {"live", "deleting", "absent"}, ann : Annotations,
             pools : Seq(Pool)]

TypeOK ==
    /\ Net \in ANet /\ found \in ANet
    /\ cluster \in ACluster /\ copy \in ACluster
    /\ configs \in [Configs -> Config]
    /\ seen \in [cluster : ACluster,
                 configs : [Configs -> Config], network : ANet]
    /\ pc \in {"idle", "provider", "lookup", "create", "announce", "configs", "annotate"}
    /\ refs \in Seq(Configs) /\ todo \in Seq(Configs)
    /\ edits \in 0..MaxEdits /\ mishaps \in 0..MaxMishaps
    /\ readied \subseteq Lives

(* The nodes of all pools, of other drivers too.                            *)
desiredNodeCount(c) == FoldLeft(LAMBDA acc, p : acc + p.quantity, 0, c.pools)

(* The cluster was made by hand or by an older UI (no annotation), or by a *)
(* UI that announces the policy; its first config names an existing        *)
(* network of the user or none.                                            *)
Init ==
    /\ \E p \in Policies \cup {""}, n \in 1..2,
          c \in {MachineScoped(FALSE), ExistingNetwork},
          d \in {NoConfig, MachineScoped(TRUE)} :
         /\ cluster = [phase |-> "live", ann |-> NewAnnotations(p),
                       pools |-> <<[config |-> "pool", quantity |-> n]>>]
         /\ configs = [x \in Configs |-> IF x = "pool" THEN c ELSE d]
         /\ born = [policy |-> p, config |-> c]
    /\ single = (desiredNodeCount(cluster) = 1)
    /\ o = NoNet.o /\ spec = NoNet.spec
    /\ seen = World
    /\ pc = "idle" /\ copy = NoCluster /\ refs = <<>> /\ found = NoNet /\ todo = <<>>
    /\ edits = MaxEdits /\ mishaps = MaxMishaps
    /\ readied = {}

-----------------------------------------------------------------------------
(* The end of a pass.                                                      *)
Return ==
    /\ pc' = "idle" /\ copy' = NoCluster /\ refs' = <<>>
    /\ found' = NoNet /\ todo' = <<>>

(* One leaf of a JSON merge patch: only what differs from the base is sent.*)
Patched(cur, base, new) ==
    [f \in DOMAIN new |-> IF new[f] = base[f] THEN cur[f] ELSE new[f]]

-----------------------------------------------------------------------------
(* The configs of the pools in order, each once; a pool of another driver  *)
(* ("") has none, though its nodes count.                                  *)
FirstUses(pools) ==
    {i \in DOMAIN pools : /\ pools[i].config # ""
                          /\ \A j \in 1..(i - 1) : pools[j].config # pools[i].config}
Rank(i, S) == Cardinality({j \in S : j <= i})
tcloudMachineConfigRefs(c) ==
    LET uses == FirstUses(c.pools)
    IN  [n \in 1..Cardinality(uses) |-> c.pools[CHOOSE i \in uses : Rank(i, uses) = n].config]

Begin ==
    /\ pc = "idle"
    /\ View("cluster").phase = "live"
    /\ tcloudMachineConfigRefs(View("cluster")) # <<>>
    /\ copy' = View("cluster")
    /\ refs' = tcloudMachineConfigRefs(View("cluster"))
    /\ pc' = IF View("cluster").ann.provider THEN "lookup" ELSE "provider"
    /\ UNCHANGED <<netVars, cluster, configs, seen, found, todo, edits, mishaps>>

(* The answer of the patch becomes the copy; the refs read before stay.    *)
EnsureProviderAnnotation ==
    /\ pc = "provider"
    /\ cluster' = [cluster EXCEPT !.ann.provider = TRUE]
    /\ copy' = cluster'
    /\ pc' = "lookup"
    /\ UNCHANGED <<netVars, configs, seen, refs, found, todo, edits, mishaps>>

machineScopedWithoutExistingNetwork(c) ==
    c.scope = "machine" /\ \A k \in Kinds : c.ids[k] = NoId

(* Which missing network the pass asks for.                                *)
AsksAdoptionMutant(c) == c.ann.policy = "Adopt"
AsksAdoptionMutant2(c) == c.ann.policy = "Adopt" \/ desiredNodeCount(c) = 1
AsksAdoption(c) ==
    /\ ~c.ann.name /\ c.ann.policy \notin {"Managed", "Observe"}
    /\ c.ann.policy = "Adopt" \/ desiredNodeCount(c) = 1

(* The config is read in the same step as the missing network.             *)
NetworkMissing ==
    /\ pc = "lookup"
    /\ View("network").o.phase = "absent"
    /\ IF /\ AsksAdoption(copy)
          /\ machineScopedWithoutExistingNetwork(View("configs")[refs[1]])
       THEN pc' = "create" /\ UNCHANGED <<copy, refs, found, todo>>
       ELSE Return
    /\ UNCHANGED <<netVars, cluster, configs, seen, edits, mishaps>>

completeNetworkStatusMutant(n) == TRUE
completeNetworkStatus(n) == \A k \in Kinds : n.o.ids[k] # NoId

(* The referenced configs in order, then the others the cluster owns.      *)
machineConfigNamesMutant(view) == refs
machineConfigNames(view) ==
    refs \o SetToSeq({c \in Configs : view[c].owned} \ Range(refs))

NetworkFound ==
    /\ pc = "lookup"
    /\ View("network").o.phase # "absent"
    /\ IF IsReady(View("network")) /\ completeNetworkStatus(View("network"))
       THEN /\ found' = View("network")
            /\ todo' = machineConfigNames(View("configs"))
            /\ pc' = "configs"
            /\ UNCHANGED <<copy, refs>>
       ELSE Return
    /\ UNCHANGED <<netVars, cluster, configs, seen, edits, mishaps>>

(* The object comes into being, for the first time or again.               *)
NewLife(p) ==
    /\ o.phase = "absent" /\ spec.life < MaxLives
    /\ o' = Network!NewObject(FALSE)
    /\ spec' = [policy |-> p, cidrs |-> "0.0.0.0/0", life |-> spec.life + 1]

(* An object that exists already is left to the next pass.                 *)
CreateAdoption ==
    /\ pc = "create"
    /\ IF o.phase # "absent" THEN Return /\ UNCHANGED netVars
       ELSE /\ NewLife("Adopt")
            /\ found' = [o |-> o', spec |-> spec']
            /\ pc' = "announce"
            /\ UNCHANGED <<copy, refs, todo>>
    /\ UNCHANGED <<cluster, configs, seen, edits, mishaps>>

(* One config is read from the cache and patched; a missing one ends the   *)
(* pass with an error.                                                     *)
PointedAt(c, n) == [scope |-> "shared", owned |-> c.owned, ids |-> n.o.ids]

PatchMachineConfig ==
    /\ pc = "configs"
    /\ todo # <<>>
    /\ LET c    == Head(todo)
           view == View("configs")[c]
           want == PointedAt(view, found)
           cur  == configs[c]
       IN  IF view.scope = "none" \/ (cur.scope = "none" /\ want # view)
           THEN Return /\ UNCHANGED configs
           ELSE /\ configs' = [configs EXCEPT ![c] =
                       [scope |-> Patched(cur, view, want).scope,
                        owned |-> cur.owned,
                        ids |-> Patched(cur.ids, view.ids, want.ids)]]
                /\ todo' = Tail(todo)
                /\ pc' = IF Tail(todo) = <<>> THEN "annotate" ELSE "configs"
                /\ UNCHANGED <<copy, refs, found>>
    /\ UNCHANGED <<netVars, cluster, seen, edits, mishaps>>

(* patchClusterNetworkAnnotations, after a creation and after the configs: *)
(* the cluster is read from the cache again.                               *)
DesiredAnnotations(n) ==
    [provider |-> TRUE, name |-> TRUE, policy |-> n.spec.policy,
     cidrs |-> n.spec.cidrs, sg |-> networkSecurityGroupPolicy(n.spec.policy)]

PatchClusterNetworkAnnotations ==
    /\ pc \in {"announce", "annotate"}
    /\ cluster' = [cluster EXCEPT !.ann =
                     Patched(@, View("cluster").ann, DesiredAnnotations(found))]
    /\ Return
    /\ UNCHANGED <<netVars, configs, seen, edits, mishaps>>

-----------------------------------------------------------------------------
(* Faults of a pass.                                                       *)
CallFails ==
    /\ pc # "idle" /\ mishaps > 0
    /\ mishaps' = mishaps - 1
    /\ Return
    /\ UNCHANGED <<netVars, cluster, configs, seen, edits>>

Restart ==
    /\ pc # "idle" /\ mishaps > 0
    /\ mishaps' = mishaps - 1
    /\ Return
    /\ seen' = [i \in Copies |-> IF i \in Lagging THEN World[i] ELSE seen[i]]
    /\ UNCHANGED <<netVars, cluster, configs, edits>>

-----------------------------------------------------------------------------
(* The network object: steps of Lifecycle, with what this model keeps.     *)
NetworkStep(A) == A /\ UNCHANGED <<cluster, configs, seen, passVars, mishaps>>

NamedBy(S) == [k \in Kinds |-> IF k \in S THEN spec.life ELSE o.ids[k]]

NetworkLearns ==
    \E k \in Kinds \ Network!Known(o) :
        NetworkStep(/\ o.phase = "live"
                    /\ Network!Learn(NamedBy({k}), o.mine \cup {k})
                    /\ UNCHANGED <<spec, edits>>)
NetworkReadied ==
    /\ ~IsReady(Net)
    /\ Network!Whole(o)
    /\ NetworkStep(Network!Publish(o.ids, o.mine, o.gen) /\ UNCHANGED <<spec, edits>>)
NetworkDegrades ==
    /\ edits > 0 /\ o.ready
    /\ NetworkStep(Network!Degrade /\ edits' = edits - 1 /\ UNCHANGED spec)
NetworkEdited ==
    /\ edits > 0 /\ o.phase = "live"
    /\ NetworkStep(/\ Network!Edit(FALSE)
                   /\ \E c \in CIDRChoices \ {spec.cidrs} : spec' = [spec EXCEPT !.cidrs = c]
                   /\ edits' = edits - 1)
NetworkDeleted  == /\ edits > 0
                   /\ NetworkStep(Network!Delete /\ edits' = edits - 1 /\ UNCHANGED spec)
NetworkForgets  == \E k \in Kinds :
                      NetworkStep(Network!Forget(k) /\ UNCHANGED <<spec, edits>>)
NetworkReleased == NetworkStep(Network!Release /\ UNCHANGED <<spec, edits>>)

(* A UI that announced a policy, or a user, creates the network.           *)
UserCreatesNetwork ==
    /\ \E p \in {"Managed", "Observe"} :
          cluster.ann.policy \in {p, ""} /\ NewLife(p)
    /\ UNCHANGED <<cluster, configs, seen, passVars, edits, mishaps>>

-----------------------------------------------------------------------------
(* Users and Rancher change cluster and configs.                           *)
UserStep(A) ==
    /\ edits > 0 /\ edits' = edits - 1
    /\ A
    /\ UNCHANGED <<netVars, seen, passVars, mishaps>>

Scale == UserStep(/\ cluster.phase = "live"
                  /\ cluster' = [cluster EXCEPT !.pools[1].quantity = 3 - @]
                  /\ UNCHANGED configs)
(* A config of a new pool; the pool refers to it in a later edit, and      *)
(* Rancher makes the cluster its owner.                                    *)
AddConfig == \E c \in Configs, w \in BOOLEAN :
    /\ configs[c].scope = "none"
    /\ UserStep(configs' = [configs EXCEPT ![c] = MachineScoped(w)] /\ UNCHANGED cluster)
AddPool == \E c \in {x \in Configs : configs[x].scope # "none"} \cup {""} :
    /\ cluster.phase = "live"
    /\ UserStep(/\ cluster' = [cluster EXCEPT !.pools =
                                   Append(@, [config |-> c, quantity |-> 1])]
                /\ UNCHANGED configs)
RemoveConfig == \E c \in Configs \ Range(tcloudMachineConfigRefs(cluster)) :
    /\ configs[c].scope # "none"
    /\ UserStep(configs' = [configs EXCEPT ![c] = NoConfig] /\ UNCHANGED cluster)
(* A form saved with the values of before.                                 *)
ResetConfig == \E c \in Configs :
    /\ configs[c].scope = "shared" /\ born.config.scope = "machine"
    /\ UserStep(configs' = [configs EXCEPT ![c] = MachineScoped(configs[c].owned)]
                /\ UNCHANGED cluster)
DeleteCluster == UserStep(/\ cluster.phase = "live"
                          /\ cluster' = [cluster EXCEPT !.phase = "deleting"]
                          /\ UNCHANGED configs)

(* A copy catches up.                                                      *)
Sync(i) ==
    /\ seen[i] # World[i]
    /\ seen' = [seen EXCEPT ![i] = World[i]]
    /\ UNCHANGED <<netVars, cluster, configs, passVars, edits, mishaps>>

-----------------------------------------------------------------------------
PassStep ==
    \/ Begin \/ EnsureProviderAnnotation \/ NetworkMissing \/ NetworkFound
    \/ CreateAdoption \/ PatchMachineConfig \/ PatchClusterNetworkAnnotations
NetworkMoves ==
    \/ NetworkLearns \/ NetworkReadied \/ NetworkDegrades \/ NetworkEdited
    \/ NetworkDeleted \/ NetworkForgets \/ NetworkReleased \/ UserCreatesNetwork
WorldStep ==
    \/ Scale \/ AddConfig \/ AddPool \/ RemoveConfig \/ ResetConfig \/ DeleteCluster
    \/ \E i \in Lagging : Sync(i)

History ==
    /\ born' = born
    /\ single' = (single \/ desiredNodeCount(cluster') = 1)
    /\ readied' = readied \cup (IF IsReady(Net)' THEN {spec'.life} ELSE {})

Next == (PassStep \/ CallFails \/ Restart \/ NetworkMoves \/ WorldStep) /\ History

Spec == Init /\ [][Next]_vars

(* Passes recur: a pass asks to be run again after ten minutes, or its     *)
(* error makes the queue retry it; copies catch up.  Nothing is assumed of *)
(* the network object: it may never become Ready.                          *)
Fairness ==
    /\ WF_vars(PassStep /\ History)
    /\ \A i \in Lagging : WF_vars(Sync(i) /\ History)

FairSpec == Spec /\ Fairness

-----------------------------------------------------------------------------
(* Safety                                                                  *)

(* A machine config never mixes the resources of two networks and never    *)
(* names a network that was not Ready: the ids it names are all those of   *)
(* one network that was Ready for its spec, or the user's own, or it names *)
(* none, though it is patched field by field against earlier reads and the *)
(* network may be in deletion (patchMachineConfig, completeNetworkStatus). *)
(* A shared config names a network, unless someone reset it between a read *)
(* and the patch that followed; Converges says that this is mended.        *)
NamesWholeNetwork ==
    \A c \in Configs :
        \E i \in readied \cup {UserNet, NoId} :
            /\ \A k \in Kinds : configs[c].ids[k] = i
            /\ configs[c].scope = "shared" /\ "configs" \notin Lagging => i # NoId

(* The network of a cluster is claimed only where that is meant: not when  *)
(* the cluster was made with Managed or Observe, nor when its config names *)
(* existing resources, also after its network object was deleted; and only *)
(* if the cluster had a single node or asked for it (Reconcile).           *)
ClaimsOnlyLegacyNetworks ==
    spec.policy = "Adopt" /\ o.phase # "absent" =>
        /\ born.policy \notin {"Managed", "Observe"}
        /\ born.config # ExistingNetwork
        /\ single \/ born.policy = "Adopt"

-----------------------------------------------------------------------------
(* Liveness                                                                *)

Managed == Range(tcloudMachineConfigRefs(cluster)) \cup {c \in Configs : configs[c].owned}
Settled == cluster.phase = "live" /\ o.phase = "live" /\ IsReady(Net)
Converged ==
    /\ \A c \in Managed : configs[c] = PointedAt(configs[c], Net)
    /\ cluster.ann = DesiredAnnotations(Net)

(* While a network stays Ready, all configs that the cluster refers to or  *)
(* owns come to name it, also those added or reset later, and the          *)
(* annotations come to mirror it, also after stale reads, failures and     *)
(* restarts (README.md, Scaling behavior).                                 *)
Converges == Settled ~> (Converged \/ ~Settled)

(* A legacy single-node cluster gets as far as its network does: the       *)
(* request to adopt is made and, unless the adoption fails for ever, the   *)
(* configs and annotations come to name the adopted network, whatever call *)
(* failed and wherever the process stopped in between; unless the cluster  *)
(* is scaled or deleted, or someone makes or deletes the network meanwhile *)
(* (Reconcile, newAdoptionNetwork).                                        *)
Wanting ==
    /\ cluster.phase = "live" /\ desiredNodeCount(cluster) = 1 /\ cluster.ann.policy = ""
    /\ spec.life = 0
    /\ machineScopedWithoutExistingNetwork(configs[tcloudMachineConfigRefs(cluster)[1]])
Interfered ==
    \/ cluster.phase # "live" \/ desiredNodeCount(cluster) # 1
    \/ spec.life > 0 /\ (o.phase # "live" \/ spec.policy # "Adopt")
Requested == o.phase = "live" /\ spec.policy = "Adopt"
LegacyClusterConverges ==
    Wanting ~> \/ Interfered
               \/ Requested /\ Settled /\ Converged
               \/ [](Requested /\ ~IsReady(Net))

=============================================================================
