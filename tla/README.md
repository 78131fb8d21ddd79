# T-Cloud Rancher network controller: TLA+ verification project

The controller runs in Rancher's management cluster. For each
`TCloudClusterNetwork` object it creates (or adopts, or only observes) a VPC, a
subnet and a security group in the T-Cloud, keeps the group's rules in line with
the spec, and removes what it owns when the object is deleted. A second,
smaller reconciler creates such objects for legacy clusters and points the
machine configurations at a network that is Ready.

Paths below are relative to `src/`. `C` is
`internal/controller/tcloudclusternetwork_controller.go`, `B` is
`internal/controller/cluster_network_bootstrap_controller.go`.

## 1. Inventory

| component | state | operations | talks to |
|---|---|---|---|
| Network reconciler (`C`) | none of its own: the object's finalizer, owner references and status | `Reconcile`, `bindClusterOwner`, `reconcileManaged/Observe/Adopt/Delete` | API server (patches; clusters and machines are read there too), informer cache (reads of the object), cloud service |
| Network object (`api/v1alpha1`) | spec, generation, deletion mark, finalizer, owners, status (ids, names, `controllerManaged`, applied CIDRs, observed generation, conditions) | user edits allowed by the CRD's validation, deletion, garbage collection | |
| Cloud service (`internal/cloud/tcloud.go`) | the cloud: resources, names, rules, ports | `Ensure*` (by id, by name, or create), `Get*`, `AttachedPorts`, `Delete*` | T-Cloud APIs |
| Rules (`internal/cloud/rules.go`) | none | `RKE2Rules`, `ObsoleteSSHRules` | |
| Adoption (`internal/controller/adoption.go`) | none | `discoverAdoptableResources`: oldest machine with a state Secret, decode, check ownership | API server |
| Bootstrap reconciler (`B`) | none of its own: cluster annotations, machine configs, Adopt requests | `Reconcile` per cluster: ask for an adoption, patch configs, patch annotations | network object (from a cache), clusters and configs (from the API server) |
| Credentials, names | none | pure functions of a Secret or a name | |
| Manager (`cmd/main.go`) | leader lease | starts both reconcilers | |

What is hard here. The reconciler's memory is the status, written by several
patches in one pass, each of which may fail, come from a stale copy, or meet an
object that was edited or deleted meanwhile. The cloud has no transactions: a
resource is created in one call and recorded in another. Deletion spreads over
many passes, competes with machines that still boot, and must neither stop for
ever nor let the object go while resources remain. Two more actors delete
objects: the orphan timeout and the garbage collector. The hazards in
`PROJECT.json` list these places line by line.

What makes each component correct:

- network reconciler: user resources are never touched; what was recorded is
  removed before the object goes; what was created is found again; Ready is
  true; deletion waits, goes in order and ends; live objects become Ready;
  orphans, and only orphans, are reclaimed;
- cloud service and rules: a retried `Ensure` does not duplicate; exactly the
  wanted rules result and rules of others stay;
- adoption: only the network of the oldest machine with complete state is claimed,
  and only if its driver made all of it;
- bootstrap: machine configs only ever name a complete, Ready network of their
  own cluster, and converge to it;
- names: managed names of different objects differ; clusters share a network
  object only where a name loses information;
- credentials: what is accepted can open a client.

## 2. Modules

| module | content |
|---|---|
| `Lifecycle` | abstract specification: what a network object promises to those who read it (`Spec`), and what is left of it when passes work on old copies (`LaggedSpec`) |
| `NetworkReconciler` | the network reconciler with the object, caches, cloud, cluster and machines it works on; its properties |
| `NetworkLifecycle` | the refinement mapping: `NetworkReconciler` implements `Lifecycle`, `Spec` when the object is read fresh and `LaggedSpec` in any case |
| `Bootstrap` | the bootstrap reconciler of one cluster, composed with `Lifecycle` |
| `SecurityGroupRules` | the loop over the rules of a group, call by call, with users who change spec and group |
| `Adoption`, `Names`, `Credentials` | pure functions and their reference definitions |
| `PureFunctions` | their calls as a specification: which inputs the code gives them, and the properties of the results |
| `MCNetworkReconciler`, `MCBootstrap`, `MCFunctions` | constants and inputs of the TLC runs |
| `NetworkReconcilerProofs` | theorems on `NetworkReconciler` for any lag: types, the user's resources, the orphan cleanup |
| `NetworkPassProofs` | what a pass may rely on however old its copy of the object is; the next three build on it |
| `NetworkOwnedProofs`, `NetworkReadyProofs`, `NetworkLifecycleProofs` | finding what was created, keeping what was recorded, leaks and order of deletion; Ready and waiting for machines; the refinement of `LaggedSpec` |
| `BootstrapProofs`, `SecurityGroupRulesProofs` | theorems on `Bootstrap` and `SecurityGroupRules` |
| `FunctionsProofs` | theorems on the pure functions, for every input |

How they compose. The two reconcilers meet in the network object only: the
network reconciler writes it, the bootstrap reconciler creates and reads it.
`Lifecycle` is that interface. `ImplementsLifecycle` shows that the network
reconciler, with all its passes, failures and restarts, makes only steps of
`Lifecycle` on the object, and `Bootstrap` uses exactly those steps
(`INSTANCE Lifecycle`) for the object it observes, so that its properties do not
need the product of the two state spaces. That link holds for an object read fresh;
with an old copy the network reconciler keeps `LaggedSpec` (`KeepsPromises`), in which
Ready may be repeated after it was taken back, but still names the same resources. In the same way `NetworkReconciler`
takes the loop over rules as one step that may stop anywhere, and
`SecurityGroupRules` opens that step; `Adoption` opens its action `Adopt`.

### How `NetworkReconciler` corresponds to the code

A call of `Reconcile` is a *pass*. The variable `pc` names the remote call that
the pass makes next, so that everything else may happen between two calls; local
computation belongs to the step of the call before it.

| `pc` | code | actions |
|---|---|---|
| `idle` | `C:57-72` read from the cache, dispatch | `Begin` |
| `finalizer` | `C:67-72` | `AddFinalizer` (an Update, which conflicts with a newer object) |
| `bind`, `bound` | `bindClusterOwner` `C:409-445` | `ClusterNotFound`, `AddOwner`, `ClusterFound`, `ClusterBound` |
| `orphan` | `C:81-84` | `DeleteOrphan` |
| `authorize` | `C:86-107` | `Authorize` (credentials, condition, dispatch on policy), then `Refuse` for Abandon |
| `token` | `C:168-172`, `C:261-265` | `OwnershipToken` |
| `ensure` | `Ensure*` in `tcloud.go` | `EnsureKnown`, `EnsureFound`, `EnsureCreated` |
| `record` | `C:182-221`, `C:274-280` | `Record` |
| `rules` | second `EnsureSecurityGroup` | `EnsureRules`, `EnsureRulesFails` |
| `finish` | last patch of each policy | `Finish` |
| `observe` | `C:249-294` | `Observe` |
| `adopt`, `claim` | `C:110-139`, `adoption.go` | `Adopt`, `Claim` |
| `drain` | `C:333-358` | `Wait`, `Drained` |
| `verify`, `delete`, `forget` | `C:360-386` | `Verify`, `DeleteResource`, `ForgetResource` |
| `release` | `removeFinalizer` | `Release` |

State. `net` is the object in the API server, `seen` what reads give for what is
in `Lagging`, `obj` the pass's copy. Only the object itself comes from an
informer's cache. Clusters and machines are unstructured objects, and the client
of a manager with default options (`cmd/main.go:46`) reads those from the API
server; where a run lets them lag, this stands for a read made some time before
its use, and for a client that is set up to cache them. A status patch (`MergeStatus`) sends the
fields in which the new status differs from `obj`, and the answer becomes the
new `obj`, spec and generation included, as controller-runtime does. `alive`,
`made`, `cname`, `parent`, `rules` and `vm` are the cloud; an identifier says who
made the resource (the controller, the user, the machine driver). `cluster`,
`uids`, `machines` and `late` are Rancher. `born` and `owned` are history
variables for the properties and the proof.

An object whose pass got past `finalizer` stays in the API server until a later
pass removes the finalizer: caches never go back, so a pass works on a live
copy only while the object still has its finalizer. Patches of a live pass
therefore meet an existing object; the patches of a deletion pass, which may
work on a stale copy of an object already released, need not.

"Hybrid" is policy Observe with a managed security group. Of the conditions
only Ready is kept; a patch of any condition replaces the whole list, so it
writes back the Ready of the pass's copy (`WrittenReady`), unless the patch is
empty.

Failures. Any call of a pass may fail before its effect (`CallFails`); a call
whose effect happens and whose answer is lost is that call followed by a failure
of the next one. `EnsureRulesFails` stops the loop over rules anywhere. `Crash`
ends the pass and refills the caches. `Rename` and `Vanish` are people at the
cloud console. The environment edits the spec within the CRD's validation,
deletes the object, creates and deletes the cluster (a new incarnation has a new
UID), and creates and removes the machine, whose server may linger.

### `Lifecycle`

One record: phase, generation, observed generation, Ready, the ids in the status,
the kinds marked controller-managed, and whether the policy is Abandon. The
steps say what readers may rely on: a named id stays until deletion; what becomes
the controller's own was not named before (so the user's resources are not
taken over); Ready needs all ids and an observed generation that does not run
ahead or back; resources are given up users first; the object goes when it owns
nothing, or is abandoned. It holds when the object is read fresh and the policy is
only edited to Abandon: findings 2 and 3 are what happens otherwise.

The code does not give a fresh read: the object comes from an informer's cache
(`C:59`). `LaggedSpec` is what it promises all the same: what is named stays named
until the deletion, what becomes the controller's own was not named before, Ready
on a live object and a newly observed generation mean that all is named, no
generation is ahead of the spec, and a deletion is not taken back. What is lost is
that Ready and the observed generation only move forward, the order in which
resources are given up, and the guard of the release.

### How `Bootstrap` corresponds to the code

| `pc` | code | actions |
|---|---|---|
| `idle` | `B:31-44` the cluster, its pools' configs | `Begin` |
| `provider` | `ensureProviderAnnotation` | `EnsureProviderAnnotation` (the answer becomes the copy of the cluster) |
| `lookup` | `B:49-96` | `NetworkMissing` (decides on an adoption), `NetworkFound` (Ready for its generation, complete status, list of configs) |
| `create` | `B:73-84`, `newAdoptionNetwork` | `CreateAdoption`; AlreadyExists ends the pass |
| `configs` | `patchMachineConfig` per config | `PatchMachineConfig` |
| `announce`, `annotate` | `patchClusterNetworkAnnotations` | `PatchClusterNetworkAnnotations` |

A merge patch (`Patched`) sends the fields that differ from the copy that was
read; the others keep what the API server has. `View` is what a read gives: an
older copy if it is in `Lagging`. The network comes from an informer's cache;
clusters and configs are unstructured and read from the API server, but others
write between a `Get` and the `Patch` made from it, which a lagging copy covers. An identifier is the number of the life of the network object
that named it, so that resources of two networks of one cluster, one after the
other, are told apart. Users scale the cluster, add pools (also of another
driver), add, remove and reset configs, edit, degrade, delete and re-create the
network, and delete the cluster. When the lives are used up (`MaxLives`), a
creation waits: the bound, not the code, stops it, and the liveness properties
hold under it because they speak of the first life or of a Ready network.

### How `SecurityGroupRules` corresponds to the code

`ReadGroup` is the read of the group at the beginning of `EnsureSecurityGroup`;
`AddRule`, `RemoveRule` are its calls to the cloud, `RecordApplied` the status
patch that ends the pass. `snap` is the list of rules the pass read and never
refreshes; `handles` are those whose identifier is still valid, because the code
deletes by identifier: a rule that someone deleted and made again is a different
one. A rule is identified by its content and the cloud refuses a second one with
the same content. `group` also says who made a rule, which the code cannot see.

### Pure functions

`Adoption` keeps of a machine its name, age, deletion mark and Secret, and of the
Secret whether it can be read, decompressed and parsed; the reference says which
machine decides and what it must own. `Names` works on sequences of characters
with the alphabet and the length limits as parameters, checked at small limits so
that every cut happens. `Credentials` knows present, blank and missing values.
`PureFunctions` makes one call: its constants are the sets of inputs, its
assumption `CallsConstants` says what the program gives the functions (machines of
a cluster have different names, a Secret that cannot be read has no archive, a UID
is made of letters, digits and dashes, not of dashes only). `MCFunctions` chooses
the finite sets for TLC. Two loops are written so that they can be proved about: a
loop over a string as a recursive function on the length of the prefix read, and
`sort.Slice` as the one increasing arrangement of the machines.

Definitions named `...Mutant` are deliberate mistakes that the properties are
tested against; the specifications do not use them.

## 3. Runs

| run | what varies | properties |
|---|---|---|
| `ManagedFaults` | Managed; two CIDRs, one spec edit, one cluster and machine, one failed call or restart | `TypeOK`, `RecordedNotLeaked`, `CreatedIsFindable`, `ReadyIsTrue`, `WaitsForMachines`, `DeletesInOrder`, `ImplementsLifecycle` |
| `Policies` | Observe, hybrid, Adopt, Abandon and edits to Abandon; lagging machine list; one failed call, rename or vanished resource | `ForeignUntouched`, `RecordedNotLeaked`, `ImplementsLifecycle` |
| `StaleCache` | Managed and hybrid, lagging object and cluster caches, one failed call or restart | `CreatedIsFindable`, `RecordedStaysNamed`, `ReadyIsTrue`, `OrphanSparesBound`, `KeepsPromises` |
| `Liveness` | Managed, hybrid and Adopt with a cluster and a machine; two names, one edit, one failed call, restart or vanished resource | `BecomesReady`, `OrphanReclaimed`, `LossIsReported`, `DeletionCompletes` |
| `Bootstrap` | clusters with every policy annotation, one or two nodes, configs with and without existing network; two lives of the network; old copies of cluster and configs; one user change, one failure or restart | `TypeOK`, `NamesWholeNetwork`, `ClaimsOnlyLegacyNetworks`, `Converges`, `LegacyClusterConverges` |
| `SecurityGroupRules` | two CIDRs, two plugins, two edits, one change by a user, two failures | `TypeOK`, `NeverLockedOut`, `DroppedIsClosed`, `RulesArrive` |
| `Functions` | every call of a pure function on a bounded set of inputs | `AdoptionCorrect`, `ManagedNamesCorrect`, `ObjectNamesCorrect`, `CredentialsCorrect` |
| `LeakBeforeRecord`, `LeakStaleCache`, `ObserveToHybrid`, `UserRulesIntact`, `AdoptsOldestComplete` | see findings | one each, violated |

Bounds of the network runs. A pass handles each kind of resource once, so one id
per kind covers a life without duplicates and two ids (`MaxIds`) cover a
duplicate. One fault (`MaxMishaps`) may hit any call of any pass; recovery from
it is then observed without further faults. `MaxGen` 2 allows one edit at any
point of a pass. A second cluster incarnation adds nothing that the proof of
`OrphanSparesBound` does not cover for any number; one machine suffices because
the code only counts machines and ports. `late` allows one more machine after
the deletion began. When `EnsureCreated` would need an id beyond `MaxIds` it is
disabled; this does not happen in the liveness runs, where each kind is created
at most as often as there are ids. The two leaks need one fault or one lag, so
the passing runs also state precisely what holds in spite of them:
`RecordedNotLeaked` (nothing *recorded* is leaked when the object is read fresh)
and `DeletionCompletes` (only a subnet that was never recorded stops deletion).

Bounds of `Bootstrap`. Two kinds of resource are enough for a config that mixes
two networks, two lives for a network that replaces another, two configs for one
that is referenced and one that is only owned. `Lagging` leaves the network fresh:
a pass may be slow after reading it, which gives the same stale copies. With the
network and either of the others lagging the liveness properties hold as well;
those instances take longer than a routine run should. The three invariants are
proved for every choice of `Lagging` and every bound.

Bounds of `SecurityGroupRules`. Two CIDRs make a swap possible, two edits a swap
back, two failures a second stop while recovering from the first.

Bounds of `Functions`. Names up to one character beyond the limit of 7, with a
token of 2 and a suffix of 2, so that cuts hit letters, dashes and the suffix;
lists of up to three machines in all orders, ages and deletion states; archives
of up to two entries. The proofs are for all inputs and limits.

Deadlock is checked for `SecurityGroupRules`. Elsewhere the system legitimately
stops: the object is gone and the cluster and machine bounds are used up, or the
one call was made.

The liveness properties of the network reconciler have the form `[]<>P`. For
`DeletionCompletes`, where a deleting object is only ever released, and for
`OrphanReclaimed`, where a timeout that has ended stays so, this says the same as
leads-to, and TLC needs no tableau for it. An Adopt network is in `BecomesReady`
once its adoption has succeeded: nothing makes it succeed.

`OrphanReclaimed` and `OrphanSparesBound` do not count time: the orphan timeout may
end at any moment, or never, which is also what a timeout of 0 means (`C:447-457`).
A machine API that is not installed (`C:463`) counts as an empty list.

Fairness, used by the liveness runs only: passes keep being taken, because
controller-runtime retries a pass that returned an error and every successful pass
asks to be run again, at once (`C:71`, `C:138`), after seconds while deleting
(`C:339`, `C:356`) or after ten minutes (`C:164`, `C:246`, `C:318`, `B:105`); the
garbage collector collects; informers deliver; the machine of an object being
deleted goes away, and a server whose machine is gone goes away, without which no
deletion could be expected to end. In `Bootstrap` nothing is assumed of the network
object: an adoption may fail for ever, for instance because the driver did not make
the whole network. `LegacyClusterConverges` therefore says that a legacy cluster
gets as far as its network: unless someone interferes, the request is made, and
either configs and annotations come to name the adopted network or that network
is never Ready again. Faults are bounded, so they stop.

## 4. Findings

Each is a run that TLC ends with a counterexample.

1. `LeakBeforeRecord`: a resource is created, recording it fails, the object is
   deleted. `reconcileDelete` finds nothing marked managed (`C:328`) and releases
   the finalizer. The README promises that Managed deletes what it created.
2. `LeakStaleCache`: no failure at all. The object is deleted while a pass is
   creating resources; the next pass reads a cached copy that is deleting but
   has no ids yet, and releases the finalizer by a patch without version check.
3. `ObserveToHybrid`: an Observe network edited to a managed security group
   changes the user's group and marks it controller-managed (`C:267`, `C:301`).
4. `UserRulesIntact`: a user's SSH rule with a CIDR that was also in the spec is
   taken for the controller's and deleted when the CIDR leaves the spec
   (`tcloud.go:185-194`). The README says that user-created rules are left intact.
5. `AdoptsOldestComplete`: the search for a network to adopt passes over machines
   without a state Secret only. An older machine whose Secret is broken or incomplete
   ends it with an error (`adoption.go:79-82`), also when a younger one is complete.
   The README says that the oldest machine with complete state is read.
   `AdoptionCorrect` is the part of this that holds: what is claimed is never any
   other machine's network.

Two consequences are known and visible in the conditions of other properties. An
unrecorded subnet (finding 1) keeps its recorded VPC from being deleted, and
deletion is then retried for ever (`Stranded` in `DeletionCompletes`). A pass under
way when the object is deleted publishes Ready for the deleting generation, and
deletion then clears the ids; the bootstrap reconciler's check of the ids
(`completeNetworkStatus`) is what keeps `NamesWholeNetwork` true. Also, a network
that lost a resource is never repaired (`BecomesReady` excludes it), and an adopted
one that lost its VPC or subnet stays Ready (`LossIsReported` is checked for
Managed and hybrid).

## 5. Proofs

### The network reconciler, for any lag

For every choice of the constants that satisfies `ConstantsOK` (any CIDRs, names,
policies, lagging copies, faults, and any natural bounds):

- `TypeCorrect`: `Spec => []TypeOK`. One lemma per group of actions, on top of
  lemmas on the helpers (a merged status is a status, an edited object is an
  object, `fail`, `setCondition` and `patchStatus` keep the types).
- `ForeignStaysUntouched`: if the policy is only edited to Abandon or between
  Managed and Adopt (`SafeEdits`), `Spec => []ForeignUntouched`. The property is
  not inductive: what protects the user's resources is not the step that deletes
  but everything that decides which id gets into a status with
  `controllerManaged`. `ForeignInv` therefore says, of *every* copy of the object
  (`net`, the cached one, the pass's own), that its policy is one reachable
  from the policy the object was created with, and that a kind this policy may
  own is never recorded with a user's id, nor a kind it may not own recorded as
  managed (`CopyOK`); of the pass, that it follows such a policy and that the
  answers it holds and the kind it works on agree with it (`PassOK`); and of the
  cloud, that the user's resources exist under their own names, which no managed
  name equals (`UserCloudOK`). The merge of two copies field by field preserves
  `CopyOK` because ids and marks are restricted separately. `ForeignInv` was
  checked with TLC first. The assumption on edits is needed: `ObserveToHybrid`
  is the counterexample without it.

- `OrphanCleanupSparesBound`: `Spec => OrphanSparesBound`. The cleanup acts on a lookup that may be
  stale, and the Delete has no precondition. `BindInv` says why that is safe for
  a bound object: any copy of the object that names the existing cluster as an
  owner was written by a pass that saw this cluster, and a cache that delivered a
  cluster keeps it while it exists (`OwnersOK`); a cluster created later has a new
  UID. So a lookup that finds nothing proves that the object is not bound, and
  nobody but the pass binds it (`pc = "orphan" => cluster \notin net.owners`).

### The network reconciler, when names are kept

The next theorems assume `Undisturbed`: the policy is edited only to Abandon, the
name is changed neither in the spec nor in the cloud, and nobody else deletes the
controller's resources. Nothing is assumed of `Lagging`: each pass may start from
a copy of the object of any age, and users, Rancher, faults and restarts may act
between any two calls. `Undisturbed` is about people, and it is needed: a pass whose
copy lacks an id finds the resource by its name, so after a rename it would make
another one and record it over the first; after the loss of a resource such
a pass makes a second one, and a restart before it is recorded leaves two.

- The basis (`NetworkPassProofs`). `CopiesInv` relates the cached copy and the pass's
  own copy to the object: their generation is not ahead, an equal generation means an
  equal spec, a copy that is deleting means that the object is; and until the cache
  knows of the deletion the object has its finalizer, so a patch of a live pass meets an
  existing object. `PassInv` says, for each `pc`, what the calls before it
  established: which kinds are recorded when, what the answer of the cloud is about,
  what a deletion pass works on, and that a copy of a live object knows no more
  ids than the object does.
- `CreatedStaysFindable` (`NetworkOwnedProofs`): `Spec => []CreatedIsFindable`.
  `UniqueInv` is the reason why old copies do no harm: besides the user's there is
  one resource of each kind, every version of the object names this one or
  none, and until the deletion is known the lookup by name finds it, in the
  same VPC, from whichever version the name is computed. A pass that has
  forgotten an id thus comes to the same id.
- `RecordedIsKept` (`NetworkOwnedProofs`): `Spec => []RecordedStaysNamed`. Merge
  patches from old copies never drop a recorded resource that exists: two
  versions that both name a kind name the same resource, and a mark is taken away only
  together with the id of a resource that is gone (`OwnedInv`).
- `PromisesKept` (`NetworkLifecycleProofs`): `Spec => KeepsPromises`. Every step maps to
  one of `LaggedSpec`. `LifeInv` adds to the above that Ready, in every version a pass of
  a live object may start from, means that everything is named, so that a
  `setCondition` that repeats an old Ready repeats something true.
- `NothingRecordedLeaks`, `DeletionInOrder` (`NetworkOwnedProofs`):
  `Spec /\ []ReleaseIsFresh => []RecordedNotLeaked` and
  `Spec /\ []DeleteIsFresh => DeletesInOrder`. Here one read has to be current: the
  ids of the copy on which the finalizer is removed, or the resource deleted. All
  passes before it may have used copies of any age. Without this both are false:
  a pass whose copy lacks the ids releases the finalizer, which is finding 2. The
  hypothesis names the place where a version check in `removeFinalizer` (`C:503`)
  would turn the finding into a theorem.
- `ReadyStaysTrue` (`NetworkReadyProofs`): `Spec /\ []RulesNotOlder => []ReadyIsTrue`.
  `ReadyInv` carries the rules of the group from the call that set them to the
  patch that says Ready, across edits that come between (`FinishRules`): the
  observed generation is that of the pass's copy, so an edit meanwhile makes Ready
  not current rather than false. `RulesNotOlder` excludes a pass that changes
  rules for a spec older than the one last published: with two edits, a CIDR taken out
  and put back, it removes the rule of a CIDR that is allowed again. That Ready
  means that everything is named needs no such condition (`PromisesKept`).
- `DeletionWaits` (`NetworkReadyProofs`): `Spec => []WaitsForMachines`, for any edits,
  mishaps and lag of the object, `Undisturbed` not assumed; only the machine list has
  to be current, which the client of `cmd/main.go` gives. `MachinesInv` adds that a
  server's subnet exists and is a subnet: the cloud does not delete one in use.

Trying to prove `PassInv` showed that `Target`, a `CASE` with guards that overlap,
left its value open where two guards hold, though TLC takes the first; it is now
a nested `IF`.

### The bootstrap reconciler

For every choice of the constants that satisfies `BootstrapConstants` (any kinds, any
finite set of configs, any copies that lag, any natural bounds; module
`BootstrapProofs`), without further hypotheses:

- `BootstrapTypeCorrect`: `Spec => []TypeOK`. That the lists of configs are lists of
  configs is not obvious: `RankOnto` shows that the first uses of the pools are
  numbered without gaps, from the pigeonhole theorem for finite sets, and
  `FirstRef` that the first pool's config comes first. For this the list of refs is
  defined by rank rather than by a fold, about which nothing can be proved here; the two
  were compared with TLC on all lists of up to five pools.
- `ConfigsNameWholeNetworks`: `Spec => []NamesWholeNetwork`. `NamesInv` says of every
  copy of the network that the ids it names are of its own life and that it is Ready
  only if that life was; and of every copy of a config that it names one network
  or none. Since the copy a patch is made against names one network, the patch
  sends all ids or none, so no mixture results, however old the copy is.
  The proof attempt corrected the property: it used to say that a shared
  config always names a network. With three edits TLC finds a config that is
  shared and names none: it is reset twice, each time between a read and the
  patch made from it, so that a first patch sends the ids without the scope and a
  second the scope without the ids. The next pass mends it (`Converges`), and
  where configs do not change between read and patch it does not happen, which the
  theorem includes.
- `ClaimsAreMeant`: `Spec => []ClaimsOnlyLegacyNetworks`. `ClaimsInv` says of every
  copy of the cluster that an announced Managed or Observe is never replaced, and
  that Adopt or a single node in it are reported by history; of every copy of a
  network that its policy agrees; of the configs that the first pool's, made for an
  existing network, stays shared; and of the pass that it creates only where it
  may. `NamesInv` is needed for copies of a network that never existed.

### The security group rules

For every choice of CIDRs, plugins and natural bounds that satisfies
`RulesConstants` (module `SecurityGroupRulesProofs`):

- `RulesTypeCorrect`: `Spec => []TypeOK`.
- `SSHStaysOpen`: `Spec => []NeverLockedOut`. `OpenInv` follows a pass: while it
  adds, each CIDR of its spec is open or still to be added; when it removes, all are
  open; and what it removes is none of them. The order of the two loops in
  `EnsureSecurityGroup` is what the proof rests on.
- `DroppedStaysClosed`: `Spec => DroppedIsClosed`. `ClosedInv` says that a rule the
  controller made for a CIDR about to be dropped is in the snapshot, under the
  identifier it still has, until it is removed: nobody but the controller makes
  such rules, and the pass adds only CIDRs it keeps.

### The pure functions

For every choice of the constants that satisfies `NamesConstants` (any alphabet, any
limits that leave room for the fallback name with a token, any suffix like
`-network`) and `CallsConstants` (any sets of inputs, module `FunctionsProofs`):

- `AdoptionClaimsOldest`: `Spec => []AdoptionCorrect`. A finite set of machines with
  different names can be sorted (`SortedExists`: the place of a machine is the
  number of machines that do not come after it, which is one-to-one and by the
  pigeonhole theorem leaves no gap), and what is sorted still has every machine
  (`SortedFacts`). So the first with a state Secret is the one the reference names, and
  no other is (`DeciderFound`, `OneDecides`); decoding returns the first
  `config.json` unless the archive breaks off before it (`DecodeFacts`).
- `ManagedNamesCarryToken`: `Spec => []ManagedNamesCorrect`. Trimming leaves a label or
  nothing, a cut label trimmed on the right is a label, and the token is added after
  the cut (`TrimFacts`, `CutLabel`, `ManagedNameForm`).
- `TokensSeparate`: different tokens never give the same managed name, whatever the
  base names. The token has no dash, so the last dash of a name is where it begins.
  This is what `NetworkReconciler` takes for granted when it identifies a resource
  by its name; tokens are the first eight characters of UIDs, and nothing is said of
  two UIDs that agree in those.
- `ObjectNamesDiffer`: `Spec => []ObjectNamesCorrect`. A valid cluster name without a
  run of dashes that fits the limit is kept character by character
  (`CollapsedKeeps`), so that the cluster's name can be read off the object's.
- `AcceptedCredentialsUsable`: `Spec => []CredentialsCorrect`, for Secrets and specs of
  any form.

Induction. The library's induction theorems take an operator as a parameter, which
the installed provers cannot instantiate. The well-foundedness of the naturals is
stated without one: `LeastNat` derives that a set of naturals has a least member,
`InductionUpTo` induction over a set that collects the numbers for which a claim
holds, and `RecursionExists` that a recursive function over prefixes exists, without
which nothing is known of one (`WithoutDashesBuilds`, `CollapsedBuilds`). The empty
string has no translation for the SMT solver; the steps that mention it are left
to Zenon, on top of lemmas in which it is a variable.

Every inductive invariant was checked with TLC on small instances before it was
proved.

Only model-checked: liveness (fairness and `ENABLED` are beyond the prover), and
`ImplementsLifecycle`, the refinement of the whole of `Lifecycle` for an object that is
read fresh (runs `ManagedFaults` and `Policies`); what is proved is the part that
the cached read of the code leaves, `KeepsPromises`.

## 6. Not modelled, and the plan

Not modelled: opening a cloud client (a call that may fail; its options are in
`Credentials`), the CIDR and address fields of the spec, event recording, metrics,
probes and flags, more than one network object at a time (objects share nothing
but the cloud, where names carry the object's token, and object names, see
`Names`), re-creation of an object under the same name in `NetworkReconciler`
(`Bootstrap` has it), and the generated deep-copy code. Which event enqueues
which object is not modelled: passes are assumed to recur.

Next: the objects of two clusters whose names are cut to the same text, which would
share one network object (`B:369`), and an edit of a Managed network to Observe
(`C:298`), once it is decided what either is meant to do.
