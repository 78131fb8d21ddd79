--------------------------- MODULE BootstrapProofs ---------------------------
(***************************************************************************)
(* Proofs about the bootstrap reconciler, for any kinds of resource, any   *)
(* finite set of configs, any copies that lag and any bounds.              *)
(***************************************************************************)
EXTENDS Bootstrap, FiniteSetTheorems, TLAPS

-----------------------------------------------------------------------------
(* The configs a cluster refers to                                         *)

(* The members of a finite set of numbers are numbered without gaps.       *)
LEMMA RankOnto ==
    ASSUME NEW S \in SUBSET Nat, IsFiniteSet(S), NEW n \in 1..Cardinality(S)
    PROVE  \E i \in S : Rank(i, S) = n
<1> DEFINE Upto(i) == {j \in S : j <= i}
           f == [i \in S |-> Rank(i, S)]
           T == 1..Cardinality(S)
<1>1. \A i \in S : Upto(i) \in SUBSET S /\ IsFiniteSet(Upto(i)) /\ {i} \in SUBSET Upto(i)
  BY FS_Subset
<1>2. Cardinality(S) \in Nat /\ \A i \in S : Cardinality(Upto(i)) \in Nat
  BY <1>1, FS_CardinalityType
<1>3. \A i \in S : Cardinality(Upto(i)) <= Cardinality(S)
  BY <1>1, FS_Subset
<1>4. \A i \in S : 1 <= Cardinality(Upto(i))
  <2> SUFFICES ASSUME NEW i \in S PROVE 1 <= Cardinality(Upto(i)) OBVIOUS
  <2>1. Cardinality({i}) = 1 BY FS_Singleton
  <2>2. Cardinality({i}) <= Cardinality(Upto(i)) BY <1>1, FS_Subset
  <2> QED BY <2>1, <2>2, <1>2
<1>5. f \in [S -> T] BY <1>2, <1>3, <1>4 DEF Rank
<1>6. \A i, j \in S : i < j => Cardinality(Upto(i)) # Cardinality(Upto(j))
  <2> SUFFICES ASSUME NEW i \in S, NEW j \in S, i < j
               PROVE  Cardinality(Upto(i)) # Cardinality(Upto(j)) OBVIOUS
  <2>0. i \in Nat /\ j \in Nat /\ \A x \in S : x \in Nat OBVIOUS
  <2>1. Upto(i) \in SUBSET Upto(j)
    <3>1. ASSUME NEW x \in Upto(i) PROVE x \in S /\ x <= j BY <2>0
    <3> QED BY <3>1
  <2>2. j \in Upto(j) /\ j \notin Upto(i) BY <2>0
  <2>3. Upto(i) # Upto(j) BY <2>2
  <2> QED BY <2>1, <2>3, <1>1, FS_Subset
<1>7. \A i, j \in S : f[i] = f[j] => i = j BY <1>6 DEF Rank
<1>8. f \in Injection(S, T) BY <1>5, <1>7 DEF Injection, IsInjective
<1>9. IsFiniteSet(T) /\ Cardinality(T) = Cardinality(S) BY <1>2, FS_Interval
<1>10. f \in Surjection(S, T) BY <1>8, <1>9, FS_Injection
<1> QED BY <1>10 DEF Surjection

(* The indices of the first uses are some of the pools' indices.           *)
LEMMA UsesFinite ==
    ASSUME NEW pools \in Seq(Pool)
    PROVE  /\ FirstUses(pools) \in SUBSET (1..Len(pools))
           /\ FirstUses(pools) \in SUBSET Nat
           /\ IsFiniteSet(FirstUses(pools))
           /\ Cardinality(FirstUses(pools)) \in Nat
           /\ \A i \in FirstUses(pools) : pools[i].config \in Configs
           /\ pools # <<>> /\ pools[1].config = "pool" => 1 \in FirstUses(pools)
<1>0. DOMAIN pools = 1..Len(pools) OBVIOUS
<1>1. FirstUses(pools) \in SUBSET (1..Len(pools)) BY <1>0 DEF FirstUses
<1>2. IsFiniteSet(1..Len(pools)) BY FS_Interval
<1>3. IsFiniteSet(FirstUses(pools)) BY <1>1, <1>2, FS_Subset
<1>4. \A i \in FirstUses(pools) : pools[i] \in Pool /\ pools[i].config # ""
  <2> TAKE i \in FirstUses(pools)
  <2>1. i \in 1..Len(pools) BY <1>1
  <2>2. pools[i] \in Pool BY <2>1
  <2> QED BY <2>2 DEF FirstUses
<1>5. \A i \in FirstUses(pools) : pools[i].config \in Configs BY <1>4 DEF Pool
<1>6. ASSUME pools # <<>>, pools[1].config = "pool" PROVE 1 \in FirstUses(pools)
  <2>1. 1 \in DOMAIN pools BY <1>6
  <2>2. 1..(1 - 1) = {} OBVIOUS
  <2> QED BY <2>1, <2>2, <1>6 DEF FirstUses
<1> QED BY <1>1, <1>3, <1>5, <1>6, FS_CardinalityType

(* A cluster refers to machine configs.                                    *)
LEMMA RefsType ==
    ASSUME NEW c \in ACluster
    PROVE  tcloudMachineConfigRefs(c) \in Seq(Configs)
<1> DEFINE uses == FirstUses(c.pools)
           at(n) == CHOOSE i \in uses : Rank(i, uses) = n
<1>1. c.pools \in Seq(Pool) BY DEF ACluster
<1>2. uses \in SUBSET (1..Len(c.pools)) /\ uses \in SUBSET Nat
      /\ IsFiniteSet(uses) /\ Cardinality(uses) \in Nat
  BY <1>1, UsesFinite
<1>3. \A i \in uses : c.pools[i].config \in Configs BY <1>1, UsesFinite
<1>4. \A n \in 1..Cardinality(uses) : at(n) \in uses
  <2> TAKE n \in 1..Cardinality(uses)
  <2>1. \E i \in uses : Rank(i, uses) = n BY <1>2, RankOnto
  <2> QED BY <2>1
<1>5. \A n \in 1..Cardinality(uses) : c.pools[at(n)].config \in Configs
  BY <1>3, <1>4
<1>6. tcloudMachineConfigRefs(c) = [n \in 1..Cardinality(uses) |-> c.pools[at(n)].config]
  BY DEF tcloudMachineConfigRefs
<1> HIDE DEF uses, at
<1>7. tcloudMachineConfigRefs(c) \in [1..Cardinality(uses) -> Configs] BY <1>5, <1>6
<1> QED BY <1>2, <1>7

(* The first pool of a cluster keeps its config.                           *)
PoolFirst(c) == c.pools # <<>> /\ c.pools[1].config = "pool"

(* The config of the first pool is the first that the cluster refers to.   *)
LEMMA FirstRef ==
    ASSUME NEW c \in ACluster, PoolFirst(c)
    PROVE  /\ tcloudMachineConfigRefs(c)[1] = "pool"
           /\ "pool" \in Range(tcloudMachineConfigRefs(c))
<1> DEFINE uses == FirstUses(c.pools)
           at == CHOOSE i \in uses : Rank(i, uses) = 1
<1>1. c.pools \in Seq(Pool) BY DEF ACluster
<1>2. uses \in SUBSET (1..Len(c.pools)) /\ uses \in SUBSET Nat
      /\ IsFiniteSet(uses) /\ Cardinality(uses) \in Nat
  BY <1>1, UsesFinite
<1>3. 1 \in uses BY <1>1, UsesFinite DEF PoolFirst
<1>4. Rank(1, uses) = 1
  <2>1. {j \in uses : j <= 1} = {1} BY <1>2, <1>3
  <2>2. Cardinality({1}) = 1 BY FS_Singleton
  <2> QED BY <2>1, <2>2 DEF Rank
<1>5. ASSUME NEW i \in uses, Rank(i, uses) = 1 PROVE i = 1
  <2> DEFINE U == {j \in uses : j <= i}
  <2>1. U \in SUBSET uses /\ IsFiniteSet(U) BY <1>2, FS_Subset
  <2>2. 1 \in U /\ i \in U BY <1>2, <1>3
  <2>3. Cardinality(U) = 1 BY <1>5 DEF Rank
  <2>4. PICK x : U = {x} BY <2>1, <2>3, FS_Singleton
  <2> QED BY <2>2, <2>4
<1>6. at \in uses /\ Rank(at, uses) = 1 BY <1>3, <1>4
<1>7. at = 1 BY <1>5, <1>6
<1>8. Cardinality(uses) # 0 BY <1>2, <1>3, FS_EmptySet
<1>9. 1 \in 1..Cardinality(uses) BY <1>2, <1>8
<1>10. tcloudMachineConfigRefs(c) =
         [n \in 1..Cardinality(uses) |-> c.pools[CHOOSE i \in uses : Rank(i, uses) = n].config]
  BY DEF tcloudMachineConfigRefs
<1>11. tcloudMachineConfigRefs(c)[1] = c.pools[at].config BY <1>9, <1>10
<1>12. 1 \in DOMAIN tcloudMachineConfigRefs(c) BY <1>9, <1>10
<1>13. tcloudMachineConfigRefs(c)[1] = "pool" BY <1>7, <1>11 DEF PoolFirst
<1> QED BY <1>12, <1>13 DEF Range

(* A finite set of configs can be listed.                                  *)
LEMMA ListType ==
    ASSUME NEW S \in SUBSET Configs
    PROVE  SetToSeq(S) \in Seq(S) /\ SetToSeq(S) \in Seq(Configs)
<1>1. IsFiniteSet(S) BY BootstrapConstants, FS_Subset
<1>2. Cardinality(S) \in Nat /\ ExistsBijection(1..Cardinality(S), S)
  BY <1>1, FS_CardinalityType
<1>3. \E f \in [1..Cardinality(S) -> S] : IsInjective(f)
  BY <1>2 DEF ExistsBijection, Bijection, Injection
<1>4. SetToSeq(S) \in [1..Cardinality(S) -> S] BY <1>3 DEF SetToSeq
<1> QED BY <1>2, <1>4

-----------------------------------------------------------------------------
(* Type correctness                                                        *)

NetTyped ==
    /\ o \in Network!NetworkObject /\ spec \in ASpec
    /\ o.phase # "absent" \/ o.ready => spec.life \in Lives
WorldTyped ==
    /\ cluster \in ACluster /\ PoolFirst(cluster)
    /\ configs \in [Configs -> Config]
SeenTyped ==
    /\ seen \in [cluster : ACluster, configs : [Configs -> Config], network : ANet]
    /\ PoolFirst(seen.cluster)
PassTyped ==
    /\ pc \in {"idle", "provider", "lookup", "create", "announce", "configs", "annotate"}
    /\ copy \in ACluster /\ found \in ANet
    /\ refs \in Seq(Configs) /\ todo \in Seq(Configs)
BoundsTyped == edits \in 0..MaxEdits /\ mishaps \in 0..MaxMishaps

(* The inductive invariant: an object that exists, or is Ready, has a life *)
(* number, and the first pool of the cluster keeps its config.             *)
Typed   == NetTyped /\ WorldTyped /\ SeenTyped /\ PassTyped /\ BoundsTyped
TypeInv == Typed /\ readied \subseteq Lives

(* The invariant says what TypeOK says.                                    *)
LEMMA TypeInvImplies ==
    ASSUME TypeInv PROVE TypeOK
BY DEF TypeInv, Typed, TypeOK, NetTyped, WorldTyped, SeenTyped, PassTyped, BoundsTyped,
       Net, ANet

(* What stands for a missing network or cluster has the type of one.       *)
LEMMA NoneType ==
    /\ Network!NewObject(FALSE) \in Network!NetworkObject
    /\ NoNet \in ANet
    /\ NoCluster \in ACluster
    /\ NoNet.o.phase = "absent" /\ ~NoNet.o.ready
<1>1. Network!NewObject(FALSE) \in Network!NetworkObject
  BY DEF Network!NewObject, Network!NetworkObject
<1>2. MaxLives \in Nat BY BootstrapConstants
<1>3. [Network!NewObject(FALSE) EXCEPT !.phase = "absent"] \in Network!NetworkObject
  BY <1>1 DEF Network!NetworkObject
<1>4. NoNet.spec \in ASpec BY <1>2 DEF NoNet, ASpec, Policies, CIDRChoices
<1>5. NoNet \in ANet BY <1>3, <1>4 DEF NoNet, ANet
<1>6. <<>> \in Seq(Pool) OBVIOUS
<1>7. NewAnnotations("") \in Annotations
  BY DEF NewAnnotations, Annotations, Policies, CIDRChoices
<1>8. NoCluster \in ACluster BY <1>6, <1>7 DEF NoCluster, ACluster
<1>9. NoNet.o.phase = "absent" /\ ~NoNet.o.ready
  BY DEF NoNet, Network!NewObject
<1> QED BY <1>1, <1>5, <1>8, <1>9

(* What a read gives has its type, however old it is.                      *)
LEMMA ViewType ==
    ASSUME NetTyped, WorldTyped, SeenTyped
    PROVE  /\ View("cluster") \in ACluster /\ PoolFirst(View("cluster"))
           /\ View("configs") \in [Configs -> Config]
           /\ View("network") \in ANet
<1>1. Net \in ANet BY DEF NetTyped, Net, ANet
<1>2. View("cluster") = IF "cluster" \in Lagging THEN seen.cluster ELSE cluster
  BY DEF View, World
<1>3. View("configs") = IF "configs" \in Lagging THEN seen.configs ELSE configs
  BY DEF View, World
<1>4. View("network") = IF "network" \in Lagging THEN seen.network ELSE Net
  BY DEF View, World
<1> QED BY <1>1, <1>2, <1>3, <1>4 DEF WorldTyped, SeenTyped

(* The end of a pass leaves nothing of it.                                 *)
LEMMA ReturnType ==
    ASSUME Return PROVE PassTyped'
<1>1. <<>> \in Seq(Configs) OBVIOUS
<1> QED BY <1>1, NoneType DEF Return, PassTyped

(* A merge patch of annotations gives annotations.                         *)
LEMMA AnnotationsType ==
    ASSUME NEW cur \in Annotations, NEW base \in Annotations, NEW new \in Annotations
    PROVE  Patched(cur, base, new) \in Annotations
<1>1. DOMAIN new = {"provider", "name", "policy", "cidrs", "sg"} BY DEF Annotations
<1>2. \A f \in DOMAIN new : Patched(cur, base, new)[f] \in {cur[f], new[f]}
  BY DEF Patched
<1>3. Patched(cur, base, new) =
        [provider |-> Patched(cur, base, new).provider, name |-> Patched(cur, base, new).name,
         policy |-> Patched(cur, base, new).policy, cidrs |-> Patched(cur, base, new).cidrs,
         sg |-> Patched(cur, base, new).sg]
  BY <1>1 DEF Patched
<1>4. /\ Patched(cur, base, new).provider \in BOOLEAN
      /\ Patched(cur, base, new).name \in BOOLEAN
      /\ Patched(cur, base, new).policy \in Policies \cup {""}
      /\ Patched(cur, base, new).cidrs \in CIDRChoices \cup {""}
      /\ Patched(cur, base, new).sg \in {"Managed", "Observe", ""}
  BY <1>1, <1>2 DEF Annotations
<1> QED BY <1>3, <1>4 DEF Annotations

(* Begin and EnsureProviderAnnotation.                                     *)
LEMMA OpenTyped ==
    ASSUME Typed, Begin \/ EnsureProviderAnnotation PROVE Typed'
<1> USE DEF Typed
<1>1. View("cluster") \in ACluster /\ PoolFirst(View("cluster")) BY ViewType
<1>2. CASE Begin
  <2>1. NetTyped' /\ WorldTyped' /\ SeenTyped' /\ BoundsTyped'
    BY <1>2 DEF Begin, netVars, NetTyped, WorldTyped, SeenTyped, BoundsTyped
  <2>2. copy' \in ACluster /\ refs' \in Seq(Configs)
    BY <1>1, <1>2, RefsType DEF Begin
  <2> QED BY <1>2, <2>1, <2>2 DEF Begin, PassTyped
<1>3. CASE EnsureProviderAnnotation
  <2>1. NetTyped' /\ SeenTyped' /\ BoundsTyped'
    BY <1>3 DEF EnsureProviderAnnotation, netVars, NetTyped, SeenTyped, BoundsTyped
  <2>2. cluster' \in ACluster /\ PoolFirst(cluster')
    BY <1>3 DEF EnsureProviderAnnotation, WorldTyped, ACluster, Annotations, PoolFirst
  <2>3. WorldTyped' BY <1>3, <2>2 DEF EnsureProviderAnnotation, WorldTyped
  <2> QED BY <1>3, <2>1, <2>2, <2>3 DEF EnsureProviderAnnotation, PassTyped
<1> QED BY <1>2, <1>3

(* NetworkMissing and NetworkFound.                                        *)
LEMMA LookupTyped ==
    ASSUME Typed, NetworkMissing \/ NetworkFound PROVE Typed'
<1> USE DEF Typed
<1>1. NetTyped' /\ WorldTyped' /\ SeenTyped' /\ BoundsTyped'
  BY DEF NetworkMissing, NetworkFound, netVars, NetTyped, WorldTyped, SeenTyped, BoundsTyped
<1>2. CASE Return BY <1>1, <1>2, ReturnType
<1>3. CASE ~Return /\ NetworkMissing BY <1>1, <1>3 DEF NetworkMissing, PassTyped
<1>4. CASE ~Return /\ NetworkFound
  <2> DEFINE view == View("configs")
             rest == {c \in Configs : view[c].owned} \ Range(refs)
  <2>1. View("network") \in ANet BY ViewType
  <2>2. rest \in SUBSET Configs OBVIOUS
  <2>3. SetToSeq(rest) \in Seq(Configs) BY <2>2, ListType
  <2>4. machineConfigNames(view) = refs \o SetToSeq(rest) BY DEF machineConfigNames
  <2> HIDE DEF rest, view
  <2>5. machineConfigNames(view) \in Seq(Configs)
    <3>1. refs \in Seq(Configs) BY DEF PassTyped
    <3>2. ASSUME NEW s \in Seq(Configs) PROVE refs \o s \in Seq(Configs) BY <3>1
    <3> QED BY <2>3, <2>4, <3>2
  <2> USE DEF view
  <2> QED BY <1>1, <1>4, <2>1, <2>5 DEF NetworkFound, PassTyped
<1> QED BY <1>2, <1>3, <1>4

(* A new life of the object.                                               *)
LEMMA NewLifeTyped ==
    ASSUME NetTyped, NEW p \in Policies, NewLife(p) PROVE NetTyped'
<1>1. MaxLives \in Nat BY BootstrapConstants
<1>2. spec.life \in 0..MaxLives BY DEF NetTyped, ASpec
<1>3. spec.life + 1 \in Lives BY <1>1, <1>2 DEF NewLife, Lives
<1>4. spec' \in ASpec BY <1>1, <1>3 DEF NewLife, ASpec, CIDRChoices, Lives
<1>5. o' \in Network!NetworkObject BY NoneType DEF NewLife
<1> QED BY <1>3, <1>4, <1>5 DEF NetTyped, NewLife

(* CreateAdoption.                                                         *)
LEMMA CreateTyped ==
    ASSUME Typed, CreateAdoption PROVE Typed'
<1> USE DEF Typed
<1>1. WorldTyped' /\ SeenTyped' /\ BoundsTyped'
  BY DEF CreateAdoption, WorldTyped, SeenTyped, BoundsTyped
<1>2. CASE Return /\ UNCHANGED netVars
  <2>1. NetTyped' BY <1>2 DEF netVars, NetTyped
  <2> QED BY <1>1, <1>2, <2>1, ReturnType
<1>3. CASE ~(Return /\ UNCHANGED netVars)
  <2>1. NewLife("Adopt") BY <1>3 DEF CreateAdoption
  <2>2. NetTyped' BY <2>1, NewLifeTyped DEF Policies
  <2>3. found' \in ANet BY <1>3, <2>2 DEF CreateAdoption, NetTyped, ANet
  <2> QED BY <1>1, <1>3, <2>2, <2>3 DEF CreateAdoption, PassTyped
<1> QED BY <1>2, <1>3

(* What a patched config names is what the network names, or what the      *)
(* config named; its scope likewise.                                       *)
LEMMA PatchedConfig ==
    ASSUME NEW cur \in Config, NEW view \in Config, NEW n \in ANet
    PROVE  /\ \A k \in Kinds :
                 Patched(cur.ids, view.ids, PointedAt(view, n).ids)[k] =
                     IF n.o.ids[k] = view.ids[k] THEN cur.ids[k] ELSE n.o.ids[k]
           /\ Patched(cur.ids, view.ids, PointedAt(view, n).ids) \in
                 [Kinds -> Lives \cup {NoId, UserNet}]
           /\ Patched(cur, view, PointedAt(view, n)).scope =
                 IF view.scope = "shared" THEN cur.scope ELSE "shared"
<1> DEFINE want == PointedAt(view, n)
<1>1. want.ids = n.o.ids /\ want.scope = "shared" /\ "scope" \in DOMAIN want
  BY DEF PointedAt
<1>2. n.o.ids \in [Kinds -> Lives \cup {NoId}] BY DEF ANet, Network!NetworkObject, NoId
<1>3. cur.ids \in [Kinds -> Lives \cup {NoId, UserNet}] BY DEF Config
<1>4. Patched(cur.ids, view.ids, n.o.ids) =
        [k \in Kinds |-> IF n.o.ids[k] = view.ids[k] THEN cur.ids[k] ELSE n.o.ids[k]]
  BY <1>2 DEF Patched
<1>5. Patched(cur, view, want).scope = IF view.scope = "shared" THEN cur.scope ELSE "shared"
  BY <1>1 DEF Patched
<1> HIDE DEF want
<1> QED BY <1>1, <1>2, <1>3, <1>4, <1>5 DEF want

(* PatchMachineConfig.                                                     *)
LEMMA ConfigTyped ==
    ASSUME Typed, PatchMachineConfig PROVE Typed'
<1> USE DEF Typed
<1>1. NetTyped' /\ SeenTyped' /\ BoundsTyped'
  BY DEF PatchMachineConfig, netVars, NetTyped, SeenTyped, BoundsTyped
<1>2. CASE Return /\ UNCHANGED configs
  <2>1. WorldTyped' BY <1>2 DEF PatchMachineConfig, WorldTyped
  <2> QED BY <1>1, <1>2, <2>1, ReturnType
<1>3. CASE ~(Return /\ UNCHANGED configs)
  <2> DEFINE c == Head(todo)
             view == View("configs")[c]
             want == PointedAt(view, found)
             cur == configs[c]
             new == [scope |-> Patched(cur, view, want).scope, owned |-> cur.owned,
                     ids |-> Patched(cur.ids, view.ids, want.ids)]
  <2>1. c \in Configs /\ Tail(todo) \in Seq(Configs) BY DEF PatchMachineConfig, PassTyped
  <2>2. view \in Config /\ cur \in Config BY <2>1, ViewType DEF WorldTyped
  <2>3. new \in Config BY <2>2, PatchedConfig DEF PassTyped, Config
  <2>4. configs' = [configs EXCEPT ![c] = new] BY <1>3 DEF PatchMachineConfig
  <2> HIDE DEF new, c
  <2>5. configs' \in [Configs -> Config] BY <2>3, <2>4 DEF WorldTyped
  <2>6. WorldTyped' BY <2>5 DEF PatchMachineConfig, WorldTyped
  <2>7. PassTyped' BY <1>3, <2>1 DEF PatchMachineConfig, PassTyped
  <2> QED BY <1>1, <2>6, <2>7
<1> QED BY <1>2, <1>3

(* PatchClusterNetworkAnnotations.                                         *)
LEMMA AnnotateTyped ==
    ASSUME Typed, PatchClusterNetworkAnnotations PROVE Typed'
<1> USE DEF Typed
<1>1. NetTyped' /\ SeenTyped' /\ BoundsTyped'
  BY DEF PatchClusterNetworkAnnotations, netVars, NetTyped, SeenTyped, BoundsTyped
<1>2. PassTyped' BY ReturnType DEF PatchClusterNetworkAnnotations
<1>3. DesiredAnnotations(found) \in Annotations
  BY DEF PassTyped, ANet, ASpec, DesiredAnnotations, Annotations, networkSecurityGroupPolicy
<1>4. cluster.ann \in Annotations /\ View("cluster").ann \in Annotations
  BY ViewType DEF WorldTyped, ACluster
<1> DEFINE ann == Patched(cluster.ann, View("cluster").ann, DesiredAnnotations(found))
<1>5. ann \in Annotations BY <1>3, <1>4, AnnotationsType
<1>6. cluster' = [cluster EXCEPT !.ann = ann] BY DEF PatchClusterNetworkAnnotations
<1> HIDE DEF ann
<1>7. cluster' \in ACluster /\ PoolFirst(cluster')
  BY <1>5, <1>6 DEF WorldTyped, ACluster, PoolFirst
<1>8. WorldTyped' BY <1>7 DEF PatchClusterNetworkAnnotations, WorldTyped
<1> QED BY <1>1, <1>2, <1>8

(* What others see of a fresh start is the world.                          *)
LEMMA SeenType ==
    ASSUME NetTyped, WorldTyped, SeenTyped, NEW L,
           seen' = [i \in Copies |-> IF i \in L THEN World[i] ELSE seen[i]]
    PROVE  /\ SeenTyped'
           /\ seen'.cluster \in {cluster, seen.cluster}
           /\ seen'.configs \in {configs, seen.configs}
           /\ seen'.network \in {Net, seen.network}
<1>1. Net \in ANet BY DEF NetTyped, Net, ANet
<1>2. /\ World.cluster = cluster /\ World.configs = configs /\ World.network = Net
  BY DEF World
<1>3. /\ seen'.cluster = IF "cluster" \in L THEN cluster ELSE seen.cluster
      /\ seen'.configs = IF "configs" \in L THEN configs ELSE seen.configs
      /\ seen'.network = IF "network" \in L THEN Net ELSE seen.network
  BY <1>2 DEF Copies
<1>4. seen' = [cluster |-> seen'.cluster, configs |-> seen'.configs,
               network |-> seen'.network]
  BY DEF Copies
<1>5. /\ seen'.cluster \in ACluster /\ seen'.configs \in [Configs -> Config]
      /\ seen'.network \in ANet /\ PoolFirst(seen'.cluster)
  BY <1>1, <1>3 DEF WorldTyped, SeenTyped
<1> QED BY <1>3, <1>4, <1>5 DEF SeenTyped

(* CallFails and Restart.                                                  *)
LEMMA FaultTyped ==
    ASSUME Typed, CallFails \/ Restart PROVE Typed'
<1> USE DEF Typed
<1>1. PassTyped' BY ReturnType DEF CallFails, Restart
<1>2. NetTyped' /\ WorldTyped'
  BY DEF CallFails, Restart, netVars, NetTyped, WorldTyped
<1>3. BoundsTyped' BY BootstrapConstants DEF CallFails, Restart, BoundsTyped
<1>4. SeenTyped'
  <2>1. CASE CallFails BY <2>1 DEF CallFails, SeenTyped
  <2>2. CASE Restart BY <2>2, SeenType DEF Restart
  <2> QED BY <2>1, <2>2
<1> QED BY <1>1, <1>2, <1>3, <1>4

(* The steps of the network object leave the rest alone.                   *)
LEMMA MovesFrame ==
    ASSUME NetworkMoves
    PROVE  /\ UNCHANGED <<cluster, configs, seen, passVars, mishaps>>
           /\ edits' = edits \/ (edits > 0 /\ edits' = edits - 1)
BY DEF NetworkMoves, NetworkLearns, NetworkReadied, NetworkDegrades, NetworkEdited,
       NetworkDeleted, NetworkForgets, NetworkReleased, UserCreatesNetwork, NetworkStep

(* The names a network learns are of its life.                             *)
LEMMA NamedByType ==
    ASSUME NetTyped, o.phase = "live", NEW S
    PROVE  NamedBy(S) \in [Kinds -> Lives \cup {NoId}]
BY DEF NetTyped, NamedBy, Network!NetworkObject, NoId

(* One step of the network object.                                         *)
LEMMA MovesNetTyped ==
    ASSUME NetTyped, NetworkMoves PROVE NetTyped'
<1> USE DEF NetTyped, NetworkStep
<1>1. CASE NetworkLearns
  <2>1. PICK k \in Kinds \ Network!Known(o) :
          /\ o.phase = "live" /\ UNCHANGED spec
          /\ Network!Learn(NamedBy({k}), o.mine \cup {k})
    BY <1>1 DEF NetworkLearns
  <2>2. NamedBy({k}) \in [Kinds -> Lives \cup {NoId}] BY <2>1, NamedByType
  <2>3. o' = [o EXCEPT !.ids = NamedBy({k}), !.mine = o.mine \cup {k}]
    BY <2>1 DEF Network!Learn
  <2>4. o' \in Network!NetworkObject /\ o'.phase = o.phase
    BY <2>2, <2>3 DEF Network!NetworkObject, NoId
  <2> QED BY <2>1, <2>4
<1>2. CASE NetworkReadied
  BY <1>2 DEF NetworkReadied, Network!Publish, Network!NetworkObject
<1>3. CASE NetworkDegrades
  BY <1>3 DEF NetworkDegrades, Network!Degrade, Network!NetworkObject
<1>4. CASE NetworkEdited
  <2>0. o.gen + 1 \in Nat BY DEF Network!NetworkObject
  <2>1. o' \in Network!NetworkObject /\ o'.phase = o.phase /\ o'.ready = o.ready
    <3>1. o' = [o EXCEPT !.gen = o.gen + 1, !.abandoned = FALSE]
      BY <1>4 DEF NetworkEdited, Network!Edit
    <3> QED BY <2>0, <3>1 DEF Network!NetworkObject
  <2>2. spec' \in ASpec /\ spec'.life = spec.life BY <1>4 DEF NetworkEdited, ASpec
  <2> QED BY <2>1, <2>2
<1>5. CASE NetworkDeleted
  <2>1. o.gen + 1 \in Nat BY DEF Network!NetworkObject
  <2>2. UNCHANGED spec /\ o.phase = "live" BY <1>5 DEF NetworkDeleted, Network!Delete
  <2>3. \/ o' = [o EXCEPT !.phase = "deleting", !.gen = o.gen + 1]
        \/ o' = [o EXCEPT !.phase = "absent"]
    BY <1>5 DEF NetworkDeleted, Network!Delete
  <2>4. o' \in Network!NetworkObject BY <2>1, <2>3 DEF Network!NetworkObject
  <2> QED BY <2>2, <2>4
<1>6. CASE NetworkForgets
  <2>1. PICK k \in Kinds : Network!Forget(k) /\ UNCHANGED spec BY <1>6 DEF NetworkForgets
  <2> QED BY <2>1 DEF Network!Forget, Network!NetworkObject, NoId
<1>7. CASE NetworkReleased
  BY <1>7 DEF NetworkReleased, Network!Release, Network!NetworkObject
<1>8. CASE UserCreatesNetwork
  <2>1. PICK p \in {"Managed", "Observe"} : NewLife(p) BY <1>8 DEF UserCreatesNetwork
  <2> QED BY <2>1, NewLifeTyped DEF Policies
<1> QED BY <1>1, <1>2, <1>3, <1>4, <1>5, <1>6, <1>7, <1>8 DEF NetworkMoves

(* The steps of the network object.                                        *)
LEMMA MovesTyped ==
    ASSUME Typed, NetworkMoves PROVE Typed'
<1> USE DEF Typed
<1>1. WorldTyped' /\ SeenTyped' /\ PassTyped'
  BY MovesFrame DEF WorldTyped, SeenTyped, PassTyped, passVars
<1>2. BoundsTyped' BY MovesFrame, BootstrapConstants DEF BoundsTyped
<1> QED BY <1>1, <1>2, MovesNetTyped

(* Users and Rancher change cluster and configs only.                      *)
UserSteps == Scale \/ AddConfig \/ AddPool \/ RemoveConfig \/ ResetConfig \/ DeleteCluster

(* What a step of a user leaves alone.                                     *)
LEMMA UserFrame ==
    ASSUME UserSteps
    PROVE  /\ UNCHANGED <<netVars, seen, passVars, mishaps>>
           /\ edits > 0 /\ edits' = edits - 1
BY DEF UserSteps, Scale, AddConfig, AddPool, RemoveConfig, ResetConfig, DeleteCluster,
       UserStep

(* A pool that is added comes last.                                        *)
LEMMA PoolAdded ==
    ASSUME NEW s \in Seq(Pool), s # <<>>, NEW x \in Pool
    PROVE  Append(s, x) \in Seq(Pool) /\ Append(s, x) # <<>> /\ Append(s, x)[1] = s[1]
<1>1. Len(s) \in Nat /\ Len(s) # 0 OBVIOUS
<1>2. /\ Append(s, x) \in Seq(Pool) /\ Len(Append(s, x)) = Len(s) + 1
      /\ Append(s, x)[1] = s[1]
  BY <1>1
<1> QED BY <1>1, <1>2

(* A pool of any config, or of another driver, is a pool.                  *)
LEMMA PoolType ==
    \A c \in Configs \cup {""} : [config |-> c, quantity |-> 1] \in Pool
<1>1. 1 \in 1..2 OBVIOUS
<1> QED BY <1>1, Zenon DEF Pool

(* How a step of a user changes the cluster: never its annotations.        *)
LEMMA UserCluster ==
    ASSUME WorldTyped, UserSteps
    PROVE  cluster' \in ACluster /\ PoolFirst(cluster') /\ cluster'.ann = cluster.ann
<1> USE DEF UserStep, WorldTyped
<1>0. cluster.pools \in Seq(Pool) /\ cluster.pools # <<>> /\ cluster.pools[1].config = "pool"
  BY DEF ACluster, PoolFirst
<1>1. CASE Scale
  <2> DEFINE p == [cluster.pools[1] EXCEPT !.quantity = 3 - @]
  <2>1. cluster' = [cluster EXCEPT !.pools = [cluster.pools EXCEPT ![1] = p]]
    BY <1>0, <1>1 DEF Scale, ACluster
  <2>2. 1 \in 1..Len(cluster.pools) /\ cluster.pools[1] \in Pool BY <1>0
  <2>3. p \in Pool /\ p.config = "pool"
    <3>1. cluster.pools[1].quantity \in 1..2 BY <2>2 DEF Pool
    <3>2. 3 - cluster.pools[1].quantity \in 1..2 BY <3>1
    <3>3. p = [cluster.pools[1] EXCEPT !.quantity = 3 - cluster.pools[1].quantity] OBVIOUS
    <3> HIDE DEF p
    <3> QED BY <1>0, <2>2, <3>2, <3>3 DEF Pool
  <2> HIDE DEF p
  <2>4. [cluster.pools EXCEPT ![1] = p] \in Seq(Pool) BY <1>0, <2>2, <2>3
  <2>5. [cluster.pools EXCEPT ![1] = p] # <<>> /\ [cluster.pools EXCEPT ![1] = p][1] = p
    BY <1>0, <2>2
  <2> DEFINE q == [cluster.pools EXCEPT ![1] = p]
  <2> HIDE DEF q
  <2>6. cluster' = [cluster EXCEPT !.pools = q] /\ q \in Seq(Pool) /\ q # <<>>
        /\ q[1].config = "pool"
    BY <2>1, <2>3, <2>4, <2>5 DEF q
  <2> QED BY <2>6 DEF ACluster, PoolFirst
<1>2. CASE AddPool
  <2>1. PICK c \in Configs \cup {""} :
          cluster' = [cluster EXCEPT !.pools = Append(@, [config |-> c, quantity |-> 1])]
    BY <1>2 DEF AddPool
  <2>2. [config |-> c, quantity |-> 1] \in Pool BY PoolType
  <2> DEFINE q == Append(cluster.pools, [config |-> c, quantity |-> 1])
  <2> HIDE DEF q
  <2>3. q \in Seq(Pool) /\ q # <<>> /\ q[1] = cluster.pools[1] BY <1>0, <2>2, PoolAdded DEF q
  <2>4. cluster' = [cluster EXCEPT !.pools = q] BY <2>1 DEF ACluster, q
  <2> QED BY <1>0, <2>3, <2>4 DEF ACluster, PoolFirst
<1>3. CASE DeleteCluster BY <1>3 DEF DeleteCluster, ACluster, PoolFirst
<1>4. CASE AddConfig \/ RemoveConfig \/ ResetConfig
  BY <1>4 DEF AddConfig, RemoveConfig, ResetConfig
<1> QED BY <1>1, <1>2, <1>3, <1>4 DEF UserSteps

(* How a step of a user changes a config: it comes, goes or is reset.      *)
LEMMA UserConfigs ==
    ASSUME WorldTyped, UserSteps, NEW c \in Configs
    PROVE  /\ configs' \in [Configs -> Config]
           /\ \/ configs'[c] = configs[c]
              \/ /\ configs'[c].scope # "shared"
                 /\ \A k \in Kinds : configs'[c].ids[k] = NoId
                 /\ \/ configs[c].scope = "none"
                    \/ c \notin Range(tcloudMachineConfigRefs(cluster))
                    \/ born.config.scope = "machine"
<1> USE DEF UserStep, WorldTyped
<1>1. /\ NoConfig \in Config /\ NoConfig.scope # "shared"
      /\ \A k \in Kinds : NoConfig.ids[k] = NoId
  BY DEF NoConfig, Config
<1>2. \A w \in BOOLEAN :
         /\ MachineScoped(w) \in Config /\ MachineScoped(w).scope # "shared"
         /\ \A k \in Kinds : MachineScoped(w).ids[k] = NoId
  BY DEF MachineScoped, Config
<1>3. CASE Scale \/ AddPool \/ DeleteCluster BY <1>3 DEF Scale, AddPool, DeleteCluster
<1>4. CASE AddConfig
  <2>1. PICK d \in Configs, w \in BOOLEAN :
          configs[d].scope = "none" /\ configs' = [configs EXCEPT ![d] = MachineScoped(w)]
    BY <1>4 DEF AddConfig
  <2> QED BY <1>2, <2>1
<1>5. CASE RemoveConfig
  <2>1. PICK d \in Configs \ Range(tcloudMachineConfigRefs(cluster)) :
          configs' = [configs EXCEPT ![d] = NoConfig]
    BY <1>5 DEF RemoveConfig
  <2> QED BY <1>1, <2>1
<1>6. CASE ResetConfig
  <2>1. PICK d \in Configs :
          /\ born.config.scope = "machine"
          /\ configs' = [configs EXCEPT ![d] = MachineScoped(configs[d].owned)]
    BY <1>6 DEF ResetConfig
  <2>2. configs[d].owned \in BOOLEAN BY DEF Config
  <2> QED BY <1>2, <2>1, <2>2
<1> QED BY <1>3, <1>4, <1>5, <1>6 DEF UserSteps

(* The steps of users.                                                     *)
LEMMA UsersTyped ==
    ASSUME Typed, UserSteps PROVE Typed'
<1> USE DEF Typed
<1>1. NetTyped' /\ SeenTyped' /\ PassTyped'
  BY UserFrame DEF NetTyped, SeenTyped, PassTyped, netVars, passVars
<1>2. BoundsTyped' BY UserFrame, BootstrapConstants DEF BoundsTyped
<1>3. configs' \in [Configs -> Config] BY UserConfigs, BootstrapConstants
<1>4. WorldTyped' BY <1>3, UserCluster DEF WorldTyped
<1> QED BY <1>1, <1>2, <1>4

(* A copy that catches up.                                                 *)
LEMMA SyncSeen ==
    ASSUME NetTyped, WorldTyped, SeenTyped, NEW i \in Lagging, Sync(i)
    PROVE  /\ SeenTyped'
           /\ seen'.cluster \in {cluster, seen.cluster}
           /\ seen'.configs \in {configs, seen.configs}
           /\ seen'.network \in {Net, seen.network}
           /\ UNCHANGED <<netVars, cluster, configs, passVars, edits, mishaps>>
<1>1. UNCHANGED <<netVars, cluster, configs, passVars, edits, mishaps>> BY DEF Sync
<1>2. seen' = [seen EXCEPT ![i] = World[i]] BY DEF Sync
<1>3. DOMAIN seen = Copies BY DEF SeenTyped, Copies
<1>4. seen' = [j \in Copies |-> IF j \in {i} THEN World[j] ELSE seen[j]]
  <2>1. seen = [j \in Copies |-> seen[j]] BY <1>3 DEF SeenTyped, Copies
  <2> QED BY <1>2, <1>3, <2>1 DEF SeenTyped, Copies
<1> QED BY <1>1, <1>4, SeenType

(* A step is one of these.                                                 *)
LEMMA Cases ==
    ASSUME Next
    PROVE  /\ History
           /\ \/ Begin \/ EnsureProviderAnnotation \/ NetworkMissing \/ NetworkFound
              \/ CreateAdoption \/ PatchMachineConfig \/ PatchClusterNetworkAnnotations
              \/ CallFails \/ Restart \/ NetworkMoves \/ UserSteps
              \/ \E i \in Lagging : Sync(i)
BY DEF Next, PassStep, WorldStep, UserSteps

(* What a new cluster consists of has its type.                            *)
LEMMA NewTypes ==
    /\ \A p \in Policies \cup {""} : NewAnnotations(p) \in Annotations
    /\ \A n \in 1..2 : <<[config |-> "pool", quantity |-> n]>> \in Seq(Pool)
    /\ {MachineScoped(FALSE), ExistingNetwork} \subseteq Config
    /\ {NoConfig, MachineScoped(TRUE)} \subseteq Config
<1>1. \A p : p \in Policies \/ p = "" => NewAnnotations(p) \in Annotations
  BY DEF NewAnnotations, Annotations, CIDRChoices
<1>2. ASSUME NEW n \in 1..2 PROVE <<[config |-> "pool", quantity |-> n]>> \in Seq(Pool)
  <2>1. [config |-> "pool", quantity |-> n] \in Pool BY BootstrapConstants DEF Pool
  <2> QED BY <2>1
<1>3. {MachineScoped(FALSE), ExistingNetwork, NoConfig, MachineScoped(TRUE)} \subseteq Config
  BY DEF Config, MachineScoped, ExistingNetwork, NoConfig
<1> QED BY <1>1, <1>2, <1>3

(* A new cluster and its configs have their types.                         *)
LEMMA WorldInit ==
    ASSUME Init PROVE WorldTyped
<1>1. PICK ann \in Annotations, n \in 1..2 :
        cluster = [phase |-> "live", ann |-> ann,
                   pools |-> <<[config |-> "pool", quantity |-> n]>>]
  BY NewTypes, Zenon DEF Init
<1>2. <<[config |-> "pool", quantity |-> n]>> \in Seq(Pool)
  BY <1>1, NewTypes
<1>3. cluster \in ACluster /\ PoolFirst(cluster)
  BY <1>1, <1>2 DEF ACluster, PoolFirst
<1>4. PICK c \in Config, d \in Config :
        configs = [x \in Configs |-> IF x = "pool" THEN c ELSE d]
  BY NewTypes DEF Init
<1> QED BY <1>3, <1>4 DEF WorldTyped

(* A state in which the cluster is new has its type.                       *)
LEMMA TypeInit ==
    ASSUME Init PROVE TypeInv
<1>1. MaxEdits \in Nat /\ MaxMishaps \in Nat BY BootstrapConstants
<1>2. NetTyped /\ Net \in ANet
  BY NoneType DEF Init, NetTyped, Net, NoNet, ANet
<1>3. SeenTyped BY <1>2, WorldInit DEF Init, SeenTyped, World, WorldTyped
<1>4. PassTyped
  <2>1. <<>> \in Seq(Configs) OBVIOUS
  <2> QED BY <2>1, NoneType DEF Init, PassTyped
<1>5. BoundsTyped
  <2>1. edits = MaxEdits /\ mishaps = MaxMishaps BY DEF Init
  <2> QED BY <1>1, <2>1 DEF BoundsTyped
<1>6. readied = {} BY DEF Init
<1> QED BY <1>2, <1>3, <1>4, <1>5, <1>6, WorldInit DEF TypeInv, Typed

(* Every step keeps the types.                                             *)
LEMMA TypeNext ==
    ASSUME TypeInv, [Next]_vars PROVE TypeInv'
<1> USE DEF TypeInv
<1>1. CASE UNCHANGED vars
  BY <1>1 DEF vars, Typed, NetTyped, WorldTyped, SeenTyped, PassTyped, BoundsTyped
<1>2. CASE Next
  <2>1. Typed'
    <3>1. CASE \E i \in Lagging : Sync(i)
      <4>1. PICK i \in Lagging : Sync(i) BY <3>1
      <4>2. SeenTyped' /\ UNCHANGED <<netVars, cluster, configs, passVars, edits, mishaps>>
        BY <4>1, SyncSeen DEF Typed
      <4> QED
        BY <4>2 DEF Typed, NetTyped, WorldTyped, PassTyped, BoundsTyped, netVars, passVars
    <3> QED
      BY <1>2, <3>1, Cases, OpenTyped, LookupTyped, CreateTyped, ConfigTyped, AnnotateTyped,
         FaultTyped, MovesTyped, UsersTyped
  <2>2. IsReady(Net)' => spec'.life \in Lives
    BY <2>1 DEF Typed, NetTyped, IsReady, Net
  <2>3. readied' \subseteq Lives BY <1>2, <2>2, Cases DEF History
  <2> QED BY <2>1, <2>3
<1> QED BY <1>1, <1>2

(* Every variable of the bootstrap reconciler keeps its type: the pass's   *)
(* copies are clusters and networks, and the names it still has to patch   *)
(* are names of configs, for any pools (tcloudMachineConfigRefs and        *)
(* machineConfigNames) and any copies that lag.                            *)
THEOREM BootstrapTypeCorrect == Spec => []TypeOK
<1>1. Init => TypeInv BY TypeInit
<1>2. TypeInv /\ [Next]_vars => TypeInv' BY TypeNext
<1>3. TypeInv => TypeOK BY TypeInvImplies
<1> QED BY <1>1, <1>2, <1>3, PTL DEF Spec

-----------------------------------------------------------------------------
(* What the machine configs name                                           *)

(* The ids a copy of the network names are of its life, and a copy that is *)
(* Ready is of a life in R, the lives that were Ready.                     *)
NetNames(n, R) ==
    /\ \A k \in Kinds : n.o.ids[k] \in {NoId, n.spec.life}
    /\ IsReady(n) => n.spec.life \in R
Names(c, i)      == \A k \in Kinds : c.ids[k] = i
NamesOne(c, R)   == \E i \in R \cup {UserNet, NoId} : Names(c, i)
NamesReady(c, R) == \E i \in R \cup {UserNet} : Names(c, i)

(* The inductive invariant.  A patch sends an id if it differs from the    *)
(* copy that was read.  The copy names one network, so all ids are sent or *)
(* none, and the config names one network whatever it named meanwhile.     *)
PatchInv == pc = "configs" =>
    NetNames(found, readied) /\ IsReady(found) /\ completeNetworkStatus(found)
ConfigsInv ==
    \A c \in Configs :
        /\ NamesOne(configs[c], readied) /\ NamesOne(seen.configs[c], readied)
        /\ configs[c].scope = "shared" /\ "configs" \notin Lagging
              => NamesReady(configs[c], readied)
NamesInv ==
    NetNames(Net, readied) /\ NetNames(seen.network, readied) /\ PatchInv /\ ConfigsInv

(* The invariant implies NamesWholeNetwork; a life is not NoId.            *)
LEMMA NamesInvImplies ==
    ASSUME TypeInv, NamesInv PROVE NamesWholeNetwork
<1>1. MaxLives \in Nat BY BootstrapConstants
<1>2. NoId \notin readied \cup {UserNet} BY <1>1 DEF TypeInv, Lives, NoId, UserNet
<1> SUFFICES ASSUME NEW c \in Configs
             PROVE  \E i \in readied \cup {UserNet, NoId} :
                       /\ \A k \in Kinds : configs[c].ids[k] = i
                       /\ configs[c].scope = "shared" /\ "configs" \notin Lagging => i # NoId
  BY DEF NamesWholeNetwork
<1>3. CASE configs[c].scope = "shared" /\ "configs" \notin Lagging
  <2>1. PICK i \in readied \cup {UserNet} : Names(configs[c], i)
    BY <1>3 DEF NamesInv, ConfigsInv, NamesReady
  <2> QED BY <1>2, <2>1 DEF Names
<1>4. CASE ~(configs[c].scope = "shared" /\ "configs" \notin Lagging)
  <2>1. PICK i \in readied \cup {UserNet, NoId} : Names(configs[c], i)
    BY DEF NamesInv, ConfigsInv, NamesOne
  <2> QED BY <1>4, <2>1 DEF Names
<1> QED BY <1>3, <1>4

(* A life that was Ready once was Ready.                                   *)
LEMMA NamesGrow ==
    ASSUME NEW R, NEW Q, R \subseteq Q
    PROVE  /\ \A n : NetNames(n, R) => NetNames(n, Q)
           /\ \A c : NamesOne(c, R) => NamesOne(c, Q)
           /\ \A c : NamesReady(c, R) => NamesReady(c, Q)
BY DEF NetNames, NamesOne, NamesReady

(* The invariant when nothing changes but the lives that were Ready.       *)
LEMMA ConfigsKept ==
    ASSUME ConfigsInv, readied \subseteq readied', UNCHANGED configs,
           seen'.configs \in {configs, seen.configs}
    PROVE  ConfigsInv'
<1> SUFFICES ASSUME NEW c \in Configs
             PROVE  /\ NamesOne(configs[c], readied') /\ NamesOne(seen'.configs[c], readied')
                    /\ configs[c].scope = "shared" /\ "configs" \notin Lagging
                          => NamesReady(configs[c], readied')
  BY DEF ConfigsInv
<1>1. /\ NamesOne(configs[c], readied) /\ NamesOne(seen.configs[c], readied)
      /\ configs[c].scope = "shared" /\ "configs" \notin Lagging
            => NamesReady(configs[c], readied)
  BY DEF ConfigsInv
<1>2. NamesOne(seen'.configs[c], readied) BY <1>1
<1> QED BY <1>1, <1>2, NamesGrow

(* What a read of the network gives.                                       *)
LEMMA ViewNames ==
    ASSUME NamesInv PROVE NetNames(View("network"), readied)
<1>1. View("network") = IF "network" \in Lagging THEN seen.network ELSE Net
  BY DEF View, World
<1> QED BY <1>1 DEF NamesInv

(* A step of the network object names resources of its life only.          *)
LEMMA MoveIds ==
    ASSUME TypeInv, \A k \in Kinds : o.ids[k] \in {NoId, spec.life},
           NetworkMoves \/ NewLife("Adopt"), NEW k \in Kinds
    PROVE  o'.ids[k] \in {NoId, spec'.life}
<1> USE DEF NetworkStep
<1>0. o \in Network!NetworkObject BY DEF TypeInv, Typed, NetTyped
<1>1. CASE NetworkLearns
  <2>1. PICK x \in Kinds \ Network!Known(o) :
          UNCHANGED spec /\ Network!Learn(NamedBy({x}), o.mine \cup {x})
    BY <1>1 DEF NetworkLearns
  <2>2. o'.ids = NamedBy({x}) BY <1>0, <2>1 DEF Network!Learn, Network!NetworkObject
  <2> QED BY <2>1, <2>2 DEF NamedBy
<1>2. CASE NetworkReadied
  BY <1>0, <1>2 DEF NetworkReadied, Network!Publish, Network!NetworkObject
<1>3. CASE NetworkDegrades
  BY <1>0, <1>3 DEF NetworkDegrades, Network!Degrade, Network!NetworkObject
<1>4. CASE NetworkEdited
  <2>1. o'.ids = o.ids
    BY <1>0, <1>4 DEF NetworkEdited, Network!Edit, Network!NetworkObject
  <2>2. spec'.life = spec.life BY <1>4 DEF NetworkEdited, TypeInv, Typed, NetTyped, ASpec
  <2> QED BY <2>1, <2>2
<1>5. CASE NetworkDeleted
  BY <1>0, <1>5 DEF NetworkDeleted, Network!Delete, Network!NetworkObject
<1>6. CASE NetworkForgets
  <2>1. PICK x \in Kinds : Network!Forget(x) /\ UNCHANGED spec BY <1>6 DEF NetworkForgets
  <2> QED BY <1>0, <2>1 DEF Network!Forget, Network!NetworkObject
<1>7. CASE NetworkReleased
  BY <1>0, <1>7 DEF NetworkReleased, Network!Release, Network!NetworkObject
<1>8. CASE UserCreatesNetwork \/ NewLife("Adopt")
  <2>1. PICK p : NewLife(p) BY <1>8 DEF UserCreatesNetwork
  <2> QED BY <2>1 DEF NewLife, Network!NewObject, NoId
<1> QED BY <1>1, <1>2, <1>3, <1>4, <1>5, <1>6, <1>7, <1>8 DEF NetworkMoves

(* The network object and the history of its lives go together.            *)
LEMMA NetNamesNext ==
    ASSUME TypeInv, NetNames(Net, readied), History,
           NetworkMoves \/ NewLife("Adopt") \/ UNCHANGED netVars
    PROVE  NetNames(Net, readied)' /\ readied \subseteq readied'
<1>1. \A k \in Kinds : o.ids[k] \in {NoId, spec.life} BY DEF NetNames, Net
<1>2. \A k \in Kinds : o'.ids[k] \in {NoId, spec'.life} BY <1>1, MoveIds DEF netVars
<1>3. IsReady(Net)' => spec'.life \in readied' BY DEF History
<1>4. readied \subseteq readied' BY DEF History
<1> QED BY <1>2, <1>3, <1>4 DEF NetNames, Net

(* PatchMachineConfig: the config named one network and now names the one  *)
(* it is pointed at, or still the one it named.                            *)
LEMMA PatchNames ==
    ASSUME TypeInv, NamesInv, PatchMachineConfig, ~UNCHANGED configs,
           NEW d \in Configs
    PROVE  /\ NamesOne(configs'[d], readied)
           /\ configs'[d].scope = "shared" /\ "configs" \notin Lagging
                 => NamesReady(configs'[d], readied)
<1> DEFINE c == Head(todo)
           view == View("configs")[c]
           want == PointedAt(view, found)
           cur == configs[c]
           new == [scope |-> Patched(cur, view, want).scope, owned |-> cur.owned,
                   ids |-> Patched(cur.ids, view.ids, want.ids)]
           life == found.spec.life
<1>1. c \in Configs BY DEF PatchMachineConfig, TypeInv, Typed, PassTyped
<1>2. view \in Config /\ cur \in Config /\ found \in ANet
  BY <1>1, ViewType DEF TypeInv, Typed, WorldTyped, PassTyped
<1>3. configs' = [configs EXCEPT ![c] = new] BY DEF PatchMachineConfig
<1>4. \A k \in Kinds : found.o.ids[k] = life /\ life \in readied
  BY DEF PatchMachineConfig, NamesInv, PatchInv, NetNames, completeNetworkStatus
<1>5. life \in readied BY DEF PatchMachineConfig, NamesInv, PatchInv, NetNames
<1>6. /\ \A k \in Kinds : new.ids[k] = IF found.o.ids[k] = view.ids[k]
                                        THEN cur.ids[k] ELSE found.o.ids[k]
      /\ new.scope = IF view.scope = "shared" THEN cur.scope ELSE "shared"
  BY <1>2, PatchedConfig
<1>7. View("configs") = IF "configs" \in Lagging THEN seen.configs ELSE configs
  BY DEF View, World
<1>8. PICK i : Names(view, i) BY <1>1, <1>7 DEF NamesInv, ConfigsInv, NamesOne
<1>9. PICK j \in readied \cup {UserNet, NoId} : Names(cur, j)
  BY <1>1 DEF NamesInv, ConfigsInv, NamesOne
<1> HIDE DEF new, view, cur, c, life
<1>10. Names(new, IF i = life THEN j ELSE life)
  BY <1>4, <1>6, <1>8, <1>9 DEF Names
<1>11. NamesOne(new, readied) BY <1>5, <1>9, <1>10 DEF NamesOne
<1>12. ASSUME "configs" \notin Lagging PROVE Names(new, life)
  <2>1. view = cur BY <1>7, <1>12 DEF view, cur
  <2> QED BY <1>4, <1>6, <2>1 DEF Names
<1>13. "configs" \notin Lagging => NamesReady(new, readied)
  BY <1>5, <1>12 DEF NamesReady
<1>14. CASE d = c
  <2>1. configs'[d] = new
    BY <1>1, <1>3, <1>14 DEF TypeInv, Typed, WorldTyped
  <2> QED BY <1>11, <1>13, <2>1
<1>15. CASE d # c
  <2>1. configs'[d] = configs[d] BY <1>3, <1>15 DEF TypeInv, Typed, WorldTyped
  <2> QED BY <2>1 DEF NamesInv, ConfigsInv
<1> QED BY <1>14, <1>15

(* Init, of the names.                                                     *)
LEMMA NamesInit ==
    ASSUME Init PROVE NamesInv
<1>1. PICK x \in {MachineScoped(FALSE), ExistingNetwork},
           y \in {NoConfig, MachineScoped(TRUE)} :
        configs = [z \in Configs |-> IF z = "pool" THEN x ELSE y]
  BY Zenon DEF Init
<1>2. readied = {} /\ seen = World /\ pc = "idle" /\ o = NoNet.o /\ spec = NoNet.spec
  BY DEF Init
<1>3. Names(y, NoId) /\ y.scope # "shared"
  BY DEF Names, NoConfig, MachineScoped
<1>4. \/ Names(x, NoId) /\ x.scope # "shared"
      \/ Names(x, UserNet)
  BY DEF Names, ExistingNetwork, MachineScoped
<1>5. ASSUME NEW c \in Configs
      PROVE  /\ NamesOne(configs[c], readied)
             /\ configs[c].scope = "shared" => NamesReady(configs[c], readied)
  <2>1. configs[c] = x \/ configs[c] = y BY <1>1
  <2>2. CASE Names(configs[c], NoId) /\ configs[c].scope # "shared"
    BY <2>2 DEF NamesOne
  <2>3. CASE Names(configs[c], UserNet) BY <2>3 DEF NamesOne, NamesReady
  <2> QED BY <1>3, <1>4, <2>1, <2>2, <2>3
<1>6. seen.configs = configs /\ seen.network = Net BY <1>2 DEF World
<1>7. ConfigsInv BY <1>5, <1>6 DEF ConfigsInv
<1>8. NetNames(Net, readied)
  BY <1>2, NoneType DEF NetNames, Net, NoNet, IsReady, Network!NewObject, NoId
<1>9. PatchInv BY <1>2 DEF PatchInv
<1> QED BY <1>6, <1>7, <1>8, <1>9 DEF NamesInv

(* A copy is of now or of before, whatever the step.                       *)
LEMMA SeenNext ==
    ASSUME Typed, Next
    PROVE  /\ seen'.cluster \in {cluster, seen.cluster}
           /\ seen'.configs \in {configs, seen.configs}
           /\ seen'.network \in {Net, seen.network}
<1>1. CASE Restart BY <1>1, SeenType DEF Restart, Typed
<1>2. CASE \E i \in Lagging : Sync(i) BY <1>2, SyncSeen DEF Typed
<1>3. CASE UNCHANGED seen BY <1>3
<1>4. Restart \/ (\E i \in Lagging : Sync(i)) \/ UNCHANGED seen
  BY Cases, UserFrame, MovesFrame
  DEF Begin, EnsureProviderAnnotation, NetworkMissing, NetworkFound, CreateAdoption,
      PatchMachineConfig, PatchClusterNetworkAnnotations, CallFails
<1> QED BY <1>1, <1>2, <1>3, <1>4

(* The object moves by itself, or the pass creates it.                     *)
LEMMA NetNext ==
    ASSUME Next
    PROVE  NetworkMoves \/ (NewLife("Adopt") /\ pc = "create") \/ UNCHANGED netVars
<1>1. CASE \E i \in Lagging : Sync(i) BY <1>1 DEF Sync
<1> QED
  BY <1>1, Cases, UserFrame
  DEF Begin, EnsureProviderAnnotation, NetworkMissing, NetworkFound, CreateAdoption,
      PatchMachineConfig, PatchClusterNetworkAnnotations, CallFails, Restart

(* Every step keeps the names whole.                                       *)
LEMMA NamesNext ==
    ASSUME TypeInv, NamesInv, [Next]_vars PROVE NamesInv'
<1>1. CASE UNCHANGED vars
  BY <1>1 DEF vars, NamesInv, NetNames, Net, PatchInv, ConfigsInv, NamesOne, NamesReady,
              Names, IsReady, completeNetworkStatus
<1>2. CASE Next
  <2>1. History BY <1>2, Cases
  <2>3. NetNames(Net, readied)' /\ readied \subseteq readied'
    BY <1>2, <2>1, NetNext, NetNamesNext DEF NamesInv
  <2>4. seen'.configs \in {configs, seen.configs} /\ seen'.network \in {Net, seen.network}
    BY <1>2, SeenNext DEF TypeInv
  <2>5. NetNames(seen.network, readied)'
    <3>1. NetNames(seen'.network, readied) BY <2>4 DEF NamesInv
    <3> QED BY <2>3, <3>1, NamesGrow
  <2>6. PatchInv'
    <3>1. CASE pc' # "configs" BY <3>1 DEF PatchInv
    <3>2. CASE NetworkFound /\ pc' = "configs"
      <4>1. /\ found' = View("network") /\ IsReady(View("network"))
            /\ completeNetworkStatus(View("network"))
        BY <3>2 DEF NetworkFound, Return
      <4>2. NetNames(found', readied) /\ IsReady(found') /\ completeNetworkStatus(found')
        BY <4>1, ViewNames
      <4>3. NetNames(found', readied') BY <2>3, <4>2, NamesGrow
      <4> QED BY <4>2, <4>3 DEF PatchInv, IsReady, completeNetworkStatus
    <3>3. CASE ~NetworkFound /\ pc' = "configs"
      <4>1. pc = "configs" /\ found' = found
        <5>1. CASE \E i \in Lagging : Sync(i) BY <3>3, <5>1 DEF Sync, passVars
        <5> QED
          BY <1>2, <3>3, <5>1, Cases, UserFrame, MovesFrame
          DEF Begin, EnsureProviderAnnotation, NetworkMissing, CreateAdoption, Return,
              PatchMachineConfig, PatchClusterNetworkAnnotations, CallFails, Restart, passVars
      <4>2. NetNames(found', readied) /\ IsReady(found') /\ completeNetworkStatus(found')
        BY <4>1 DEF NamesInv, PatchInv
      <4>3. NetNames(found', readied') BY <2>3, <4>2, NamesGrow
      <4> QED BY <4>2, <4>3 DEF PatchInv, IsReady, completeNetworkStatus
    <3> QED BY <3>1, <3>2, <3>3
  <2>7. ConfigsInv'
    <3>1. CASE UNCHANGED configs BY <2>3, <2>4, <3>1, ConfigsKept DEF NamesInv
    <3>2. CASE ~UNCHANGED configs
      <4>1. PatchMachineConfig \/ UserSteps
        <5>1. CASE \E i \in Lagging : Sync(i) BY <3>2, <5>1 DEF Sync
        <5> QED
          BY <1>2, <3>2, <5>1, Cases, MovesFrame
          DEF Begin, EnsureProviderAnnotation, NetworkMissing, NetworkFound, CreateAdoption,
              PatchClusterNetworkAnnotations, CallFails, Restart
      <4>2. ASSUME NEW c \in Configs
            PROVE  /\ NamesOne(configs'[c], readied) /\ NamesOne(seen'.configs[c], readied)
                   /\ configs'[c].scope = "shared" /\ "configs" \notin Lagging
                         => NamesReady(configs'[c], readied)
        <5>1. NamesOne(seen'.configs[c], readied) BY <2>4 DEF NamesInv, ConfigsInv
        <5>2. CASE PatchMachineConfig BY <3>2, <5>1, <5>2, PatchNames
        <5>3. CASE UserSteps
          <6>1. \/ configs'[c] = configs[c]
                \/ configs'[c].scope # "shared" /\ Names(configs'[c], NoId)
            BY <5>3, UserConfigs DEF TypeInv, Typed, Names
          <6>2. CASE configs'[c] = configs[c] BY <5>1, <6>2 DEF NamesInv, ConfigsInv
          <6>3. CASE configs'[c].scope # "shared" /\ Names(configs'[c], NoId)
            BY <5>1, <6>3 DEF NamesOne
          <6> QED BY <6>1, <6>2, <6>3
        <5> QED BY <4>1, <5>2, <5>3
      <4>3. ASSUME NEW c \in Configs
            PROVE  /\ NamesOne(configs'[c], readied') /\ NamesOne(seen'.configs[c], readied')
                   /\ configs'[c].scope = "shared" /\ "configs" \notin Lagging
                         => NamesReady(configs'[c], readied')
        BY <2>3, <4>2, NamesGrow
      <4> QED BY <4>3 DEF ConfigsInv
    <3> QED BY <3>1, <3>2
  <2> QED BY <2>3, <2>5, <2>6, <2>7 DEF NamesInv
<1> QED BY <1>1, <1>2

(* A machine config never mixes two networks and never names one that was  *)
(* not Ready and complete, for any kinds of resource, number of lives and  *)
(* configs, however old the copies are that it is patched against          *)
(* (patchMachineConfig).  Where configs are read as they are, a shared one *)
(* names a network.                                                        *)
THEOREM ConfigsNameWholeNetworks == Spec => []NamesWholeNetwork
<1>1. Init => TypeInv /\ NamesInv BY TypeInit, NamesInit
<1>2. TypeInv /\ NamesInv /\ [Next]_vars => (TypeInv /\ NamesInv)'
  BY TypeNext, NamesNext
<1>3. TypeInv /\ NamesInv => NamesWholeNetwork BY NamesInvImplies
<1> QED BY <1>1, <1>2, <1>3, PTL DEF Spec

-----------------------------------------------------------------------------
(* Whose network is claimed.  b is what the cluster was made with, s       *)
(* whether it once had a single node.                                      *)

Decided(b)     == b.policy \in {"Managed", "Observe"}
Legacy(b, s)   == s \/ b.policy = "Adopt"
MayAdopt(b, s) == ~Decided(b) /\ b.config # ExistingNetwork /\ Legacy(b, s)

(* Of every copy of the cluster: the policy announced when it was made is  *)
(* never replaced, Adopt is announced for legacy clusters only, and a      *)
(* single node does not pass unnoticed.                                    *)
ClusterClaims(c, b, s) ==
    /\ Decided(b) => c.ann.policy = b.policy
    /\ c.ann.policy = "Adopt" => Legacy(b, s)
    /\ desiredNodeCount(c) = 1 => s
(* Of every copy of a network that existed.                                *)
NetClaims(n, b, s) ==
    n.spec.life # 0 =>
        /\ Decided(b) => n.spec.policy = b.policy
        /\ n.spec.policy = "Adopt" => MayAdopt(b, s)
(* Of every copy of the configs: the first pool's, made for an existing    *)
(* network, does not become one that asks for a network.                   *)
PoolClaims(cs, b) == b.config = ExistingNetwork => cs["pool"].scope = "shared"

(* The inductive invariant.                                                *)
WorldClaims ==
    /\ ClusterClaims(cluster, born, single) /\ ClusterClaims(seen.cluster, born, single)
    /\ NetClaims(Net, born, single) /\ NetClaims(seen.network, born, single)
    /\ PoolClaims(configs, born) /\ PoolClaims(seen.configs, born)
PassClaims ==
    /\ pc # "idle" => refs[1] = "pool" /\ ClusterClaims(copy, born, single)
    /\ pc = "create" => MayAdopt(born, single)
    /\ pc \in {"announce", "configs", "annotate"} =>
         found.spec.life # 0 /\ NetClaims(found, born, single)
ClaimsInv == WorldClaims /\ PassClaims

(* The claim of a network that exists is meant.                            *)
LEMMA ClaimsInvImplies ==
    ASSUME TypeInv, ClaimsInv PROVE ClaimsOnlyLegacyNetworks
<1> SUFFICES ASSUME spec.policy = "Adopt", o.phase # "absent"
             PROVE  MayAdopt(born, single)
  BY DEF ClaimsOnlyLegacyNetworks, MayAdopt, Decided, Legacy
<1>1. MaxLives \in Nat BY BootstrapConstants
<1>2. spec.life # 0 BY <1>1 DEF TypeInv, Typed, NetTyped, Lives
<1> QED BY <1>2 DEF ClaimsInv, WorldClaims, NetClaims, Net

(* What the cluster was made with stays; a single node is remembered.      *)
LEMMA ClaimsGrow ==
    ASSUME NEW b, NEW s, NEW t, s => t
    PROVE  /\ MayAdopt(b, s) => MayAdopt(b, t)
           /\ \A c : ClusterClaims(c, b, s) => ClusterClaims(c, b, t)
           /\ \A n : NetClaims(n, b, s) => NetClaims(n, b, t)
BY DEF MayAdopt, Legacy, ClusterClaims, NetClaims

(* What the history says of a step.                                        *)
LEMMA HistoryStep ==
    ASSUME History
    PROVE  born' = born /\ (single => single') /\ (desiredNodeCount(cluster') = 1 => single')
BY DEF History

(* What the pass reads.                                                    *)
LEMMA ViewClaims ==
    ASSUME WorldClaims
    PROVE  /\ ClusterClaims(View("cluster"), born, single)
           /\ NetClaims(View("network"), born, single)
           /\ PoolClaims(View("configs"), born)
<1>1. View("cluster") = IF "cluster" \in Lagging THEN seen.cluster ELSE cluster
  BY DEF View, World
<1>2. View("configs") = IF "configs" \in Lagging THEN seen.configs ELSE configs
  BY DEF View, World
<1>3. View("network") = IF "network" \in Lagging THEN seen.network ELSE Net
  BY DEF View, World
<1> QED BY <1>1, <1>2, <1>3 DEF WorldClaims

(* A network that a user makes has the policy that was announced, and one  *)
(* that the pass makes was asked for.                                      *)
LEMMA NetClaimsNext ==
    ASSUME TypeInv, ClaimsInv, Next PROVE NetClaims(Net', born, single)
<1> USE DEF NetworkStep
<1>1. NetClaims(Net, born, single) BY DEF ClaimsInv, WorldClaims
<1>2. CASE spec'.life = spec.life /\ spec'.policy = spec.policy
  BY <1>1, <1>2 DEF NetClaims, Net
<1>3. CASE UserCreatesNetwork
  <2>1. PICK p \in {"Managed", "Observe"} : cluster.ann.policy \in {p, ""} /\ NewLife(p)
    BY <1>3 DEF UserCreatesNetwork
  <2>2. spec'.policy = p BY <2>1 DEF NewLife
  <2>3. Decided(born) => cluster.ann.policy = born.policy
    BY DEF ClaimsInv, WorldClaims, ClusterClaims
  <2> QED BY <2>1, <2>2, <2>3 DEF NetClaims, Net, Decided
<1>4. CASE NewLife("Adopt") /\ pc = "create"
  <2>1. MayAdopt(born, single) BY <1>4 DEF ClaimsInv, PassClaims
  <2>2. spec'.policy = "Adopt" BY <1>4 DEF NewLife
  <2> QED BY <2>1, <2>2 DEF NetClaims, Net, MayAdopt
<1>5. NetworkMoves /\ ~UserCreatesNetwork => spec'.life = spec.life /\ spec'.policy = spec.policy
  BY DEF NetworkMoves, NetworkLearns, NetworkReadied, NetworkDegrades, NetworkEdited,
         NetworkDeleted, NetworkForgets, NetworkReleased, TypeInv, Typed, NetTyped, ASpec
<1>6. UNCHANGED netVars => spec'.life = spec.life /\ spec'.policy = spec.policy
  BY DEF netVars
<1> QED BY <1>2, <1>3, <1>4, <1>5, <1>6, NetNext

(* The annotations are the ones of before, or mirror a network.            *)
LEMMA ClusterClaimsNext ==
    ASSUME TypeInv, ClaimsInv, Next PROVE ClusterClaims(cluster', born, single')
<1>0. History BY Cases
<1>1. desiredNodeCount(cluster') = 1 => single' BY <1>0, HistoryStep
<1>2. single => single' BY <1>0, HistoryStep
<1>3. /\ Decided(born) => cluster.ann.policy = born.policy
      /\ cluster.ann.policy = "Adopt" => Legacy(born, single)
  BY DEF ClaimsInv, WorldClaims, ClusterClaims
<1>4. cluster \in ACluster BY DEF TypeInv, Typed, WorldTyped
<1>5. CASE cluster'.ann.policy = cluster.ann.policy
  BY <1>1, <1>2, <1>3, <1>5 DEF ClusterClaims, Legacy
<1>6. CASE PatchClusterNetworkAnnotations
  <2>1. NetClaims(found, born, single) /\ found.spec.life # 0
    BY <1>6 DEF PatchClusterNetworkAnnotations, ClaimsInv, PassClaims
  <2> DEFINE ann == Patched(cluster.ann, View("cluster").ann, DesiredAnnotations(found))
  <2>2. cluster'.ann = ann BY <1>4, <1>6 DEF PatchClusterNetworkAnnotations, ACluster
  <2>3. ann.policy \in {cluster.ann.policy, found.spec.policy}
    BY DEF Patched, DesiredAnnotations
  <2>4. CASE cluster'.ann.policy = found.spec.policy
    BY <1>1, <1>2, <2>1, <2>4 DEF NetClaims, ClusterClaims, MayAdopt, Legacy
  <2> QED BY <1>5, <2>2, <2>3, <2>4
<1>7. CASE EnsureProviderAnnotation
  <2>1. cluster'.ann.policy = cluster.ann.policy
    BY <1>4, <1>7 DEF EnsureProviderAnnotation, ACluster, Annotations
  <2> QED BY <1>5, <2>1
<1>8. CASE UserSteps BY <1>5, <1>8, UserCluster DEF TypeInv, Typed
<1>9. CASE UNCHANGED cluster BY <1>5, <1>9
<1>10. CASE \E i \in Lagging : Sync(i) BY <1>9, <1>10 DEF Sync
<1> QED
  BY <1>6, <1>7, <1>8, <1>9, <1>10, Cases, MovesFrame
  DEF Begin, NetworkMissing, NetworkFound, CreateAdoption, PatchMachineConfig, CallFails,
      Restart

(* The config of the first pool is not removed, and reset only if it was   *)
(* made without a network.                                                 *)
LEMMA PoolClaimsNext ==
    ASSUME TypeInv, ClaimsInv, Next PROVE PoolClaims(configs', born)
<1> SUFFICES ASSUME born.config = ExistingNetwork PROVE configs'["pool"].scope = "shared"
  BY DEF PoolClaims
<1>1. configs["pool"].scope = "shared"
  BY DEF ClaimsInv, WorldClaims, PoolClaims
<1>2. "pool" \in Configs BY BootstrapConstants
<1>3. CASE UNCHANGED configs BY <1>1, <1>3
<1>4. CASE UserSteps
  <2>1. "pool" \in Range(tcloudMachineConfigRefs(cluster))
    BY FirstRef DEF TypeInv, Typed, WorldTyped
  <2>2. born.config.scope # "machine" BY DEF ExistingNetwork
  <2> QED BY <1>1, <1>2, <1>4, <2>1, <2>2, UserConfigs DEF TypeInv, Typed
<1>5. CASE PatchMachineConfig /\ ~UNCHANGED configs
  <2> DEFINE c == Head(todo)
             view == View("configs")[c]
             want == PointedAt(view, found)
             cur == configs[c]
             new == [scope |-> Patched(cur, view, want).scope, owned |-> cur.owned,
                     ids |-> Patched(cur.ids, view.ids, want.ids)]
  <2>1. c \in Configs BY <1>5 DEF PatchMachineConfig, TypeInv, Typed, PassTyped
  <2>2. view \in Config /\ cur \in Config /\ found \in ANet
    BY <2>1, ViewType DEF TypeInv, Typed, WorldTyped, PassTyped
  <2>3. configs' = [configs EXCEPT ![c] = new] BY <1>5 DEF PatchMachineConfig
  <2>4. new.scope \in {cur.scope, "shared"} BY <2>2, PatchedConfig
  <2> HIDE DEF new
  <2> QED BY <1>1, <1>2, <2>1, <2>3, <2>4 DEF TypeInv, Typed, WorldTyped
<1>6. CASE \E i \in Lagging : Sync(i) BY <1>3, <1>6 DEF Sync
<1> QED
  BY <1>3, <1>4, <1>5, <1>6, Cases, MovesFrame
  DEF Begin, EnsureProviderAnnotation, NetworkMissing, NetworkFound, CreateAdoption,
      PatchClusterNetworkAnnotations, CallFails, Restart

(* A pass that is under way keeps what it read.                            *)
PassSteps ==
    \/ Begin \/ EnsureProviderAnnotation \/ NetworkMissing \/ NetworkFound
    \/ CreateAdoption \/ PatchMachineConfig

(* The other steps end the pass or leave it alone.                         *)
LEMMA OtherSteps ==
    ASSUME Next, ~PassSteps PROVE Return \/ UNCHANGED passVars
<1>1. CASE \E i \in Lagging : Sync(i) BY <1>1 DEF Sync
<1> QED
  BY <1>1, Cases, MovesFrame, UserFrame
  DEF PassSteps, PatchClusterNetworkAnnotations, CallFails, Restart

(* The pass asks for an adoption only where it may.                        *)
LEMMA AsksWhereItMay ==
    ASSUME TypeInv, ClaimsInv, pc = "lookup", AsksAdoption(copy),
           machineScopedWithoutExistingNetwork(View("configs")[refs[1]])
    PROVE  MayAdopt(born, single)
<1>1. refs[1] = "pool" /\ ClusterClaims(copy, born, single) BY DEF ClaimsInv, PassClaims
<1>2. ~Decided(born) BY <1>1 DEF AsksAdoption, ClusterClaims, Decided
<1>3. Legacy(born, single) BY <1>1 DEF AsksAdoption, ClusterClaims, Legacy
<1>4. View("configs")["pool"].scope # "shared"
  BY <1>1 DEF machineScopedWithoutExistingNetwork
<1>5. born.config # ExistingNetwork BY <1>4, ViewClaims DEF ClaimsInv, PoolClaims
<1> QED BY <1>2, <1>3, <1>5 DEF MayAdopt

(* The steps of a pass.  A network that was found Ready has a life number, *)
(* which NamesInv says of copies too.                                      *)
LEMMA PassClaimsNext ==
    ASSUME TypeInv, NamesInv, ClaimsInv, Next PROVE PassClaims'
<1>0. History BY Cases
<1>1. born' = born /\ (single => single') BY <1>0, HistoryStep
<1>2. CASE Return BY <1>2 DEF Return, PassClaims
<1>3. CASE UNCHANGED passVars
  <2>1. PassClaims BY DEF ClaimsInv
  <2> QED BY <1>1, <1>3, <2>1, ClaimsGrow DEF PassClaims, passVars
<1>4. CASE Begin
  <2>1. copy' = View("cluster") /\ refs' = tcloudMachineConfigRefs(View("cluster"))
        /\ pc' \in {"lookup", "provider"}
    BY <1>4 DEF Begin
  <2>2. refs'[1] = "pool" BY <2>1, ViewType, FirstRef DEF TypeInv, Typed
  <2>3. ClusterClaims(copy', born, single') BY <1>1, <2>1, ViewClaims, ClaimsGrow DEF ClaimsInv
  <2> QED BY <1>1, <2>1, <2>2, <2>3 DEF PassClaims
<1>5. CASE EnsureProviderAnnotation
  <2>1. /\ copy' = cluster' /\ pc' = "lookup" /\ pc = "provider" /\ UNCHANGED refs
    BY <1>5 DEF EnsureProviderAnnotation
  <2>2. refs[1] = "pool" BY <2>1 DEF ClaimsInv, PassClaims
  <2>3. ClusterClaims(cluster', born, single') BY ClusterClaimsNext
  <2> QED BY <1>1, <2>1, <2>2, <2>3 DEF PassClaims
<1>6. CASE NetworkMissing /\ ~Return
  <2>1. /\ pc = "lookup" /\ pc' = "create" /\ UNCHANGED <<copy, refs>>
        /\ MayAdopt(born, single)
    BY <1>6, AsksWhereItMay DEF NetworkMissing
  <2>2. refs[1] = "pool" /\ ClusterClaims(copy, born, single)
    BY <2>1 DEF ClaimsInv, PassClaims
  <2> QED BY <1>1, <2>1, <2>2, ClaimsGrow DEF PassClaims
<1>7. CASE NetworkFound /\ ~Return
  <2>1. /\ pc = "lookup" /\ pc' = "configs" /\ UNCHANGED <<copy, refs>>
        /\ found' = View("network") /\ IsReady(View("network"))
    BY <1>7 DEF NetworkFound
  <2>2. refs[1] = "pool" /\ ClusterClaims(copy, born, single)
    BY <2>1 DEF ClaimsInv, PassClaims
  <2>3. MaxLives \in Nat BY BootstrapConstants
  <2>4. found'.spec.life \in Lives BY <2>1, ViewNames DEF NetNames, TypeInv
  <2>5. found'.spec.life # 0 BY <2>3, <2>4 DEF Lives
  <2>6. NetClaims(found', born, single') BY <1>1, <2>1, ViewClaims, ClaimsGrow DEF ClaimsInv
  <2> QED BY <1>1, <2>1, <2>2, <2>5, <2>6, ClaimsGrow DEF PassClaims
<1>8. CASE CreateAdoption /\ ~Return
  <2>1. /\ pc = "create" /\ pc' = "announce" /\ UNCHANGED <<copy, refs>>
        /\ NewLife("Adopt") /\ found' = [o |-> o', spec |-> spec']
    BY <1>8 DEF CreateAdoption
  <2>2. refs[1] = "pool" /\ ClusterClaims(copy, born, single)
    BY <2>1 DEF ClaimsInv, PassClaims
  <2>3. spec.life \in Nat /\ spec'.life = spec.life + 1
    BY <2>1, BootstrapConstants DEF NewLife, TypeInv, Typed, NetTyped, ASpec
  <2>4. found'.spec.life # 0 BY <2>1, <2>3
  <2>5. NetClaims(found', born, single)
    BY <2>1, NetClaimsNext DEF Net
  <2> QED BY <1>1, <2>1, <2>2, <2>4, <2>5, ClaimsGrow DEF PassClaims
<1>9. CASE PatchMachineConfig /\ ~Return
  <2>1. /\ pc = "configs" /\ pc' \in {"configs", "annotate"} /\ UNCHANGED <<copy, refs, found>>
    BY <1>9 DEF PatchMachineConfig
  <2>2. /\ refs[1] = "pool" /\ ClusterClaims(copy, born, single)
        /\ found.spec.life # 0 /\ NetClaims(found, born, single)
    BY <2>1 DEF ClaimsInv, PassClaims
  <2> QED BY <1>1, <2>1, <2>2, ClaimsGrow DEF PassClaims
<1> QED BY <1>2, <1>3, <1>4, <1>5, <1>6, <1>7, <1>8, <1>9, OtherSteps DEF PassSteps

(* A new cluster claims nothing.                                           *)
LEMMA ClaimsInit ==
    ASSUME Init PROVE ClaimsInv
<1>1. /\ seen = World /\ pc = "idle" /\ o = NoNet.o /\ spec = NoNet.spec BY DEF Init
<1>2. PICK p, n, c, d :
        /\ cluster = [phase |-> "live", ann |-> NewAnnotations(p),
                      pools |-> <<[config |-> "pool", quantity |-> n]>>]
        /\ configs = [x \in Configs |-> IF x = "pool" THEN c ELSE d]
        /\ born = [policy |-> p, config |-> c]
  BY Zenon DEF Init
<1>3. cluster.ann.policy = born.policy /\ configs["pool"] = born.config
  BY <1>2, BootstrapConstants DEF NewAnnotations
<1>4. desiredNodeCount(cluster) = 1 => single BY DEF Init
<1>5. ClusterClaims(cluster, born, single)
  BY <1>3, <1>4 DEF ClusterClaims, Legacy
<1>6. NetClaims(Net, born, single) BY <1>1 DEF NetClaims, Net, NoNet
<1>7. PoolClaims(configs, born) BY <1>3 DEF PoolClaims, ExistingNetwork
<1>8. seen.cluster = cluster /\ seen.configs = configs /\ seen.network = Net
  BY <1>1 DEF World
<1>9. PassClaims BY <1>1 DEF PassClaims
<1> QED BY <1>5, <1>6, <1>7, <1>8, <1>9 DEF ClaimsInv, WorldClaims

(* Every step keeps the claims.                                            *)
LEMMA ClaimsNext ==
    ASSUME TypeInv, NamesInv, ClaimsInv, [Next]_vars PROVE ClaimsInv'
<1>1. CASE UNCHANGED vars
  BY <1>1 DEF vars, ClaimsInv, WorldClaims, PassClaims, Net
<1>2. CASE Next
  <2>1. History BY <1>2, Cases
  <2>2. born' = born /\ (single => single') BY <2>1, HistoryStep
  <2>3. /\ ClusterClaims(cluster, born, single) /\ ClusterClaims(seen.cluster, born, single)
        /\ NetClaims(Net, born, single) /\ NetClaims(seen.network, born, single)
        /\ PoolClaims(configs, born) /\ PoolClaims(seen.configs, born)
    BY DEF ClaimsInv, WorldClaims
  <2>4. ClusterClaims(cluster', born, single') BY <1>2, ClusterClaimsNext
  <2>5. NetClaims(Net', born, single') BY <1>2, <2>2, NetClaimsNext, ClaimsGrow
  <2>6. PoolClaims(configs', born) BY <1>2, PoolClaimsNext
  <2>7. /\ seen'.cluster \in {cluster, seen.cluster}
        /\ seen'.configs \in {configs, seen.configs}
        /\ seen'.network \in {Net, seen.network}
    BY <1>2, SeenNext DEF TypeInv
  <2>8. ClusterClaims(seen'.cluster, born, single')
    <3>1. ClusterClaims(seen'.cluster, born, single) BY <2>3, <2>7
    <3> QED BY <2>2, <3>1, ClaimsGrow
  <2>9. NetClaims(seen'.network, born, single')
    <3>1. NetClaims(seen'.network, born, single) BY <2>3, <2>7
    <3> QED BY <2>2, <3>1, ClaimsGrow
  <2>10. PoolClaims(seen'.configs, born) BY <2>3, <2>7
  <2>11. WorldClaims' BY <2>2, <2>4, <2>5, <2>6, <2>8, <2>9, <2>10 DEF WorldClaims
  <2> QED BY <1>2, <2>11, PassClaimsNext DEF ClaimsInv
<1> QED BY <1>1, <1>2

(* The network of a cluster is claimed only where that is meant, for any   *)
(* configs, pools, lives of the network object, edits and faults, and for  *)
(* any copies that lag: not when the cluster was made with Managed or      *)
(* Observe nor for an existing network, and only if it once had a single   *)
(* node or asked for it (Reconcile).                                       *)
THEOREM ClaimsAreMeant == Spec => []ClaimsOnlyLegacyNetworks
<1>1. Init => TypeInv /\ NamesInv /\ ClaimsInv BY TypeInit, NamesInit, ClaimsInit
<1>2. TypeInv /\ NamesInv /\ ClaimsInv /\ [Next]_vars => (TypeInv /\ NamesInv /\ ClaimsInv)'
  BY TypeNext, NamesNext, ClaimsNext
<1>3. TypeInv /\ ClaimsInv => ClaimsOnlyLegacyNetworks BY ClaimsInvImplies
<1> QED BY <1>1, <1>2, <1>3, PTL DEF Spec

=============================================================================
