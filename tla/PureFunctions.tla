---------------------------- MODULE PureFunctions ----------------------------
(* The pure functions of the controllers as a specification: a state is    *)
(* one call with its result, and the constants say which calls are made.   *)
EXTENDS Adoption, Names, Credentials

CONSTANTS
    MachineLists,  \* the machines of a cluster as listed, with their Secrets
    Bases,         \* base names in a spec
    UIDs,          \* UIDs of network objects
    ClusterNames,  \* names of clusters
    Secrets,       \* cloud credential Secrets
    Fallbacks      \* region, project and endpoint type of a spec

Resource == [value : STRING, managed : BOOLEAN]
State    == [driver : STRING, vpc : Resource, subnet : Resource, sg : STRING]
Archive  == Seq([file : {"config.json", "broken", "other"}, parses : BOOLEAN, state : State])
Secret   == [kind : {"data", "missing", "unreadable"}, gzip : BOOLEAN, entries : Archive]
Machine  == [name : Nat, created : Nat, deleting : BOOLEAN, secret : Secret]

(* The names of the machines of a cluster are distinct.  A UID is made of  *)
(* letters, digits and dashes.                                             *)
IsMachineList(ms) ==
    /\ ms \in Seq(Machine)
    /\ \A i, j \in DOMAIN ms : ms[i].name = ms[j].name => i = j
    /\ \A i \in DOMAIN ms : ms[i].secret.kind # "data" => ms[i].secret.entries = <<>>
IsUID(u) == u \in Seq(Char) /\ \E i \in DOMAIN u : u[i] # "-"

ASSUME CallsConstants ==
    /\ \A ms \in MachineLists : IsMachineList(ms)
    /\ \A b \in Bases : b \in Seq(STRING)
    /\ \A u \in UIDs : IsUID(u)
    /\ \A c \in ClusterNames : c \in Seq(STRING)

VARIABLES fn, arg, result

Init == fn = "none" /\ arg = <<>> /\ result = <<>>

CallDiscover ==
    \E ms \in MachineLists :
        fn' = "discover" /\ arg' = ms /\ result' = discoverAdoptableResources(ms)
CallManagedName ==
    \E b \in Bases, u \in UIDs :
        fn' = "managedName" /\ arg' = <<b, u>> /\ result' = managedName(b, shortToken(u))
CallObjectName ==
    \E c, d \in ClusterNames :
        fn' = "networkObjectName" /\ arg' = <<c, d>> /\ result' = networkObjectName(c)
CallCredentials ==
    \E s \in Secrets, f \in Fallbacks :
        fn' = "credentials" /\ arg' = <<s, f>> /\ result' = CredentialsFromSecret(s, f)

Next == fn = "none" /\ (CallDiscover \/ CallManagedName \/ CallObjectName \/ CallCredentials)
Spec == Init /\ [][Next]_<<fn, arg, result>>

(* Among several machines, in whatever order they are listed, only the     *)
(* network of the oldest with complete state is claimed, all of it and all *)
(* made by its driver; and it is claimed when no older machine has a state *)
(* Secret (discoverAdoptableResources).                                    *)
AdoptionCorrect == fn = "discover" => ClaimsOldestOwner(arg, result)

(* The README's "oldest machine with complete Rancher machine state": an   *)
(* older machine whose state is not complete is passed over.  False of the *)
(* code, which stops at the oldest machine with a state Secret             *)
(* (adoption.go:82): see the README's findings.                            *)
AdoptsOldestComplete == fn = "discover" => ReadsOldestComplete(arg, result)

(* Every base name, also one that is empty, too long or all dashes, gives  *)
(* a valid resource name that ends in the whole token (managedName).       *)
ManagedNamesCorrect == fn = "managedName" => ManagedNameCarriesToken(arg[1], arg[2])

(* Two clusters share the name of a network object only if their names     *)
(* have a run of dashes or are cut at the limit (networkObjectName).       *)
ObjectNamesCorrect == fn = "networkObjectName" => ObjectNamesDistinct(arg[1], arg[2])

(* A Secret that is accepted gives options with a complete identity, scope *)
(* and domain, and what the spec says of project, region and endpoint type *)
(* is what the client is opened with (CredentialsFromSecret).              *)
CredentialsCorrect == fn = "credentials" => AcceptedIsUsable(arg[1], arg[2], result)

=============================================================================
