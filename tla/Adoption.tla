------------------------------ MODULE Adoption -------------------------------
(* Which network an Adopt request claims (internal/controller/adoption.go):*)
(* a function of the cluster's machines as listed, and of their Secrets.   *)
EXTENDS Integers, Sequences, FiniteSets, SequencesExt

(* A machine has a name, a creation time, a deletion mark and the Secret   *)
(* with its state: missing, unreadable (the read fails), or data.  The     *)
(* data is an archive; of an entry of the archive it counts whether it is  *)
(* a config.json, whether the archive breaks off there, and the state.     *)
NoState == [driver |-> "", vpc |-> [value |-> "", managed |-> FALSE],
            subnet |-> [value |-> "", managed |-> FALSE], sg |-> ""]
Failure == [ok |-> FALSE, vpc |-> "", subnet |-> "", sg |-> ""]

(* A definition named ...Mutant beside the one it alters is a mistake that *)
(* the properties are tested against; the specification does not use it.   *)

(* decodeMachineDriverState: the first config.json of the archive decides. *)
Decisive(e) == e.file \in {"config.json", "broken"}
decodeMachineDriverState(secret) ==
    LET i == SelectInSeq(secret.entries, Decisive)
        e == secret.entries[i]
    IN  IF ~secret.gzip \/ i = 0 \/ e.file = "broken" \/ ~e.parses
        THEN [ok |-> FALSE, state |-> NoState]
        ELSE [ok |-> TRUE, state |-> e.state]

adoptableResourcesFromStateMutant(st) ==
    IF st.driver # "opentelekomcloud" \/ st.vpc.value = "" \/ st.subnet.value = ""
    THEN Failure
    ELSE [ok |-> TRUE, vpc |-> st.vpc.value, subnet |-> st.subnet.value, sg |-> st.sg]
adoptableResourcesFromState(st) ==
    IF \/ st.driver # "opentelekomcloud"
       \/ ~st.vpc.managed \/ ~st.subnet.managed \/ st.sg = ""
       \/ st.vpc.value = "" \/ st.subnet.value = ""
    THEN Failure
    ELSE [ok |-> TRUE, vpc |-> st.vpc.value, subnet |-> st.subnet.value, sg |-> st.sg]

Before(l, r) == IF l.created = r.created THEN l.name < r.name ELSE l.created < r.created

(* The machines of a set in the order of sort.Slice.                       *)
Sorted(S) ==
    CHOOSE q \in [1..Cardinality(S) -> S] :
        \A i, j \in DOMAIN q : i < j => Before(q[i], q[j])

(* A machine without a Secret is passed over; any other ends the search.   *)
discoverAdoptableResources(machines) ==
    LET candidates == Sorted({m \in Range(machines) : ~m.deleting})
        i          == SelectInSeq(candidates, LAMBDA m : m.secret.kind # "missing")
        decoded    == decodeMachineDriverState(candidates[i].secret)
    IN  IF i = 0 \/ candidates[i].secret.kind = "unreadable" \/ ~decoded.ok
        THEN Failure
        ELSE adoptableResourcesFromState(decoded.state)

-----------------------------------------------------------------------------
(* The reference: the state of a machine, and which machine is the oldest. *)
HasState(m, st) ==
    /\ m.secret.kind = "data" /\ m.secret.gzip
    /\ \E i \in DOMAIN m.secret.entries :
         LET e == m.secret.entries[i] IN
         /\ e.file = "config.json" /\ e.parses /\ e.state = st
         /\ \A j \in 1..(i - 1) : m.secret.entries[j].file = "other"

NamesAll(st) == "" \notin {st.vpc.value, st.subnet.value, st.sg}
OwnsNetwork(m, st) ==
    /\ HasState(m, st) /\ NamesAll(st)
    /\ st.driver = "opentelekomcloud"
    /\ st.vpc.managed /\ st.subnet.managed

StateComplete(m) == \E e \in Range(m.secret.entries) : HasState(m, e.state) /\ NamesAll(e.state)

NotAfter(m, x) == m.created < x.created \/ (m.created = x.created /\ m.name <= x.name)
OldestWithSecret(m, machines) ==
    /\ ~m.deleting /\ m.secret.kind # "missing"
    /\ \A x \in Range(machines) : ~x.deleting /\ x.secret.kind # "missing" => NotAfter(m, x)
OldestComplete(m, machines) ==
    /\ ~m.deleting /\ StateComplete(m)
    /\ \A x \in Range(machines) : ~x.deleting /\ StateComplete(x) => NotAfter(m, x)

(* Whatever order the cache lists the machines in, what is claimed is the  *)
(* network of the oldest machine with complete state, all three resources  *)
(* made by its driver and all ids its own; and it is claimed if no older   *)
(* machine has a state Secret at all (discoverAdoptableResources).         *)
ClaimsOldestOwner(machines, result) ==
    /\ \A m \in Range(machines) :
          /\ OldestWithSecret(m, machines)
          /\ \E e \in Range(m.secret.entries) : OwnsNetwork(m, e.state)
          => result.ok
    /\ result.ok => \E m \in Range(machines) :
          /\ OldestComplete(m, machines)
          /\ OwnsNetwork(m, [driver |-> "opentelekomcloud",
                             vpc |-> [value |-> result.vpc, managed |-> TRUE],
                             subnet |-> [value |-> result.subnet, managed |-> TRUE],
                             sg |-> result.sg])

(* What the README says: "the oldest machine with complete Rancher machine *)
(* state" is read, also when an older one has a Secret without that.       *)
ReadsOldestComplete(machines, result) ==
    (\A x \in Range(machines) : x.secret.kind # "unreadable") =>
        \A m \in Range(machines) :
            /\ OldestComplete(m, machines)
            /\ \E e \in Range(m.secret.entries) : OwnsNetwork(m, e.state)
            => result.ok

=============================================================================
