------------------------- MODULE SecurityGroupRules --------------------------
(***************************************************************************)
(* EnsureSecurityGroup rule by rule (internal/cloud/tcloud.go, rules.go),  *)
(* as the passes of the network reconciler call it, with users who edit    *)
(* the spec and the group itself between any two calls.  NetworkReconciler *)
(* takes the whole loop as one step.                                       *)
(*                                                                         *)
(* Abstractions.                                                           *)
(*  - An SSH rule (tcp 22) is known by its CIDR, any other rule by its     *)
(*    ports; the five rules all clusters have are one, "rke2".             *)
(*  - The cloud refuses a second rule with the same content, so a group    *)
(*    maps the content of a rule to who made it.  A rule is deleted by its *)
(*    identifier: handles are the rules of the snapshot that still have    *)
(*    the identifier they had then.                                        *)
(***************************************************************************)
EXTENDS Integers, FiniteSets

CONSTANTS
    CIDRs,       \* SSH CIDRs a spec may allow
    CNIs,        \* container network plugins a spec may name
    MaxEdits,    \* bound: edits of the spec
    MaxTouches,  \* bound: changes of the group by users
    MaxMishaps   \* bound: calls that fail, restarts among them

ClusterRules == {"rke2", "udp 8472", "tcp 9099", "udp 4789", "tcp 179",
                 "tcp 5473", "tcp 9098-9099"}

ASSUME RulesConstants ==
    /\ CIDRs # {} /\ CIDRs \cap ClusterRules = {}
    /\ CNIs # {}
    /\ MaxEdits \in Nat /\ MaxTouches \in Nat /\ MaxMishaps \in Nat

(* A definition named ...Mutant beside the one it alters is a mistake that *)
(* the properties are tested against; the specification does not use it.   *)

CNIRulesMutant(cni) == {"udp 8472", "tcp 9099", "udp 4789", "tcp 9098"}
CNIRules(cni) ==
    CASE cni \in {"", "canal"} -> {"udp 8472", "tcp 9099"}
      [] cni = "flannel"       -> {"udp 4789"}
      [] cni = "calico"        -> {"tcp 179", "udp 4789", "tcp 5473", "tcp 9098-9099"}
      [] OTHER                 -> {}

Keys  == CIDRs \cup ClusterRules
Specs == [cidrs : (SUBSET CIDRs) \ {{}}, cni : CNIs]

RKE2Rules(s) == s.cidrs \cup {"rke2"} \cup CNIRules(s.cni)
ObsoleteSSHRulesMutant(previous, desired) == desired \ previous
ObsoleteSSHRules(previous, desired) == previous \ desired

VARIABLES
    spec,      \* the security group part of the object's spec
    applied,   \* status.appliedSSHAllowedCIDRs
    group,     \* who made the rule, for each rule of the group
    pc,        \* what the pass does next; "idle" between passes
    my,        \* the spec the pass works on
    snap,      \* the rules of the group when the pass read it
    handles,   \* those of them that were not deleted since
    todo,      \* the rules the pass has still to add or to remove
    edits,     \* edits still allowed
    touches,   \* changes of the group by users still allowed
    mishaps,   \* faults still allowed
    tampered   \* history: a user deleted a rule

passVars == <<pc, my, snap, handles, todo>>
vars     == <<spec, applied, group, pc, my, snap, handles, todo, edits, touches,
              mishaps, tampered>>

Present == {k \in Keys : group[k] # "none"}
Open    == CIDRs \cap Present

TypeOK ==
    /\ spec \in Specs /\ my \in Specs
    /\ applied \in SUBSET CIDRs
    /\ group \in [Keys -> {"none", "controller", "user"}]
    /\ pc \in {"idle", "add", "remove", "record"}
    /\ snap \in SUBSET Keys /\ handles \in SUBSET Keys /\ todo \in SUBSET Keys
    /\ edits \in 0..MaxEdits /\ touches \in 0..MaxTouches
    /\ mishaps \in 0..MaxMishaps
    /\ tampered \in BOOLEAN

(* What the pass's locals hold between passes.                             *)
NoSpec == [cidrs |-> CIDRs, cni |-> CHOOSE c \in CNIs : TRUE]

(* The group was just created, or a driver made it and users added rules.  *)
Init ==
    /\ spec \in Specs
    /\ applied = {}
    /\ group \in {[k \in Keys |-> IF k \in U THEN "user" ELSE "none"] :
                    U \in SUBSET CIDRs}
    /\ pc = "idle" /\ my = NoSpec
    /\ snap = {} /\ handles = {} /\ todo = {}
    /\ edits = MaxEdits /\ touches = MaxTouches /\ mishaps = MaxMishaps
    /\ tampered = FALSE

-----------------------------------------------------------------------------
(* A pass reads the group once; what it then adds and removes follows from *)
(* that snapshot (hasRule, matchesRule).                                   *)

MissingMutant(s) ==
    RKE2Rules(s) \ (Present \cup (IF Open # {} THEN CIDRs ELSE {}))
Missing(s) == RKE2Rules(s) \ Present

ReadGroup ==
    /\ pc = "idle"
    /\ my' = spec
    /\ snap' = Present /\ handles' = Present
    /\ todo' = Missing(spec)
    /\ pc' = "add"
    /\ UNCHANGED <<spec, applied, group, edits, touches, mishaps, tampered>>

Return == pc' = "idle" /\ my' = NoSpec /\ snap' = {} /\ handles' = {} /\ todo' = {}

(* SSH rules come first, in the order of the spec's list, then the others. *)
(* A rule that someone made meanwhile is a conflict, and the pass fails.   *)
NextRules == IF todo \cap CIDRs # {} THEN todo \cap CIDRs
             ELSE {k \in todo : k = CHOOSE j \in todo : TRUE}

AddRule ==
    /\ pc = "add"
    /\ \E k \in NextRules :
         IF group[k] # "none"
         THEN Return /\ UNCHANGED group
         ELSE /\ group' = [group EXCEPT ![k] = "controller"]
              /\ todo' = todo \ {k}
              /\ UNCHANGED <<pc, my, snap, handles>>
    /\ UNCHANGED <<spec, applied, edits, touches, mishaps, tampered>>

AllAddedMutant == pc = "add"
AllAdded == pc = "add" /\ todo = {}

StartRemoving ==
    /\ AllAdded
    /\ todo' = ObsoleteSSHRules(applied, my.cidrs) \cap snap
    /\ pc' = "remove"
    /\ UNCHANGED <<spec, applied, group, my, snap, handles, edits, touches, mishaps,
                   tampered>>

(* By identifier: a rule deleted meanwhile answers 404, which is fine, and *)
(* one made again has another identifier.                                  *)
RemoveRule ==
    /\ pc = "remove"
    /\ \E k \in todo :
         /\ group' = IF k \in handles THEN [group EXCEPT ![k] = "none"] ELSE group
         /\ handles' = handles \ {k}
         /\ todo' = todo \ {k}
    /\ UNCHANGED <<spec, applied, pc, my, snap, edits, touches, mishaps, tampered>>

AllRemoved ==
    /\ pc = "remove" /\ todo = {}
    /\ pc' = "record"
    /\ UNCHANGED <<spec, applied, group, my, snap, handles, todo, edits, touches,
                   mishaps, tampered>>

(* The last status patch of the pass.                                      *)
RecordApplied ==
    /\ pc = "record"
    /\ applied' = my.cidrs
    /\ Return
    /\ UNCHANGED <<spec, group, edits, touches, mishaps, tampered>>

(* A call fails, or the process stops: what was done stays.                *)
CallFails ==
    /\ pc # "idle" /\ mishaps > 0
    /\ mishaps' = mishaps - 1
    /\ Return
    /\ UNCHANGED <<spec, applied, group, edits, touches, tampered>>

-----------------------------------------------------------------------------
EditSpec ==
    /\ edits > 0 /\ edits' = edits - 1
    /\ spec' \in Specs \ {spec}
    /\ UNCHANGED <<applied, group, passVars, touches, mishaps, tampered>>

(* A rule that the controller may want too; others are of no consequence.  *)
UserAddsRule ==
    /\ touches > 0 /\ touches' = touches - 1
    /\ \E k \in (CIDRs \cup RKE2Rules(spec)) \ Present :
            group' = [group EXCEPT ![k] = "user"]
    /\ UNCHANGED <<spec, applied, passVars, edits, mishaps, tampered>>

UserRemovesRule ==
    /\ touches > 0 /\ touches' = touches - 1
    /\ \E k \in Present :
         /\ group' = [group EXCEPT ![k] = "none"]
         /\ handles' = handles \ {k}
    /\ tampered' = TRUE
    /\ UNCHANGED <<spec, applied, pc, my, snap, todo, edits, mishaps>>

-----------------------------------------------------------------------------
PassStep ==
    ReadGroup \/ AddRule \/ StartRemoving \/ RemoveRule \/ AllRemoved \/ RecordApplied
Next == PassStep \/ CallFails \/ EditSpec \/ UserAddsRule \/ UserRemovesRule

Spec == Init /\ [][Next]_vars

(* Passes recur, see NetworkReconciler.                                    *)
Fairness == WF_vars(PassStep)
FairSpec == Spec /\ Fairness

-----------------------------------------------------------------------------
(* New rules are added before obsolete ones are removed: once CIDRs were   *)
(* applied, SSH is never closed altogether, wherever a pass stops and      *)
(* however the spec is edited between passes, unless users delete rules    *)
(* themselves (EnsureSecurityGroup).                                       *)
NeverLockedOut == applied # {} /\ ~tampered => Open # {}

(* When a CIDR leaves the applied set, the rule the controller made for it *)
(* is gone, even if earlier passes stopped halfway and users changed the   *)
(* group after the pass read it (ObsoleteSSHRules, DeleteRule).            *)
DroppedIsClosed ==
    [][\A c \in applied \ applied' : group'[c] # "controller"]_vars

(* In the end the group has every rule of the spec, whatever was added,    *)
(* removed or failed before, and the status records the spec's CIDRs.      *)
RulesArrive == <>[](RKE2Rules(spec) \subseteq Present /\ applied = spec.cidrs)

(* What the README says of pruning, "User-created rules are left intact".  *)
(* False of the code: a user's rule with a CIDR that was also in the spec  *)
(* counts as applied, and goes when the CIDR leaves the spec.              *)
UserRulesIntact ==
    [][touches' = touches => \A k \in Keys : group[k] = "user" => group'[k] = "user"]_vars

=============================================================================
