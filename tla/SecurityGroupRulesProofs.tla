---------------------- MODULE SecurityGroupRulesProofs -----------------------
(* Theorems about SecurityGroupRules, for any CIDRs, plugins and bounds.   *)
EXTENDS SecurityGroupRules, TLAPS

-----------------------------------------------------------------------------
(* Types                                                                   *)

(* A pass never wants a rule beyond the known ones (RKE2Rules).            *)
LEMMA WantedRules ==
    ASSUME NEW s \in Specs
    PROVE  RKE2Rules(s) \in SUBSET Keys
  BY DEF Specs, RKE2Rules, CNIRules, Keys, ClusterRules

(* The spec a pass holds between passes is a spec.                         *)
LEMMA NoSpecType == NoSpec \in Specs
  BY RulesConstants DEF NoSpec, Specs

(* Every step keeps the types.                                             *)
LEMMA TypeStep == TypeOK /\ [Next]_vars => TypeOK'
<1> SUFFICES ASSUME TypeOK, [Next]_vars PROVE TypeOK'
  OBVIOUS
<1> USE NoSpecType, RulesConstants DEF TypeOK
<1>1. CASE ReadGroup
  BY <1>1, WantedRules DEF ReadGroup, Missing, Present
<1>2. CASE AddRule
  BY <1>2 DEF AddRule, NextRules, Return
<1>3. CASE StartRemoving
  BY <1>3 DEF StartRemoving, AllAdded, ObsoleteSSHRules, Keys
<1>4. CASE RemoveRule
  BY <1>4 DEF RemoveRule
<1>5. CASE AllRemoved
  BY <1>5 DEF AllRemoved
<1>6. CASE RecordApplied
  BY <1>6 DEF RecordApplied, Return, Specs
<1>7. CASE CallFails
  BY <1>7 DEF CallFails, Return
<1>8. CASE EditSpec
  BY <1>8 DEF EditSpec, passVars
<1>9. CASE UserAddsRule
  BY <1>9, WantedRules DEF UserAddsRule, passVars, Keys
<1>10. CASE UserRemovesRule
  <2>1. PICK k \in Present : group' = [group EXCEPT ![k] = "none"] /\ handles' = handles \ {k}
    BY <1>10 DEF UserRemovesRule
  <2>2. tampered' \in BOOLEAN
    BY <1>10 DEF UserRemovesRule
  <2>3. UNCHANGED <<spec, applied, pc, my, snap, todo, edits, mishaps>>
    BY <1>10 DEF UserRemovesRule
  <2>4. touches' \in 0..MaxTouches
    BY <1>10 DEF UserRemovesRule
  <2> QED
    BY <2>1, <2>2, <2>3, <2>4
<1>11. CASE UNCHANGED vars
  BY <1>11 DEF vars
<1> QED
  BY <1>1, <1>2, <1>3, <1>4, <1>5, <1>6, <1>7, <1>8, <1>9, <1>10, <1>11
     DEF Next, PassStep

(* The variables of the rule loop keep their types.                        *)
THEOREM RulesTypeCorrect == Spec => []TypeOK
<1>1. ASSUME Init PROVE TypeOK
  <2>1. group \in [Keys -> {"none", "controller", "user"}]
    <3>1. PICK U \in SUBSET CIDRs : group = [k \in Keys |-> IF k \in U THEN "user" ELSE "none"]
      BY <1>1 DEF Init
    <3> QED
      BY <3>1
  <2>2. tampered \in BOOLEAN
    BY <1>1 DEF Init
  <2> QED
    BY <1>1, <2>1, <2>2, NoSpecType, RulesConstants DEF Init, TypeOK
<1> QED
  BY <1>1, TypeStep, PTL DEF Spec

-----------------------------------------------------------------------------
(* Adding before removing                                                  *)

(* Why SSH is never closed altogether: every CIDR of the pass's spec is    *)
(* open or still to be added, all are open when removing begins, and what  *)
(* is removed is none of them.                                             *)
OpenInv ==
    /\ ~tampered /\ applied # {} => Open # {}
    /\ ~tampered /\ pc = "add" => my.cidrs \subseteq Open \cup todo
    /\ ~tampered /\ pc \in {"remove", "record"} => my.cidrs \subseteq Open
    /\ pc = "remove" => todo \cap my.cidrs = {}

(* A rule that appears leaves the open CIDRs open.                         *)
LEMMA OpenGrows ==
    ASSUME TypeOK, NEW k \in Keys, NEW w \in {"controller", "user"},
           group' = [group EXCEPT ![k] = w]
    PROVE  Open \subseteq Open' /\ (k \in CIDRs => k \in Open')
  BY DEF TypeOK, Open, Present, Keys

(* Every step keeps OpenInv.                                               *)
LEMMA OpenStep == TypeOK /\ TypeOK' /\ OpenInv /\ [Next]_vars => OpenInv'
<1> SUFFICES ASSUME TypeOK, TypeOK', OpenInv, [Next]_vars PROVE OpenInv'
  OBVIOUS
<1>1. CASE ReadGroup
  BY <1>1 DEF ReadGroup, OpenInv, Missing, RKE2Rules, Open, Present, TypeOK, Specs
<1>2. CASE AddRule
  <2>1. PICK k \in NextRules :
           IF group[k] # "none" THEN Return /\ UNCHANGED group
           ELSE /\ group' = [group EXCEPT ![k] = "controller"]
                /\ todo' = todo \ {k}
                /\ UNCHANGED <<pc, my, snap, handles>>
    BY <1>2 DEF AddRule
  <2>2. k \in Keys /\ UNCHANGED <<applied, tampered>> /\ pc = "add"
    BY <1>2 DEF AddRule, NextRules, TypeOK
  <2>3. CASE group[k] # "none"
    BY <2>1, <2>2, <2>3 DEF Return, OpenInv, Open, Present
  <2>4. CASE group[k] = "none"
    <3>1. Open \subseteq Open' /\ (k \in CIDRs => k \in Open')
      BY <2>1, <2>2, <2>4, OpenGrows
    <3> QED
      BY <2>1, <2>2, <2>4, <3>1 DEF OpenInv, TypeOK, Specs
  <2> QED
    BY <2>3, <2>4
<1>3. CASE StartRemoving
  BY <1>3 DEF StartRemoving, AllAdded, ObsoleteSSHRules, OpenInv, Open, Present
<1>4. CASE RemoveRule
  <2>1. PICK k \in todo :
           /\ group' = IF k \in handles THEN [group EXCEPT ![k] = "none"] ELSE group
           /\ todo' = todo \ {k}
    BY <1>4 DEF RemoveRule
  <2>2. UNCHANGED <<applied, pc, my, tampered>> /\ pc = "remove"
    BY <1>4 DEF RemoveRule
  <2>3. k \in Keys /\ k \notin my.cidrs
    BY <2>1, <2>2 DEF OpenInv, TypeOK
  <2>4. Open \ {k} \subseteq Open'
    BY <2>1, <2>3 DEF Open, Present, TypeOK
  <2>5. my.cidrs # {}
    BY DEF TypeOK, Specs
  <2> QED
    BY <2>1, <2>2, <2>3, <2>4, <2>5 DEF OpenInv
<1>5. CASE AllRemoved
  BY <1>5 DEF AllRemoved, OpenInv, Open, Present
<1>6. CASE RecordApplied
  BY <1>6 DEF RecordApplied, Return, OpenInv, Open, Present, TypeOK, Specs
<1>7. CASE CallFails
  BY <1>7 DEF CallFails, Return, OpenInv, Open, Present
<1>8. CASE EditSpec
  BY <1>8 DEF EditSpec, passVars, OpenInv, Open, Present
<1>9. CASE UserAddsRule
  <2>1. PICK k \in (CIDRs \cup RKE2Rules(spec)) \ Present : group' = [group EXCEPT ![k] = "user"]
    BY <1>9 DEF UserAddsRule
  <2>2. k \in Keys
    BY <2>1, WantedRules DEF TypeOK, Keys
  <2>3. Open \subseteq Open'
    BY <2>1, <2>2, OpenGrows
  <2> QED
    BY <1>9, <2>3 DEF UserAddsRule, passVars, OpenInv
<1>10. CASE UserRemovesRule
  BY <1>10 DEF UserRemovesRule, OpenInv
<1>11. CASE UNCHANGED vars
  BY <1>11 DEF vars, OpenInv, Open, Present
<1> QED
  BY <1>1, <1>2, <1>3, <1>4, <1>5, <1>6, <1>7, <1>8, <1>9, <1>10, <1>11
     DEF Next, PassStep

(* Once SSH CIDRs were applied, no pass, wherever it stops, and no edit    *)
(* leaves the group without an SSH rule (EnsureSecurityGroup).             *)
THEOREM SSHStaysOpen == Spec => []NeverLockedOut
<1>1. Init => OpenInv
  BY DEF Init, OpenInv
<1>2. OpenInv => NeverLockedOut
  BY DEF OpenInv, NeverLockedOut
<1> QED
  BY <1>1, <1>2, OpenStep, RulesTypeCorrect, PTL DEF Spec

-----------------------------------------------------------------------------
(* What is dropped is closed                                               *)

(* A rule the controller made for a CIDR that the pass drops is in the     *)
(* snapshot, under the identifier it still has, until it is removed.       *)
Dropped == applied \ my.cidrs
ClosedInv ==
    /\ pc = "add" => todo \cap CIDRs \subseteq my.cidrs
    /\ \A c \in Dropped : group[c] = "controller" =>
         /\ pc = "add" => c \in snap /\ c \in handles
         /\ pc = "remove" => c \in todo /\ c \in handles
         /\ pc # "record"

(* A plugin needs none of the rules that open SSH (CNIRules).              *)
LEMMA PluginRules ==
    ASSUME NEW n
    PROVE  CNIRules(n) \subseteq ClusterRules
  BY DEF CNIRules, ClusterRules

(* Every step keeps ClosedInv.                                             *)
LEMMA ClosedStep == TypeOK /\ ClosedInv /\ [Next]_vars => ClosedInv'
<1> SUFFICES ASSUME TypeOK, ClosedInv, [Next]_vars PROVE ClosedInv'
  OBVIOUS
<1>1. CASE ReadGroup
  <2>1. /\ my' = spec /\ snap' = Present /\ handles' = Present
        /\ todo' = RKE2Rules(spec) \ Present /\ pc' = "add"
        /\ UNCHANGED <<applied, group>>
    BY <1>1 DEF ReadGroup, Missing
  <2>2. RKE2Rules(spec) \cap CIDRs \subseteq spec.cidrs
    BY PluginRules, RulesConstants DEF RKE2Rules, ClusterRules
  <2>3. \A c \in CIDRs : group[c] = "controller" => c \in Present
    BY DEF Present, Keys
  <2> QED
    BY <2>1, <2>2, <2>3 DEF ClosedInv, Dropped, TypeOK
<1>2. CASE AddRule
  <2>1. PICK k \in NextRules :
           IF group[k] # "none" THEN Return /\ UNCHANGED group
           ELSE /\ group' = [group EXCEPT ![k] = "controller"]
                /\ todo' = todo \ {k}
                /\ UNCHANGED <<pc, my, snap, handles>>
    BY <1>2 DEF AddRule
  <2>2. pc = "add" /\ k \in todo /\ k \in Keys /\ UNCHANGED applied
    BY <1>2 DEF AddRule, NextRules, TypeOK
  <2>3. CASE group[k] # "none"
    BY <2>1, <2>3 DEF Return, ClosedInv
  <2>4. CASE group[k] = "none"
    <3>1. k \notin Dropped
      BY <2>2 DEF ClosedInv, Dropped, TypeOK
    <3>2. \A c \in Dropped : group'[c] = group[c]
      BY <2>1, <2>2, <2>4, <3>1 DEF Dropped, TypeOK, Keys
    <3> QED
      BY <2>1, <2>2, <2>4, <3>2 DEF ClosedInv, Dropped
  <2> QED
    BY <2>3, <2>4
<1>3. CASE StartRemoving
  BY <1>3 DEF StartRemoving, AllAdded, ObsoleteSSHRules, ClosedInv, Dropped
<1>4. CASE RemoveRule
  <2>1. PICK k \in todo :
           /\ group' = IF k \in handles THEN [group EXCEPT ![k] = "none"] ELSE group
           /\ handles' = handles \ {k}
           /\ todo' = todo \ {k}
    BY <1>4 DEF RemoveRule
  <2>2. pc = "remove" /\ UNCHANGED <<applied, pc, my>>
    BY <1>4 DEF RemoveRule
  <2>3. ASSUME NEW c \in Dropped, group'[c] = "controller"
        PROVE  c \in todo' /\ c \in handles'
    <3>1. c \in Keys
      BY DEF Dropped, TypeOK, Keys
    <3>2. group[c] = "controller"
      BY <2>1, <2>3, <3>1 DEF TypeOK
    <3>3. c \in todo /\ c \in handles
      BY <2>2, <3>2 DEF ClosedInv
    <3>4. c # k
      BY <2>1, <2>3, <3>1, <3>3 DEF TypeOK
    <3> QED
      BY <2>1, <3>3, <3>4
  <2> QED
    BY <2>2, <2>3 DEF ClosedInv, Dropped
<1>5. CASE AllRemoved
  BY <1>5 DEF AllRemoved, ClosedInv, Dropped
<1>6. CASE RecordApplied
  BY <1>6 DEF RecordApplied, Return, ClosedInv
<1>7. CASE CallFails
  BY <1>7 DEF CallFails, Return, ClosedInv
<1>8. CASE EditSpec
  BY <1>8 DEF EditSpec, passVars, ClosedInv, Dropped
<1>9. CASE UserAddsRule
  <2>1. /\ \A c \in CIDRs : group'[c] = "controller" => group[c] = "controller"
        /\ UNCHANGED <<applied, pc, my, snap, handles, todo>>
    BY <1>9 DEF UserAddsRule, passVars, TypeOK, Keys
  <2> QED
    BY <2>1 DEF ClosedInv, Dropped, TypeOK
<1>10. CASE UserRemovesRule
  <2>1. PICK k \in Present : group' = [group EXCEPT ![k] = "none"] /\ handles' = handles \ {k}
    BY <1>10 DEF UserRemovesRule
  <2>2. \A c \in CIDRs : group'[c] = "controller" => group[c] = "controller" /\ c # k
    BY <2>1 DEF TypeOK, Keys
  <2>3. UNCHANGED <<applied, pc, my, snap, todo>>
    BY <1>10 DEF UserRemovesRule
  <2> QED
    BY <2>1, <2>2, <2>3 DEF ClosedInv, Dropped, TypeOK
<1>11. CASE UNCHANGED vars
  BY <1>11 DEF vars, ClosedInv, Dropped
<1> QED
  BY <1>1, <1>2, <1>3, <1>4, <1>5, <1>6, <1>7, <1>8, <1>9, <1>10, <1>11
     DEF Next, PassStep

(* Only the end of a pass takes CIDRs out of the applied set, and then the *)
(* rules of those it takes out are gone (RecordApplied).                   *)
LEMMA ClosedWhenDropped ==
    TypeOK /\ ClosedInv /\ [Next]_vars
        => [\A c \in applied \ applied' : group'[c] # "controller"]_vars
<1> SUFFICES ASSUME TypeOK, ClosedInv, Next,
                    NEW c \in applied \ applied', group'[c] = "controller"
             PROVE  FALSE
  OBVIOUS
<1>1. CASE RecordApplied
  BY <1>1 DEF RecordApplied, ClosedInv, Dropped
<1>2. CASE ~RecordApplied
  <2>1. applied' = applied
    BY <1>2 DEF Next, PassStep, ReadGroup, AddRule, StartRemoving, RemoveRule,
       AllRemoved, CallFails, EditSpec, UserAddsRule, UserRemovesRule
  <2> QED
    BY <2>1
<1> QED
  BY <1>1, <1>2

(* A CIDR never leaves the applied set while a rule the controller made    *)
(* for it is still in the group (EnsureSecurityGroup, ObsoleteSSHRules).   *)
THEOREM DroppedStaysClosed == Spec => DroppedIsClosed
<1>1. Init => ClosedInv
  BY DEF Init, ClosedInv, Dropped
<1>2. Spec => []ClosedInv
  BY <1>1, ClosedStep, RulesTypeCorrect, PTL DEF Spec
<1> QED
  BY <1>2, ClosedWhenDropped, RulesTypeCorrect, PTL DEF Spec, DroppedIsClosed

=============================================================================
