-------------------------- MODULE NetworkOwnedProofs --------------------------
(***************************************************************************)
(* What the status ever recorded as controller-managed stays named by the  *)
(* object, and what the controller created is found again, however old the *)
(* copies of the object are that passes start from.  With them, deletion   *)
(* leaves nothing that was recorded behind and goes in order.              *)
(***************************************************************************)
EXTENDS NetworkPassProofs

(* Names are not changed, in the spec and in the cloud, and no one else    *)
(* deletes the controller's resources.  A stale pass that creates a        *)
(* resource looks it up by its name first: without this it makes another.  *)
Undisturbed ==
    /\ PolicyEdits \subseteq AbandonOnly
    /\ \A b, c \in Bases : b = c
    /\ "rename" \notin Mishaps /\ "vanish" \notin Mishaps

(* The one resource of kind k that an object created with policy b names.  *)
TheId(b, k) ==
    CASE b = "Adopt" -> DriverId(k)
      [] b # "Adopt" /\ MayOwn(b, k) -> OwnId(k, 1)
      [] OTHER -> UserId(k)
Of(k) == {NoId} \cup ({TheId(born, k)} \cap made)

NamesOf(n) == \A k \in Kinds : n.res[k].id \in Of(k)

(* Besides the user's there is one resource of a kind, and every version   *)
(* of the object names that one or none.                                   *)
MadeInv ==
    /\ alive \subseteq made
    /\ \A i \in made : i \in UserIds \/ i = TheId(born, i.kind)
    /\ NamesOf(net) /\ NamesOf(seen.net) /\ NamesOf(obj)
    /\ \A k \in Kinds : got[k].id \in Of(k)

(* Only the controller gives a name with a token.                          *)
TokenInv ==
    \A i \in Ids : i.origin # "controller" => \A b \in Bases : cname[i] # managedName(b)

(* The next pass may be one of a live object, or this one is.              *)
Early == NetView.phase = "live" \/ pc \in LiveCalls

(* Until the deletion is known the lookup by name finds what was created:  *)
(* every version of the object gives the same name and the same VPC.       *)
FindInv ==
    \A i \in made : i.origin = "controller" =>
        /\ i \in alive /\ cname[i] = managedName(net.base)
        /\ i.kind = "subnet" => /\ net.res["vpc"].id # NoId
                                /\ parent[i] = net.res["vpc"].id

UniqueInv == MadeInv /\ TokenInv /\ (Early => FindInv)

-----------------------------------------------------------------------------
(* Ids have the origin that their name says.                               *)
LEMMA OriginFacts ==
    /\ \A k \in Kinds : \A b : /\ TheId(b, k).kind = k /\ TheId(b, k) # NoId
                               /\ ~MayOwn(b, k) => TheId(b, k) = UserId(k)
                               /\ b = "Adopt" => TheId(b, k) = DriverId(k)
                               /\ b # "Adopt" /\ MayOwn(b, k) => TheId(b, k) = OwnId(k, 1)
    /\ \A i \in UserIds : i.origin = "user"
    /\ \A i \in DriverIds : i.origin = "driver"
    /\ \A k \in Kinds : \A n : OwnId(k, n).origin = "controller" /\ OwnId(k, n).n = n
    /\ \A i \in DriverIds : i.kind \in Kinds /\ i = DriverId(i.kind)
    /\ \A k \in Kinds : DriverId(k) \in DriverIds /\ UserId(k) \in UserIds
    /\ \A i \in Ids : i.kind \in Kinds
<1>1. \A k \in Kinds : \A b : ~MayOwn(b, k) => b # "Adopt"
  BY DEF MayOwn, Claiming
<1>2. \A k \in Kinds : \A b :
        /\ ~MayOwn(b, k) => TheId(b, k) = UserId(k)
        /\ b = "Adopt" => TheId(b, k) = DriverId(k)
        /\ b # "Adopt" /\ MayOwn(b, k) => TheId(b, k) = OwnId(k, 1)
  BY <1>1 DEF TheId
<1>3. \A k \in Kinds : OwnId(k, 1) # NoId
  BY DEF OwnId, NoId
<1>4. \A k \in Kinds : \A b : TheId(b, k).kind = k /\ TheId(b, k) # NoId
  BY <1>2, <1>3, KindFacts
<1>5. \A i \in DriverIds : i.kind \in Kinds /\ i = DriverId(i.kind) /\ i.origin = "driver"
  BY DEF DriverIds, DriverId
<1>6. /\ \A i \in UserIds : i.origin = "user"
      /\ \A k \in Kinds : \A n : OwnId(k, n).origin = "controller" /\ OwnId(k, n).n = n
      /\ \A k \in Kinds : DriverId(k) \in DriverIds /\ UserId(k) \in UserIds
  BY DEF UserIds, OwnId, DriverIds, DriverId, UserId
<1>7. \A i \in Ids : i.kind \in Kinds
  BY DEF Ids, OwnIds, UserIds, DriverIds
<1>. QED
  BY <1>2, <1>4, <1>5, <1>6, <1>7

(* Only these steps change what the cloud answered.                        *)
LEMMA AnswerSteps ==
    ASSUME Next
    PROVE  \/ got' = got \/ (\A k \in Kinds : got'[k].id = NoId)
           \/ ~Fail /\ (EnsureKnown \/ EnsureFound \/ EnsureCreated \/ Observe \/ Adopt)
<1>1. CASE Return
  BY <1>1 DEF Return, NothingGot, NoResource
<1>2. CASE Fail
  BY <1>1, <1>2 DEF Fail
<1>3. CASE QuietStep \/ Edits \/ UserDelete \/ GarbageCollect
  BY <1>3, QuietSame DEF Edits, EditPolicy, EditCIDRs, EditName, Edit, UserDelete,
     GarbageCollect, passVars
<1>4. CASE \/ Begin \/ AddFinalizer \/ ClusterNotFound \/ AddOwner \/ ClusterFound
           \/ ClusterBound \/ DeleteOrphan \/ Authorize \/ Refuse
  BY <1>1, <1>2, <1>4 DEF Begin, AddFinalizer, ClusterNotFound, AddOwner, ClusterFound,
     ClusterBound, DeleteOrphan, Authorize, Refuse
<1>5. CASE \/ OwnershipToken \/ Record \/ EnsureRules \/ EnsureRulesFails \/ Finish
           \/ Claim
  BY <1>1, <1>2, <1>5 DEF OwnershipToken, Record, PatchThen, EnsureRules,
     EnsureRulesFails, Finish, Claim
<1>6. CASE \/ Wait \/ Drained \/ Verify \/ DeleteResource \/ ForgetResource
           \/ Release \/ CallFails \/ Crash
  BY <1>1, <1>2, <1>6 DEF Wait, Drained, Verify, DeleteResource, ForgetResource,
     Release, CallFails, Crash
<1>. QED
  BY <1>2, <1>3, <1>4, <1>5, <1>6, StepGroups DEF Edits

(* The cloud makes only what was not made before.                          *)
CloudStep == made \subseteq made' /\ alive' \subseteq made' /\ alive' \cap made \subseteq alive

(* Every step treats the cloud so.                                         *)
LEMMA CloudNext == ASSUME alive \subseteq made, Next PROVE CloudStep
<1>1. CASE UNCHANGED <<alive, made>>
  BY <1>1 DEF CloudStep
<1>2. CASE EnsureCreated
  BY <1>2 DEF EnsureCreated, CloudStep, cloudVars
<1>3. CASE DeleteResource
  BY <1>3 DEF DeleteResource, Gone, CloudStep, cloudVars
<1>4. CASE MachineBootsOnOwnNetwork
  BY <1>4 DEF MachineBootsOnOwnNetwork, CloudStep
<1>5. CASE Vanish
  BY <1>5 DEF Vanish, Gone, CloudStep
<1>6. CASE Rename
  BY <1>1, <1>6 DEF Rename
<1>. QED
  BY <1>1, <1>2, <1>3, <1>4, <1>5, <1>6, CloudCalls

(* Only the controller gives a name with a token.                          *)
LEMMA TokenNext ==
    ASSUME Undisturbed, TypeOK, TokenInv, Next PROVE TokenInv'
<1>0. cname \in [Ids -> Names] /\ obj \in Network
  BY DEF TypeOK
<1>1. \A b : NoName # managedName(b) /\ DriverName # managedName(b)
  BY DEF NoName, DriverName, managedName
<1>2. CASE UNCHANGED cname
  BY <1>2 DEF TokenInv
<1>3. CASE EnsureCreated
  <2>1. UNCHANGED cname \/ \E n : cname' = [cname EXCEPT ![OwnId(kind, n)] = managedName(obj.base)]
    BY <1>3 DEF EnsureCreated, cloudVars
  <2>2. \A n : OwnId(kind, n).origin = "controller"
    BY DEF OwnId
  <2>. QED
    BY <1>0, <1>2, <2>1, <2>2 DEF TokenInv
<1>4. CASE DeleteResource \/ Vanish
  <2>1. UNCHANGED cname \/ \E i : cname' = [cname EXCEPT ![i] = NoName]
    BY <1>4 DEF DeleteResource, Vanish, Gone, cloudVars
  <2>. QED
    BY <1>0, <1>1, <1>2, <2>1 DEF TokenInv
<1>5. CASE MachineBootsOnOwnNetwork
  <2>1. cname' = [i \in Ids |-> IF i \in DriverIds THEN DriverName ELSE cname[i]]
    BY <1>5 DEF MachineBootsOnOwnNetwork
  <2>. QED
    BY <1>1, <2>1 DEF TokenInv
<1>6. ~Rename
  BY DEF Rename, Undisturbed
<1>. QED
  BY <1>2, <1>3, <1>4, <1>5, <1>6, CloudCalls

-----------------------------------------------------------------------------
(* One resource of a kind                                                  *)

(* The steps of a pass, for a cloud in which all is where it should be.    *)
Whole == Sound /\ UniqueInv

(* While a pass may be one of a live object, no call deletes.              *)
LEMMA EarlyNext ==
    ASSUME TypeOK, CopiesInv, Next, Early' PROVE Early /\ pc \notin DeletionCalls
<1>1. NetView'.phase = "live" => NetView.phase = "live"
  BY DeletionSeen
<1>2. pc' \in LiveCalls => pc \in LiveCalls \/ NetView.phase = "live"
  <2>. SUFFICES ASSUME pc' \in LiveCalls PROVE pc \in LiveCalls \/ NetView.phase = "live"
    OBVIOUS
  <2>1. ~Return
    BY DEF Return, LiveCalls
  <2>2. ~DeletionGoesOn
    BY DEF DeletionGoesOn, LiveCalls
  <2>3. UNCHANGED passVars \/ PassGoesOn => pc \in LiveCalls
    BY DEF passVars, PassGoesOn
  <2>4. Begin => NetView.phase = "live"
    <3>1. NetView.phase \in {"live", "deleting", "absent"}
      BY ViewType DEF Network
    <3>. QED
      BY <3>1 DEF Begin, FirstCall, LiveCalls, DeletionCalls
  <2>. QED
    BY <2>1, <2>2, <2>3, <2>4, PassSteps
<1>3. Early
  BY <1>1, <1>2 DEF Early
<1>. QED
  BY <1>3 DEF Early, CopiesInv, LiveCalls

(* A lookup by name finds the resource of its kind, if there is one.       *)
LEMMA LookupFinds ==
    ASSUME Undisturbed, Whole, pc = "ensure", NEW i \in made,
           i.origin = "controller", i.kind = kind
    PROVE  i \in Found(kind)
<1>0. /\ TypeOK /\ ForeignInv /\ PassInv /\ MadeInv /\ Early /\ FindInv
      /\ kind \in Kinds
  BY DEF Whole, Sound, UniqueInv, Early, LiveCalls, PCs, DeletionCalls, TypeOK
<1>1. i \in alive /\ cname[i] = managedName(obj.base)
  <2>1. net.base = obj.base
    BY <1>0 DEF Undisturbed, TypeOK, Network
  <2>. QED
    BY <1>0, <2>1 DEF FindInv
<1>2. kind = "subnet" => parent[i] = got["vpc"].id
  <2>. SUFFICES ASSUME kind = "subnet" PROVE parent[i] = got["vpc"].id
    OBVIOUS
  <2>1. route = "Managed"
    BY <1>0 DEF ForeignInv, PassOK
  <2>2. got["vpc"].id # NoId
    BY <1>0, <2>1 DEF PassInv, CallsInv, EnsureInv, Before
  <2>3. parent[i] = net.res["vpc"].id /\ net.res["vpc"].id # NoId
    BY <1>0 DEF FindInv
  <2>4. got["vpc"].id \in Of("vpc") /\ net.res["vpc"].id \in Of("vpc")
    BY <1>0 DEF MadeInv, NamesOf, Kinds
  <2>. QED
    BY <2>2, <2>3, <2>4 DEF Of
<1>. QED
  BY <1>1, <1>2 DEF Found

(* The cloud answers a lookup with the resource of its kind.               *)
LEMMA FoundIsTheOne ==
    ASSUME Whole, pc = "ensure", NEW i \in Found(kind)
    PROVE  i \in Of(kind) /\ i \in Ids /\ i # NoId
<1>0. /\ TypeOK /\ MadeInv /\ TokenInv /\ kind \in Kinds
  BY DEF Whole, Sound, UniqueInv, TypeOK
<1>1. i \in alive /\ i.kind = kind /\ cname[i] = managedName(obj.base)
  BY DEF Found
<1>2. i \in Ids /\ i \in made /\ obj.base \in Bases
  BY <1>0, <1>1 DEF TypeOK, MadeInv, Network
<1>3. i.origin = "controller"
  BY <1>0, <1>1, <1>2 DEF TokenInv
<1>4. i = TheId(born, kind)
  BY <1>0, <1>1, <1>2, <1>3, OriginFacts DEF MadeInv
<1>. QED
  BY <1>2, <1>4, IdFacts DEF Of

(* What EnsureCreated leaves: the first resource of its kind.              *)
LEMMA CreatedFacts ==
    ASSUME Undisturbed, Whole, EnsureCreated, ~Fail
    PROVE  LET i == TheId(born, kind) IN
           /\ i \in Ids \ made /\ i.kind = kind /\ i.origin = "controller"
           /\ pc = "ensure" /\ net' = net
           /\ alive' = alive \cup {i} /\ made' = made \cup {i}
           /\ \A j \in Ids \ {i} : cname'[j] = cname[j] /\ parent'[j] = parent[j]
           /\ cname'[i] = managedName(obj.base)
           /\ kind = "subnet" => parent'[i] = got["vpc"].id
           /\ \E name : Ensured(kind, i, name)
<1>0. /\ kind \in Kinds /\ cname \in [Ids -> Names] /\ parent \in [Ids -> Ids \cup {NoId}]
      /\ pc = "ensure" /\ Found(kind) = {} /\ ForeignInv /\ PassInv
  BY DEF Whole, Sound, TypeOK, EnsureCreated
<1>1. PICK n \in 1..MaxIds :
        /\ OwnId(kind, n) \notin made
        /\ \A m \in 1..(n - 1) : OwnId(kind, m) \in made
        /\ alive' = alive \cup {OwnId(kind, n)}
        /\ made' = made \cup {OwnId(kind, n)}
        /\ cname' = [cname EXCEPT ![OwnId(kind, n)] = managedName(obj.base)]
        /\ parent' = [parent EXCEPT ![OwnId(kind, n)] =
                        IF kind = "subnet" THEN got["vpc"].id ELSE NoId]
        /\ Ensured(kind, OwnId(kind, n), managedName(obj.base))
  BY DEF EnsureCreated
<1>2. OwnId(kind, 1) \notin made
  <2>1. OwnId(kind, 1).kind = kind /\ OwnId(kind, 1).origin = "controller"
    BY <1>0, KindFacts, OriginFacts
  <2>. QED
    BY <1>0, <2>1, LookupFinds
<1>3. n = 1
  <2>1. n \in Nat /\ (n # 1 => 1 \in 1..(n - 1))
    BY <1>1, Bounds
  <2>. QED
    BY <1>1, <1>2, <2>1
<1>4. TheId(born, kind) = OwnId(kind, 1)
  <2>1. MayOwn(born, kind)
    BY <1>0, RecordsOwn DEF ForeignInv
  <2>2. born # "Adopt"
    <3>1. route \in {"Managed", "Hybrid"}
      BY <1>0 DEF ForeignInv, PassOK
    <3>2. route \in {born, "Abandon", "none"}
      BY <1>0 DEF PassInv, PolicyInv
    <3>. QED
      BY <3>1, <3>2
  <2>. QED
    BY <1>0, <2>1, <2>2, OriginFacts
<1>. DEFINE i == TheId(born, kind)
<1>5. /\ i \in Ids /\ i.kind = kind /\ i.origin = "controller" /\ i \notin made
      /\ alive' = alive \cup {i} /\ made' = made \cup {i}
      /\ cname' = [cname EXCEPT ![i] = managedName(obj.base)]
      /\ parent' = [parent EXCEPT ![i] = IF kind = "subnet" THEN got["vpc"].id ELSE NoId]
      /\ Ensured(kind, i, managedName(obj.base))
  BY <1>0, <1>1, <1>2, <1>3, <1>4, IdFacts, KindFacts, OriginFacts
<1>. HIDE DEF i
<1>6. /\ \A j \in Ids \ {i} : cname'[j] = cname[j] /\ parent'[j] = parent[j]
      /\ cname'[i] = managedName(obj.base)
      /\ kind = "subnet" => parent'[i] = got["vpc"].id
  BY <1>0, <1>5
<1>7. net' = net
  BY <1>5 DEF Ensured
<1>8. /\ i \in Ids \ made /\ i.kind = kind /\ i.origin = "controller"
      /\ pc = "ensure" /\ net' = net
      /\ alive' = alive \cup {i} /\ made' = made \cup {i}
      /\ \A j \in Ids \ {i} : cname'[j] = cname[j] /\ parent'[j] = parent[j]
      /\ cname'[i] = managedName(obj.base)
      /\ kind = "subnet" => parent'[i] = got["vpc"].id
      /\ \E name : Ensured(kind, i, name)
  BY <1>0, <1>5, <1>6, <1>7
<1>. QED
  BY <1>8 DEF i

(* What a step adds to the cloud.                                          *)
LEMMA MadeSteps ==
    ASSUME Undisturbed, Whole, Next
    PROVE  /\ CloudStep /\ born' = born
           /\ \A i \in made' : i \in UserIds \/ i = TheId(born, i.kind)
           /\ \A k \in Kinds : Of(k) \subseteq Of(k)'
<1>0. MadeInv /\ born' = born /\ PassInv
  BY DEF Whole, UniqueInv, Next, History, Sound
<1>1. CloudStep
  BY <1>0, CloudNext DEF MadeInv
<1>2. \A k \in Kinds : Of(k) \subseteq Of(k)'
  BY <1>0, <1>1 DEF Of, CloudStep
<1>3. \A i \in made' : i \in UserIds \/ i = TheId(born, i.kind)
  <2>1. CASE made' = made
    BY <1>0, <2>1 DEF MadeInv
  <2>2. CASE EnsureCreated /\ ~Fail
    BY <1>0, <2>2, CreatedFacts DEF MadeInv
  <2>3. CASE EnsureCreated /\ Fail
    <3>1. made' = made
      BY <2>3 DEF EnsureCreated, Fail, Return, Ensured, CallAfter, cloudVars
    <3>. QED
      BY <2>1, <3>1
  <2>4. CASE MachineBootsOnOwnNetwork
    <3>1. made' = made \cup DriverIds /\ net.policy = "Adopt"
      BY <2>4 DEF MachineBootsOnOwnNetwork
    <3>2. born = "Adopt"
      BY <1>0, <3>1 DEF PassInv, PolicyInv
    <3>. QED
      BY <1>0, <3>1, <3>2, OriginFacts DEF MadeInv
  <2>5. DeleteResource \/ Vanish \/ Rename => made' = made
    BY DEF DeleteResource, Vanish, Rename, Gone, cloudVars
  <2>. QED
    BY <2>1, <2>2, <2>3, <2>4, <2>5, CloudCalls
<1>. QED
  BY <1>0, <1>1, <1>2, <1>3

(* The cloud answers with the one resource of a kind.                      *)
LEMMA AnswersNext ==
    ASSUME Undisturbed, Whole, Next PROVE \A k \in Kinds : got'[k].id \in Of(k)'
<1>. DEFINE G(k) == {NoId} \cup ({TheId(born, k)} \cap made')
<1>0. /\ TypeOK /\ ForeignInv /\ PassInv /\ MadeInv /\ kind \in Kinds
      /\ got \in [Kinds -> Resource]
      /\ \A k \in Kinds : Of(k) \subseteq G(k) /\ NoId \in G(k)
      /\ \A k \in Kinds : got[k].id \in G(k)
      /\ \A k \in Kinds : Of(k)' = G(k)
  BY MadeSteps DEF Whole, Sound, UniqueInv, MadeInv, TypeOK, Of
<1>. HIDE DEF G
<1>. SUFFICES \A k \in Kinds : got'[k].id \in G(k)
  BY <1>0
<1>1. ASSUME NEW id \in G(kind), NEW name, Ensured(kind, id, name)
      PROVE  \A k \in Kinds : got'[k].id \in G(k)
  <2>1. got' = [got EXCEPT ![kind] = [id |-> id, name |-> name]]
    BY <1>1 DEF Ensured
  <2>. QED
    BY <1>0, <1>1, <2>1
<1>2. CASE ~Fail /\ EnsureKnown
  <2>1. obj.res[kind].id \in G(kind)
    BY <1>0 DEF MadeInv, NamesOf
  <2>. QED
    BY <1>1, <1>2, <2>1 DEF EnsureKnown
<1>3. CASE ~Fail /\ EnsureFound
  <2>1. \A i \in Found(kind) : i \in G(kind)
    BY <1>0, <1>3, FoundIsTheOne DEF EnsureFound
  <2>. QED
    BY <1>1, <1>3, <2>1 DEF EnsureFound
<1>4. CASE ~Fail /\ EnsureCreated
  <2>1. PICK name : Ensured(kind, TheId(born, kind), name)
    BY <1>4, CreatedFacts
  <2>2. TheId(born, kind) \in made' /\ born' = born
    BY <1>4, CreatedFacts, MadeSteps
  <2>3. TheId(born, kind) \in G(kind)
    BY <2>2 DEF G
  <2>. QED
    BY <1>1, <2>1, <2>3
<1>5. CASE ~Fail /\ Observe
  <2>. DEFINE look == {k \in Kinds : k # "sg" \/ route = "Observe"}
  <2>1. /\ {UserId(k) : k \in look} \subseteq alive /\ pc = "observe"
        /\ got' = [k \in Kinds |-> IF k \in look
                                   THEN [id |-> UserId(k), name |-> cname[UserId(k)]]
                                   ELSE NoResource]
    BY <1>5 DEF Observe
  <2>2. born = route /\ route \in {"Observe", "Hybrid"}
    BY <1>0, <2>1 DEF ForeignInv, PassOK, PassInv, PolicyInv
  <2>3. ASSUME NEW k \in look PROVE UserId(k) \in G(k)
    <3>1. ~MayOwn(born, k) /\ UserId(k) \in made
      BY <1>0, <2>1, <2>2 DEF MayOwn, Claiming, MadeInv
    <3>2. UserId(k) \in Of(k)
      BY <3>1, OriginFacts DEF Of
    <3>. QED
      BY <1>0, <3>2
  <2>. QED
    BY <1>0, <2>1, <2>3 DEF NoResource
<1>6. CASE ~Fail /\ Adopt
  <2>1. /\ DriverIds \subseteq alive /\ pc = "adopt"
        /\ \A k \in Kinds : got'[k].id = DriverId(k)
    BY <1>6 DEF Adopt
  <2>2. born = "Adopt"
    BY <1>0, <2>1 DEF ForeignInv, PassOK, PassInv, PolicyInv
  <2>3. \A k \in Kinds : DriverId(k) \in Of(k)
    BY <1>0, <2>1, <2>2, OriginFacts DEF Of, MadeInv
  <2>. QED
    BY <1>0, <2>1, <2>3
<1>. QED
  BY <1>0, <1>2, <1>3, <1>4, <1>5, <1>6, AnswerSteps

(* Every version of the object names the one resource of a kind or none.   *)
LEMMA NamesNext ==
    ASSUME Undisturbed, Whole, Next
    PROVE  NamesOf(net)' /\ NamesOf(seen.net)' /\ NamesOf(obj)'
<1>. DEFINE G(k) == {NoId} \cup ({TheId(born, k)} \cap made')
<1>0. /\ TypeOK /\ ForeignInv /\ PassInv /\ MadeInv /\ born' = born
      /\ \A k \in Kinds : Of(k) \subseteq G(k) /\ NoId \in G(k)
      /\ \A k \in Kinds : Of(k)' = G(k)
  BY MadeSteps DEF Whole, Sound, UniqueInv, MadeInv, TypeOK, Of
<1>. HIDE DEF G
<1>1. \A k \in Kinds : {net.res[k].id, seen.net.res[k].id, obj.res[k].id, got[k].id,
                        NoId} \subseteq G(k)
  BY <1>0 DEF MadeInv, NamesOf
<1>2. \A k \in Kinds : net'.res[k].id \in G(k)
  <2>1. CASE NamesSame
    BY <1>1, <2>1 DEF NamesSame
  <2>2. CASE Record \/ Claim \/ Finish
    <3>1. PICK new \in Network : NamingStep(new)
      BY <1>0, <2>2, NamingSteps
    <3>2. ASSUME NEW k \in Kinds PROVE net'.res[k].id \in G(k)
      <4>1. /\ new.res[k].id \in {obj.res[k].id, got[k].id}
            /\ net'.res[k].id = Pick(net.res[k].id, obj.res[k].id, new.res[k].id)
        BY <3>1 DEF NamingStep
      <4>. QED
        BY <1>1, <4>1 DEF Pick
    <3>. QED
      BY <3>2
  <2>3. CASE ForgetResource
    BY <1>0, <1>1, <2>3, ForgetFields
  <2>. QED
    BY <1>0, <2>1, <2>2, <2>3, ObjectSteps
<1>3. \A k \in Kinds : seen'.net.res[k].id \in G(k)
  BY <1>0, <1>1, SeenSteps
<1>4. \A k \in Kinds : obj'.res[k].id \in G(k)
  <2>1. \/ obj' = obj \/ obj' = net' \/ obj' = NoNetwork \/ obj' = NetView
    BY <1>0, PassSteps DEF Return, passVars, Begin, PassGoesOn, DeletionGoesOn
  <2>2. \A k \in Kinds : NoNetwork.res[k].id = NoId
    BY NothingNamed
  <2>. QED
    BY <1>1, <1>2, <2>1, <2>2 DEF NetView
<1>. QED
  BY <1>0, <1>2, <1>3, <1>4 DEF NamesOf

(* Only reconcileDelete takes a name from the object.                      *)
LEMMA NameKept ==
    ASSUME Undisturbed, Whole, Next, ~ForgetResource, NEW k \in Kinds, net.res[k].id # NoId
    PROVE  net'.res[k].id = net.res[k].id
<1>1. net.res[k].id = TheId(born, k)
  BY DEF Whole, UniqueInv, MadeInv, NamesOf, Of
<1>2. net'.res[k].id # NoId
  BY KnownGrows DEF Whole, Sound, Known
<1>3. born' = born /\ net'.res[k].id \in Of(k)'
  BY NamesNext, MadeSteps DEF NamesOf
<1>. QED
  BY <1>1, <1>2, <1>3 DEF Of

(* The lookup by name goes on finding what was created.                    *)
LEMMA FindNext ==
    ASSUME Undisturbed, Whole, Next, Early' PROVE FindInv'
<1>0. /\ TypeOK /\ TypeOK' /\ ForeignInv /\ PassInv /\ CopiesInv /\ MadeInv /\ kind \in Kinds
      /\ Early /\ pc \notin DeletionCalls /\ FindInv
  BY TypeNext, EarlyNext DEF Whole, Sound, UniqueInv, TypeOK
<1>1. net'.base = net.base /\ obj.base = net.base
  BY <1>0 DEF Undisturbed, TypeOK, Network
<1>2. ~ForgetResource /\ ~DeleteResource /\ ~Vanish /\ ~Rename
  BY <1>0 DEF ForgetResource, DeleteResource, DeletionCalls, Vanish, Rename, Undisturbed
<1>3. net.res["vpc"].id # NoId => net'.res["vpc"].id = net.res["vpc"].id
  BY <1>2, NameKept DEF Kinds
<1>4. ASSUME NEW i \in made', i.origin = "controller", i \in made, i \in alive',
             cname'[i] = cname[i], parent'[i] = parent[i]
      PROVE  /\ i \in alive' /\ cname'[i] = managedName(net'.base)
             /\ i.kind = "subnet" => /\ net'.res["vpc"].id # NoId
                                     /\ parent'[i] = net'.res["vpc"].id
  BY <1>0, <1>1, <1>3, <1>4 DEF FindInv
<1>5. CASE UNCHANGED <<alive, made, cname, parent>>
  <2>1. \A i \in made' : i.origin = "controller" => i \in alive'
    BY <1>0, <1>5 DEF FindInv
  <2>. QED
    BY <1>4, <1>5, <2>1 DEF FindInv
<1>6. CASE EnsureCreated /\ ~Fail
  <2>. DEFINE i == TheId(born, kind)
  <2>1. /\ i \in Ids \ made /\ i.kind = kind /\ pc = "ensure" /\ net' = net
        /\ alive' = alive \cup {i} /\ made' = made \cup {i}
        /\ \A j \in Ids \ {i} : cname'[j] = cname[j] /\ parent'[j] = parent[j]
        /\ cname'[i] = managedName(obj.base)
        /\ kind = "subnet" => parent'[i] = got["vpc"].id
    BY <1>6, CreatedFacts
  <2>. HIDE DEF i
  <2>2. ASSUME NEW j \in made', j.origin = "controller", j # i
        PROVE  /\ j \in alive' /\ cname'[j] = managedName(net'.base)
               /\ j.kind = "subnet" => /\ net'.res["vpc"].id # NoId
                                       /\ parent'[j] = net'.res["vpc"].id
    <3>1. j \in made /\ j \in Ids \ {i}
      BY <1>0, <2>1, <2>2 DEF TypeOK
    <3>2. j \in alive'
      BY <1>0, <2>1, <2>2, <3>1 DEF FindInv
    <3>. QED
      BY <1>4, <2>1, <2>2, <3>1, <3>2
  <2>3. kind = "subnet" => net.res["vpc"].id # NoId /\ parent'[i] = net.res["vpc"].id
    <3>. SUFFICES ASSUME kind = "subnet"
                  PROVE  net.res["vpc"].id # NoId /\ got["vpc"].id = net.res["vpc"].id
      BY <2>1
    <3>1. route = "Managed"
      BY <1>0, <2>1 DEF ForeignInv, PassOK
    <3>2. obj.res["vpc"].id # NoId /\ got["vpc"].id # NoId
      BY <1>0, <2>1, <3>1 DEF PassInv, CallsInv, EnsureInv, Before
    <3>3. net.res["vpc"].id # NoId
      <4>1. pc \in LiveCalls
        BY <2>1 DEF LiveCalls, PCs, DeletionCalls
      <4>2. Known(obj) \subseteq Known(net)
        BY <1>0, <4>1 DEF PassInv, KnownInv
      <4>. QED
        BY <3>2, <4>2 DEF Known, Kinds
    <3>4. got["vpc"].id \in Of("vpc") /\ net.res["vpc"].id \in Of("vpc")
      BY <1>0 DEF MadeInv, NamesOf, Kinds
    <3>. QED
      BY <3>2, <3>3, <3>4 DEF Of
  <2>4. i \in alive' /\ cname'[i] = managedName(net'.base)
    BY <1>1, <2>1
  <2>. QED
    BY <2>1, <2>2, <2>3, <2>4 DEF FindInv
<1>7. CASE EnsureCreated /\ Fail
  <2>1. UNCHANGED <<alive, made, cname, parent>>
    BY <1>7 DEF EnsureCreated, Fail, Return, Ensured, CallAfter, cloudVars
  <2>. QED
    BY <1>5, <2>1
<1>8. CASE MachineBootsOnOwnNetwork
  <2>1. /\ alive' = alive \cup DriverIds /\ made' = made \cup DriverIds
        /\ cname' = [i \in Ids |-> IF i \in DriverIds THEN DriverName ELSE cname[i]]
        /\ parent' = [parent EXCEPT ![DriverId("subnet")] = DriverId("vpc")]
    BY <1>8 DEF MachineBootsOnOwnNetwork
  <2>2. \A i \in DriverIds : i.origin = "driver"
    BY OriginFacts
  <2>3. DriverId("subnet") \in DriverIds
    BY OriginFacts DEF Kinds
  <2>4. ASSUME NEW i \in made', i.origin = "controller"
        PROVE  i \in made /\ i \in alive' /\ cname'[i] = cname[i] /\ parent'[i] = parent[i]
    <3>1. i \in made /\ i \notin DriverIds /\ i \in Ids
      BY <1>0, <2>1, <2>2, <2>4 DEF TypeOK
    <3>. QED
      BY <1>0, <2>1, <2>3, <2>4, <3>1 DEF FindInv, TypeOK
  <2>. QED
    BY <1>4, <2>4 DEF FindInv
<1>. QED
  BY <1>2, <1>5, <1>6, <1>7, <1>8, CloudCalls

(* Every step keeps one resource of a kind.                                *)
LEMMA UniqueNext ==
    ASSUME Undisturbed PROVE Sound /\ UniqueInv /\ [Next]_vars => UniqueInv'
<1>1. ASSUME Sound, UniqueInv, Next PROVE UniqueInv'
  <2>0. Whole /\ TypeOK /\ TokenInv
    BY <1>1 DEF Whole, Sound, UniqueInv
  <2>1. /\ CloudStep /\ born' = born
        /\ \A i \in made' : i \in UserIds \/ i = TheId(born, i.kind)
    BY <1>1, <2>0, MadeSteps
  <2>2. MadeInv'
    BY <1>1, <2>0, <2>1, NamesNext, AnswersNext DEF MadeInv, CloudStep
  <2>3. TokenInv'
    BY <1>1, <2>0, TokenNext
  <2>4. Early' => FindInv'
    BY <1>1, <2>0, FindNext
  <2>. QED
    BY <2>2, <2>3, <2>4 DEF UniqueInv
<1>2. ASSUME UniqueInv, UNCHANGED vars PROVE UniqueInv'
  BY <1>2 DEF vars, UniqueInv, MadeInv, NamesOf, Of, TokenInv, Early, FindInv, NetView
<1>. QED
  BY <1>1, <1>2

(* At first there is nothing but the user's resources.                     *)
LEMMA UniqueInit == Init => UniqueInv
<1>. SUFFICES ASSUME Init PROVE UniqueInv
  OBVIOUS
<1>1. PICK p, cs, b : net = NewNetwork(p, cs, b)
  BY DEF Init
<1>2. /\ \A k \in Kinds : net.res[k] = NoStatus /\ got[k].id = NoId
      /\ seen.net = net /\ obj = NoNetwork /\ alive = made /\ made = UserIds
  BY <1>1 DEF Init, NewNetwork, NothingGot, NoResource
<1>3. MadeInv
  BY <1>2, NothingNamed DEF MadeInv, NamesOf, Of
<1>4. \A b1 : NoName # managedName(b1) /\ UserName # managedName(b1)
  BY DEF NoName, UserName, managedName
<1>5. TokenInv
  BY <1>4 DEF Init, TokenInv
<1>6. FindInv
  BY <1>2, OriginFacts DEF FindInv
<1>. QED
  BY <1>3, <1>5, <1>6 DEF UniqueInv

(* All is where it should be in every state.                               *)
LEMMA WholeHolds == ASSUME Undisturbed PROVE Spec => []Whole
<1>0. PolicyEdits \subseteq AbandonOnly
  BY DEF Undisturbed
<1>1. Init => UniqueInv
  BY UniqueInit
<1>2. Sound /\ UniqueInv /\ [Next]_vars => UniqueInv'
  BY UniqueNext
<1>3. Spec => []Sound
  BY <1>0, SoundHolds
<1>4. Sound /\ UniqueInv => Whole
  BY DEF Whole
<1>. QED
  BY <1>1, <1>2, <1>3, <1>4, PTL DEF Spec

(* A resource the controller created is never lost sight of while the      *)
(* object lives, however old the copies are that passes start from,        *)
(* whichever call fails and wherever the controller is restarted: either   *)
(* the status names it, or it names none of its kind and the next pass     *)
(* finds it by its name, a subnet in the VPC that the status names         *)
(* (Ensure*, patchStatus).                                                 *)
THEOREM CreatedStaysFindable ==
    ASSUME Undisturbed PROVE Spec => []CreatedIsFindable
<1>1. Whole => CreatedIsFindable
  <2>. SUFFICES ASSUME Whole, net.phase = "live",
                       NEW i \in alive, i.origin = "controller"
                PROVE  \/ net.res[i.kind].id = i
                       \/ /\ net.res[i.kind].id = NoId
                          /\ cname[i] = managedName(net.base)
                          /\ i.kind = "subnet" => parent[i] = net.res["vpc"].id
    BY DEF CreatedIsFindable
  <2>0. TypeOK /\ CopiesInv /\ MadeInv /\ (Early => FindInv)
    BY DEF Whole, Sound, UniqueInv
  <2>1. Early
    BY <2>0 DEF CopiesInv, Older, Early, NetView
  <2>2. i \in made /\ i.kind \in Kinds /\ i \notin UserIds
    BY <2>0, OriginFacts DEF MadeInv, TypeOK
  <2>3. i = TheId(born, i.kind)
    BY <2>0, <2>2 DEF MadeInv
  <2>4. net.res[i.kind].id \in {NoId, i}
    BY <2>0, <2>2, <2>3 DEF MadeInv, NamesOf, Of
  <2>. QED
    BY <2>0, <2>1, <2>2, <2>4 DEF FindInv
<1>. QED
  BY <1>1, WholeHolds, PTL

-----------------------------------------------------------------------------
(* What was recorded                                                       *)

(* The history of recorded ids, and what is left of it: the object names   *)
(* every recorded resource that exists, and has had its finalizer since    *)
(* the first was recorded.                                                 *)
OwnedInv ==
    /\ ManagedIds(net) \subseteq owned /\ owned \subseteq made
    /\ RecordedStaysNamed
    /\ pc = "forget" => obj.res[kind].id \notin alive
    /\ owned # {} => net.fin \/ net.phase = "absent"

(* The ids a status marks as managed are among those it names.             *)
LEMMA ManagedNamed ==
    ASSUME NEW n, NEW S, \A k \in Kinds : n.res[k].id \in S \cup {NoId}
    PROVE  ManagedIds(n) \subseteq S
BY DEF ManagedIds

(* A version that names at least what another does, with the right marks,  *)
(* marks at least what the other does.                                     *)
LEMMA ManagedGrows ==
    ASSUME NEW n, NEW m, NEW S, Shape(n), Shape(m),
           \A k \in Kinds : n.res[k].id \in S => m.res[k].id = n.res[k].id
    PROVE  ManagedIds(n) \cap S \subseteq ManagedIds(m)
<1>. SUFFICES ASSUME NEW k \in Kinds, n.res[k].managed, n.res[k].id \in S,
                     n.res[k].id # NoId
              PROVE  n.res[k].id \in ManagedIds(m)
  BY DEF ManagedIds
<1>1. ShapeOK(born, n.res[k], k) /\ ShapeOK(born, m.res[k], k)
  BY DEF Shape
<1>2. m.res[k].managed /\ m.res[k].id = n.res[k].id
  BY <1>1 DEF ShapeOK
<1>. QED
  BY <1>2 DEF ManagedIds

(* A step loses no managed id but one that is gone.                        *)
LEMMA ManagedNext ==
    ASSUME Undisturbed, Whole, OwnedInv, Next
    PROVE  /\ ManagedIds(net) \cap alive' \subseteq ManagedIds(net')
           /\ ManagedIds(net') \subseteq made'
           /\ ManagedIds(net') \subseteq owned \/ pc \in LiveCalls
<1>0. /\ TypeOK /\ ForeignInv /\ PassInv /\ MadeInv /\ CloudStep /\ Shape(net) /\ born' = born
  BY MadeSteps DEF Whole, Sound, UniqueInv, PassInv, ShapeInv
<1>1. Shape(net')
  <2>1. Shape(net)'
    BY <1>0, ShapeNext
  <2>. QED
    BY <1>0, <2>1 DEF Shape
<1>2. ManagedIds(net') \subseteq made'
  <2>1. \A k \in Kinds : net'.res[k].id \in made' \cup {NoId}
    BY NamesNext DEF NamesOf, Of
  <2>. QED
    BY <2>1, ManagedNamed
<1>3. CASE ForgetResource
  <2>1. pc = "forget" /\ alive' = alive /\ kind \in Kinds
    BY <1>0, <1>3 DEF ForgetResource, cloudVars, TypeOK
  <2>2. \A k \in Kinds : \/ net'.res[k].id = net.res[k].id
                         \/ k = kind /\ net'.res[k].id = NoId
    BY <1>0, <1>3, ForgetFields
  <2>3. net.res[kind].id \notin alive
    <3>1. obj.res[kind].id \notin alive /\ obj.res[kind].id # NoId
      BY <1>0, <2>1 DEF OwnedInv, PassInv, CallsInv, TargetInv, Remaining
    <3>2. obj.res[kind].id \in Of(kind) /\ net.res[kind].id \in Of(kind)
      BY <1>0, <2>1 DEF MadeInv, NamesOf
    <3>3. NoId \notin alive
      BY <1>0, IdFacts DEF TypeOK
    <3>. QED
      BY <3>1, <3>2, <3>3 DEF Of
  <2>4. \A k \in Kinds : net.res[k].id \in alive' => net'.res[k].id = net.res[k].id
    BY <2>1, <2>2, <2>3
  <2>5. \A k \in Kinds : net'.res[k].id # NoId => net.res[k].id = net'.res[k].id
    BY <2>2
  <2>6. ManagedIds(net') \subseteq ManagedIds(net)
    <3>1. ManagedIds(net') = ManagedIds(net') \cap (made' \ {NoId})
      BY <1>2 DEF ManagedIds
    <3>2. ManagedIds(net') \cap (made' \ {NoId}) \subseteq ManagedIds(net)
      BY <1>0, <1>1, <2>5, ManagedGrows
    <3>. QED
      BY <3>1, <3>2
  <2>7. ManagedIds(net) \cap alive' \subseteq ManagedIds(net')
    BY <1>0, <1>1, <2>4, ManagedGrows
  <2>. QED
    BY <1>2, <2>6, <2>7 DEF OwnedInv
<1>4. CASE ~ForgetResource
  <2>1. \A k \in Kinds : net.res[k].id \in alive' => net'.res[k].id = net.res[k].id
    <3>. SUFFICES ASSUME NEW k \in Kinds, net.res[k].id \in alive'
                  PROVE  net'.res[k].id = net.res[k].id
      OBVIOUS
    <3>1. TypeOK'
      BY <1>0, TypeNext
    <3>2. net.res[k].id # NoId
      BY <3>1, IdFacts DEF TypeOK
    <3>. QED
      BY <1>4, <3>2, NameKept
  <2>2. ManagedIds(net) \cap alive' \subseteq ManagedIds(net')
    BY <1>0, <1>1, <2>1, ManagedGrows
  <2>3. NamesSame => ManagedIds(net') = ManagedIds(net)
    BY DEF NamesSame, ManagedIds
  <2>4. Record \/ Claim \/ Finish => pc \in LiveCalls
    BY DEF Record, Claim, Finish, LiveCalls, PCs, DeletionCalls
  <2>. QED
    BY <1>0, <1>2, <1>4, <2>2, <2>3, <2>4, ObjectSteps DEF OwnedInv
<1>. QED
  BY <1>3, <1>4

(* The object keeps its finalizer until it goes.                           *)
LEMMA HeldNext ==
    ASSUME TypeOK, CopiesInv, Next, net.fin \/ net.phase = "absent"
    PROVE  net'.fin \/ net'.phase = "absent"
<1>0. net \in Network
  BY DEF TypeOK
<1>1. Release => net'.phase = "absent"
  BY <1>0 DEF Release, Network
<1>2. CASE net.phase = "absent"
  <2>1. StatusOnly => net'.phase = "absent"
    BY <1>2 DEF StatusOnly
  <2>2. AddFinalizer => net'.phase = "absent"
    BY <1>0, <1>2 DEF AddFinalizer, Network
  <2>3. ~Edits /\ ~Marks
    BY <1>2, EditFields DEF Marks
  <2>. QED
    BY <1>1, <2>1, <2>2, <2>3, ObjectSteps
<1>. QED
  BY <1>1, <1>2, FinSteps

(* What is forgotten stays gone.                                           *)
LEMMA ForgetNext ==
    ASSUME Undisturbed, Whole, OwnedInv, Next, pc' = "forget"
    PROVE  obj'.res[kind'].id \notin alive'
<1>0. TypeOK /\ MadeInv /\ CloudStep /\ PassInv /\ kind \in Kinds
  BY MadeSteps DEF Whole, Sound, UniqueInv, TypeOK
<1>1. CASE UNCHANGED passVars
  <2>1. pc = "forget" /\ obj' = obj /\ kind' = kind
    BY <1>1 DEF passVars
  <2>2. obj.res[kind].id \in made
    <3>1. obj.res[kind].id # NoId
      BY <1>0, <2>1 DEF PassInv, CallsInv, TargetInv, Remaining
    <3>. QED
      BY <1>0, <3>1 DEF MadeInv, NamesOf, Of
  <2>. QED
    BY <1>0, <2>1, <2>2 DEF OwnedInv, CloudStep
<1>2. CASE DeleteResource
  <2>1. ~Return
    BY DEF Return
  <2>. DEFINE i == obj.res[kind].id
  <2>2. /\ UNCHANGED <<kind, obj>>
        /\ (i \notin alive /\ UNCHANGED cloudVars) \/ Gone(i)
    BY <1>2, <2>1 DEF DeleteResource
  <2>. QED
    BY <2>2 DEF Gone, cloudVars
<1>3. ~Return /\ ~Begin /\ ~PassGoesOn
  BY DEF Return, Begin, FirstCall, PassGoesOn, LiveCalls, DeletionCalls
<1>4. DeletionGoesOn => UNCHANGED passVars \/ DeleteResource
  <2>1. ~Fail
    BY <1>3 DEF Fail
  <2>2. CASE \/ Begin \/ AddFinalizer \/ ClusterNotFound \/ AddOwner \/ ClusterFound
             \/ ClusterBound \/ DeleteOrphan \/ Authorize \/ Refuse
    BY <2>2 DEF DeletionGoesOn, DeletionCalls, Begin, AddFinalizer, ClusterNotFound,
       AddOwner, ClusterFound, ClusterBound, DeleteOrphan, Authorize, Refuse
  <2>3. CASE \/ OwnershipToken \/ EnsureKnown \/ EnsureFound \/ EnsureCreated
             \/ Record \/ EnsureRules \/ EnsureRulesFails
             \/ Finish \/ Observe \/ Adopt \/ Claim
    BY <2>3 DEF DeletionGoesOn, DeletionCalls, OwnershipToken, EnsureKnown,
       EnsureFound, EnsureCreated, Record, EnsureRules, EnsureRulesFails, Finish,
       Observe, Adopt, Claim
  <2>4. ~(Wait \/ Drained \/ Verify \/ ForgetResource \/ Release \/ CallFails \/ Crash)
    BY <1>3, <2>1 DEF Wait, Drained, Verify, ForgetResource, Release, CallFails, Crash
  <2>5. EditPolicy \/ EditCIDRs \/ EditName \/ UserDelete \/ GarbageCollect
            => UNCHANGED passVars
    BY DEF EditPolicy, EditCIDRs, EditName, Edit, UserDelete, GarbageCollect
  <2>. QED
    BY <2>2, <2>3, <2>4, <2>5, StepGroups, QuietSame
<1>. QED
  BY <1>0, <1>1, <1>2, <1>3, <1>4, PassSteps

(* Every step keeps what was recorded named.                               *)
LEMMA OwnedNext ==
    ASSUME Undisturbed PROVE Whole /\ OwnedInv /\ [Next]_vars => OwnedInv'
<1>1. ASSUME Whole, OwnedInv, Next PROVE OwnedInv'
  <2>0. TypeOK /\ CopiesInv /\ CloudStep /\ owned' = owned \cup ManagedIds(net')
    BY <1>1, MadeSteps DEF Whole, Sound, Next, History
  <2>1. /\ ManagedIds(net) \cap alive' \subseteq ManagedIds(net')
        /\ ManagedIds(net') \subseteq made'
        /\ ManagedIds(net') \subseteq owned \/ pc \in LiveCalls
    BY <1>1, ManagedNext
  <2>2. ManagedIds(net') \subseteq owned' /\ owned' \subseteq made'
    BY <1>1, <2>0, <2>1 DEF OwnedInv, CloudStep
  <2>3. RecordedStaysNamed'
    <3>1. owned \cap alive' \subseteq ManagedIds(net)
      BY <1>1, <2>0 DEF OwnedInv, CloudStep, RecordedStaysNamed
    <3>. QED
      BY <2>0, <2>1, <3>1 DEF RecordedStaysNamed
  <2>4. owned' # {} => net'.fin \/ net'.phase = "absent"
    <3>1. owned' # {} => net.fin \/ net.phase = "absent"
      BY <1>1, <2>0, <2>1 DEF OwnedInv, CopiesInv
    <3>. QED
      BY <1>1, <2>0, <3>1, HeldNext
  <2>. QED
    BY <1>1, <2>2, <2>3, <2>4, ForgetNext DEF OwnedInv
<1>2. ASSUME OwnedInv, UNCHANGED vars PROVE OwnedInv'
  BY <1>2 DEF vars, OwnedInv, ManagedIds, RecordedStaysNamed
<1>. QED
  BY <1>1, <1>2

(* The history starts empty...                                             *)
LEMMA OwnedInit == Init => OwnedInv
<1>. SUFFICES ASSUME Init PROVE OwnedInv
  OBVIOUS
<1>1. PICK p, cs, b : net = NewNetwork(p, cs, b)
  BY DEF Init
<1>2. /\ \A k \in Kinds : net.res[k] = NoStatus
      /\ pc = "idle" /\ owned = {}
  BY <1>1 DEF Init, NewNetwork
<1>3. ManagedIds(net) = {}
  BY <1>2 DEF ManagedIds, NoStatus
<1>. QED
  BY <1>2, <1>3 DEF OwnedInv, RecordedStaysNamed

(* ... and is what it should be in every state.                            *)
LEMMA OwnedHolds == ASSUME Undisturbed PROVE Spec => [](Whole /\ OwnedInv)
<1>1. Init => OwnedInv
  BY OwnedInit
<1>2. Whole /\ OwnedInv /\ [Next]_vars => OwnedInv'
  BY OwnedNext
<1>3. Spec => []Whole
  BY WholeHolds
<1>. QED
  BY <1>1, <1>2, <1>3, PTL DEF Spec

(* The object never loses sight of what it once recorded, however old the  *)
(* copies are that passes patch it from: a recorded resource that exists   *)
(* is named and marked managed, by a merge of two versions too             *)
(* (patchStatus, the patches of reconcileDelete).                          *)
THEOREM RecordedIsKept == ASSUME Undisturbed PROVE Spec => []RecordedStaysNamed
<1>1. OwnedInv => RecordedStaysNamed
  BY DEF OwnedInv
<1>. QED
  BY <1>1, OwnedHolds, PTL

(* The pass that takes the finalizer away decides on the object's names.   *)
ReleaseIsFresh == pc = "release" => obj.res = net.res

(* An object that a step takes away has nothing left.                      *)
LEMMA LeakNext ==
    ASSUME Undisturbed, Whole, OwnedInv, ReleaseIsFresh, RecordedNotLeaked, Next
    PROVE  RecordedNotLeaked'
<1>0. /\ TypeOK /\ CopiesInv /\ PassInv /\ CloudStep /\ net \in Network
      /\ owned' = owned \cup ManagedIds(net')
      /\ ManagedIds(net') \subseteq owned \/ pc \in LiveCalls
  BY MadeSteps, ManagedNext DEF Whole, Sound, Next, History, TypeOK
<1>1. owned \cap alive' \subseteq owned \cap alive
  BY <1>0 DEF OwnedInv, CloudStep
<1>2. ASSUME net.phase = "absent", net.policy # "Abandon" PROVE owned' \cap alive' = {}
  BY <1>0, <1>1, <1>2 DEF CopiesInv, RecordedNotLeaked
<1>3. CASE StatusOnly \/ AddFinalizer
  <2>1. net'.phase = net.phase /\ net'.policy = net.policy
    BY <1>0, <1>3 DEF StatusOnly, SameSpec, AddFinalizer, Network
  <2>. QED
    BY <1>2, <2>1 DEF RecordedNotLeaked
<1>4. CASE Edits
  BY <1>0, <1>4, EditFields DEF RecordedNotLeaked
<1>5. CASE Marks
  BY <1>0, <1>1, <1>5, DeletedFields DEF Marks, OwnedInv, RecordedNotLeaked, SameStatus,
     CopiesInv, ManagedIds
<1>6. CASE Release
  <2>1. net'.policy = net.policy /\ net'.res = net.res /\ pc = "release"
    BY <1>0, <1>6 DEF Release, Network
  <2>2. obj.policy = "Abandon" \/ Remaining(obj) = {}
    BY <1>0, <2>1 DEF PassInv, CallsInv, TargetInv
  <2>3. obj.policy = "Abandon" => net.policy = "Abandon"
    BY <1>0, <2>1 DEF PassInv, PolicyInv
  <2>4. Remaining(obj) = {} => ManagedIds(net) = {}
    BY <2>1 DEF ReleaseIsFresh, Remaining, ManagedIds
  <2>5. ManagedIds(net') = ManagedIds(net)
    BY <2>1 DEF ManagedIds
  <2>. QED
    BY <1>0, <1>1, <2>1, <2>2, <2>3, <2>4, <2>5
       DEF RecordedNotLeaked, OwnedInv, RecordedStaysNamed
<1>. QED
  BY <1>0, <1>3, <1>4, <1>5, <1>6, ObjectSteps

(* The object goes only after everything its status ever recorded as       *)
(* controller-managed is gone from the cloud, unless the user chose        *)
(* Abandon: whatever call fails, wherever the controller is restarted and  *)
(* however old the copies of the passes before were.  It needs that the    *)
(* names of the copy which the last pass starts from, and on which it      *)
(* removes the finalizer, are current: the code reads them from a cache    *)
(* and patches without a version (reconcileDelete, removeFinalizer).       *)
THEOREM NothingRecordedLeaks ==
    ASSUME Undisturbed PROVE Spec /\ []ReleaseIsFresh => []RecordedNotLeaked
<1>1. Init => RecordedNotLeaked
  BY DEF Init, RecordedNotLeaked
<1>2. Whole /\ OwnedInv /\ ReleaseIsFresh /\ RecordedNotLeaked /\ [Next]_vars
        => RecordedNotLeaked'
  <2>1. ASSUME RecordedNotLeaked, UNCHANGED vars PROVE RecordedNotLeaked'
    BY <2>1 DEF vars, RecordedNotLeaked
  <2>. QED
    BY <2>1, LeakNext
<1>3. Spec => [](Whole /\ OwnedInv)
  BY OwnedHolds
<1>. QED
  BY <1>1, <1>2, <1>3, PTL DEF Spec

-----------------------------------------------------------------------------
(* The order of deletion                                                   *)

(* Only the call to the cloud leads from delete to forget.                 *)
LEMMA DeleteCall ==
    ASSUME Next, pc = "delete", pc' = "forget" PROVE DeleteResource
<1>1. CASE Return
  BY <1>1 DEF Return
<1>2. CASE UNCHANGED pc
  BY <1>2
<1>3. CASE QuietStep
  BY <1>2, <1>3, QuietSame DEF passVars
<1>4. CASE \/ EditPolicy \/ EditCIDRs \/ EditName \/ UserDelete \/ GarbageCollect
  BY <1>2, <1>4 DEF EditPolicy, EditCIDRs, EditName, Edit, UserDelete,
     GarbageCollect, passVars
<1>5. CASE CallFails \/ Crash
  BY <1>1, <1>5 DEF CallFails, Crash, Fail
<1>6. ~(\/ Begin \/ AddFinalizer \/ ClusterNotFound \/ AddOwner \/ ClusterFound
        \/ ClusterBound \/ DeleteOrphan \/ Authorize \/ Refuse)
  BY DEF Begin, AddFinalizer, ClusterNotFound, AddOwner, ClusterFound,
     ClusterBound, DeleteOrphan, Authorize, Refuse
<1>7. ~(\/ OwnershipToken \/ EnsureKnown \/ EnsureFound \/ EnsureCreated
        \/ Record \/ EnsureRules \/ EnsureRulesFails
        \/ Finish \/ Observe \/ Adopt \/ Claim)
  BY DEF OwnershipToken, EnsureKnown, EnsureFound, EnsureCreated,
     Record, EnsureRules, EnsureRulesFails, Finish, Observe, Adopt, Claim
<1>8. ~(\/ Wait \/ Drained \/ Verify \/ ForgetResource \/ Release)
  BY DEF Wait, Drained, Verify, ForgetResource, Release
<1>. QED
  BY <1>3, <1>4, <1>5, <1>6, <1>7, <1>8, StepGroups

(* The pass that deletes a resource decides on the object's names.         *)
DeleteIsFresh == pc = "delete" => obj.res = net.res

(* Security group before subnet before VPC: when the controller deletes a  *)
(* resource, no resource it ever recorded that uses one of that kind is    *)
(* left in the cloud (reconcileDelete).  It needs that the names of the    *)
(* copy which this pass starts from are current; the copies of all passes  *)
(* before may be as old as they like.                                      *)
THEOREM DeletionInOrder ==
    ASSUME Undisturbed PROVE Spec /\ []DeleteIsFresh => DeletesInOrder
<1>. DEFINE InOrder ==
        pc = "delete" /\ pc' = "forget" =>
            \A i \in alive \ alive' : \A j \in owned \cap alive :
                j.kind \notin Uses(i.kind)
<1>1. ASSUME Whole, OwnedInv, DeleteIsFresh, Next PROVE InOrder
  <2>. SUFFICES ASSUME pc = "delete", pc' = "forget",
                       NEW i \in alive \ alive', NEW j \in owned \cap alive
                PROVE  j.kind \notin Uses(i.kind)
    OBVIOUS
  <2>1. DeleteResource
    BY <1>1, DeleteCall
  <2>2. i = obj.res[kind].id
    BY <2>1 DEF DeleteResource, Gone, cloudVars
  <2>3. /\ obj.res = net.res /\ kind = Target(obj)
        /\ kind \in Remaining(obj) /\ \A k \in Kinds : ShapeOK(born, obj.res[k], k)
    BY <1>1 DEF Whole, Sound, PassInv, CallsInv, TargetInv, ShapeInv, Shape, DeleteIsFresh
  <2>4. i.kind = kind
    BY <2>2, <2>3 DEF Remaining, ShapeOK
  <2>5. j \in ManagedIds(net)
    BY <1>1, <2>3 DEF OwnedInv, RecordedStaysNamed
  <2>6. j.kind \in Remaining(obj)
    BY <2>3, <2>5 DEF ManagedIds, Remaining, ShapeOK
  <2>. QED
    BY <2>3, <2>4, <2>6, TargetFirst
<1>2. Whole /\ OwnedInv /\ DeleteIsFresh /\ [Next]_vars => [InOrder]_vars
  BY <1>1
<1>3. Spec => [](Whole /\ OwnedInv)
  BY OwnedHolds
<1>. QED
  BY <1>2, <1>3, PTL DEF Spec, DeletesInOrder

=============================================================================
