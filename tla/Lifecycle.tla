------------------------------ MODULE Lifecycle ------------------------------
(***************************************************************************)
(* What a TCloudClusterNetwork object promises to those who read it: its   *)
(* life from creation to release, the resources its status names, and when *)
(* it may be Ready.  The network reconciler implements this specification  *)
(* (module NetworkLifecycle); the bootstrap reconciler is checked on top   *)
(* of it (module Bootstrap).                                               *)
(***************************************************************************)
EXTENDS Integers

CONSTANTS
    Kinds,   \* the kinds of resource a network consists of
    Ids,     \* cloud identifiers
    NoId,    \* the empty identifier, not in Ids
    Users    \* for each kind, the kinds of resource that use it

VARIABLE o   \* the object

NetworkObject ==
    [phase : {"live", "deleting", "absent"}, gen : Nat, og : Nat,
     ready : BOOLEAN, ids : [Kinds -> Ids \cup {NoId}], mine : SUBSET Kinds,
     abandoned : BOOLEAN]

(* mine: the kinds recorded as controller-managed; abandoned: the policy   *)
(* is Abandon.                                                             *)
NewObject(a) ==
    [phase |-> "live", gen |-> 1, og |-> 0, ready |-> FALSE,
     ids |-> [k \in Kinds |-> NoId], mine |-> {}, abandoned |-> a]

Known(x)   == {k \in Kinds : x.ids[k] # NoId}
Whole(x)   == Known(x) = Kinds
Extends(new, old) == \A k \in Kinds : old[k] # NoId => new[k] = old[k]

Init == \E a \in BOOLEAN : o = NewObject(a)

(* The user edits the spec; Abandon is for good.                           *)
Edit(a) ==
    /\ o.phase # "absent"
    /\ o.abandoned => a
    /\ o' = [o EXCEPT !.gen = @ + 1, !.abandoned = a]

(* The status names more resources.  What it named stays, and what becomes *)
(* the controller's own was not named before.                              *)
Learns(ids, mine) ==
    /\ Extends(ids, o.ids)
    /\ o.mine \subseteq mine
    /\ \A k \in mine \ o.mine : o.ids[k] = NoId /\ ids[k] # NoId

Learn(ids, mine) ==
    /\ o.phase # "absent"
    /\ Learns(ids, mine)
    /\ o' = [o EXCEPT !.ids = ids, !.mine = mine]

(* Ready for a generation that was observed, with all resources named.  A  *)
(* pass that was under way when the object was deleted may still say so.   *)
Publish(ids, mine, g) ==
    /\ o.phase # "absent"
    /\ Learns(ids, mine)
    /\ \A k \in Kinds : ids[k] # NoId
    /\ g \in o.og..o.gen
    /\ o' = [o EXCEPT !.ids = ids, !.mine = mine, !.og = g, !.ready = TRUE]

Degrade ==
    /\ o.phase # "absent"
    /\ o' = [o EXCEPT !.ready = FALSE]

(* An object that names nothing may go at once.                            *)
Delete ==
    /\ o.phase = "live"
    /\ \/ o' = [o EXCEPT !.phase = "deleting", !.gen = @ + 1]
       \/ Known(o) = {} /\ o' = [o EXCEPT !.phase = "absent"]

(* One resource of the controller's own is gone, users before used.        *)
Forget(k) ==
    /\ o.phase = "deleting"
    /\ k \in o.mine
    /\ Users[k] \cap o.mine = {}
    /\ o' = [o EXCEPT !.ids[k] = NoId, !.mine = @ \ {k}]

(* The object goes when nothing of the controller's own is left.           *)
Release ==
    /\ o.phase = "deleting"
    /\ o.mine = {} \/ o.abandoned
    /\ o' = [o EXCEPT !.phase = "absent"]

Next ==
    \/ Edit(o'.abandoned) \/ Learn(o'.ids, o'.mine)
    \/ Publish(o'.ids, o'.mine, o'.og) \/ Degrade \/ Delete
    \/ (\E k \in Kinds : Forget(k)) \/ Release

Spec == Init /\ [][Next]_o

-----------------------------------------------------------------------------
(* What is left of these promises when the object is written from copies   *)
(* of any age: Ready and the observed generation may be repeated after     *)
(* they were taken back, resources are given up in any order, and the      *)
(* object may go with some of its own left.  What is named stays named     *)
(* until the deletion, Ready on a live object and a newly observed         *)
(* generation still mean that everything is named, and neither the         *)
(* deletion nor Abandon is taken back.                                     *)

Patch(ids, mine, g, r) ==
    /\ o.phase # "absent"
    /\ Learns(ids, mine)
    /\ g =< o.gen
    /\ g # o.og \/ (r /\ o.phase = "live") => \A k \in Kinds : ids[k] # NoId
    /\ o' = [o EXCEPT !.ids = ids, !.mine = mine, !.og = g, !.ready = r]

GiveUp(k) ==
    /\ o.phase = "deleting"
    /\ k \in o.mine
    /\ o' = [o EXCEPT !.ids[k] = NoId, !.mine = @ \ {k}]

Go ==
    /\ o.phase = "deleting"
    /\ o' = [o EXCEPT !.phase = "absent"]

LaggedNext ==
    \/ UNCHANGED o
    \/ Patch(o'.ids, o'.mine, o'.og, o'.ready) \/ Edit(o'.abandoned) \/ Delete
    \/ (\E k \in Kinds : GiveUp(k)) \/ Go

LaggedSpec == Init /\ [][LaggedNext]_o

=============================================================================
