-------------------------- MODULE NetworkLifecycle ---------------------------
(* The network reconciler implements Lifecycle: seen from the object alone *)
(* its passes, and all that happens between them, are steps of a life.     *)
EXTENDS NetworkReconciler

(* What others read of the object.                                         *)
Object ==
    [phase |-> net.phase, gen |-> net.gen, og |-> net.og, ready |-> net.ready,
     ids |-> [k \in Kinds |-> net.res[k].id], mine |-> Remaining(net),
     abandoned |-> net.policy = "Abandon"]

Life == INSTANCE Lifecycle WITH o <- Object, Users <- [k \in Kinds |-> Uses(k)]

(* Refinement: whatever fails, restarts or is edited to Abandon between    *)
(* two calls of a pass, the status keeps what it named until the object is *)
(* deleted, becomes Ready only with every id and never for a generation    *)
(* ahead of the spec, gives up its resources in order, and the object is   *)
(* released only when it owns nothing (Reconcile, patchStatus,             *)
(* reconcileDelete).  It holds when the object is read fresh.              *)
ImplementsLifecycle == Life!Spec

(* Refinement, when passes start from copies of the object of any age:     *)
(* what the status names it keeps until the object is deleted, Ready on a  *)
(* live object and a newly observed generation mean that all is named, the *)
(* generation is never ahead of the spec, and deletion is not taken back   *)
(* (Reconcile, the merge patches of patchStatus, setCondition).            *)
KeepsPromises == Life!LaggedSpec

=============================================================================
