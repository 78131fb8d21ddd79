------------------------- MODULE MCNetworkReconciler -------------------------
(* Constants of the model-checking runs of NetworkReconciler.              *)
EXTENDS NetworkLifecycle

NoEdits      == {}
AbandonEdits == {<<p, "Abandon">> : p \in Policies \ {"Abandon"}}
HybridEdits  == {<<"Observe", "Hybrid">>}
=============================================================================
