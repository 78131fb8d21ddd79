----------------------------- MODULE MCBootstrap -----------------------------
(* Constants of the model-checking run of Bootstrap.                       *)
EXTENDS Bootstrap

UsersOfKinds == [k \in Kinds |-> IF k = "vpc" THEN {"sg"} ELSE {}]
=============================================================================
