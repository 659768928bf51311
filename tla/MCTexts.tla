------------------------------ MODULE MCTexts ------------------------------
(* Model-checking instance of ReplicaTexts. *)
EXTENDS ReplicaTexts
=============================================================================
