------------------------------ MODULE MCLabels ------------------------------
(* Instances of Labels for TLC. *)
EXTENDS Labels

Symmetric == Permutations(Objects)
=============================================================================
