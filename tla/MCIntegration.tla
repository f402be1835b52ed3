---------------------------- MODULE MCIntegration ----------------------------
(* Windows are interchangeable, also as the keys they make. *)
EXTENDS Integration, TLC

Symmetry == Permutations(Window)
=============================================================================
