---------------------------- MODULE MCPhaseChain ----------------------------
(* PhaseChain with the symmetry of its model values. *)
EXTENDS PhaseChain, TLC

Symmetry == Permutations(Candidate) \cup Permutations(Instance) \cup Permutations(Severity)
=============================================================================
