--------------------------- MODULE MCDeepDiscovery ---------------------------
(* DeepDiscovery with the symmetry of its model values. *)
EXTENDS DeepDiscovery, TLC

Symmetry == Permutations(Slot) \cup Permutations(Agent)
    \cup Permutations(Candidate) \cup Permutations(Canonical)
=============================================================================
