----------------------------- MODULE MCScanStart -----------------------------
(* ScanStart with symmetry for TLC. *)
EXTENDS ScanStart, TLC

Symmetry == Permutations(Process) \cup Permutations(Content)
=============================================================================
