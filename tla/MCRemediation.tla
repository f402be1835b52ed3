--------------------------- MODULE MCRemediation ---------------------------
(* Remediation on small sets of windows, chats and request ids, which are   *)
(* interchangeable.                                                         *)
EXTENDS Remediation, TLC

Symmetry == Permutations(Caller) \cup Permutations(Session) \cup Permutations(Attempt)
=============================================================================
