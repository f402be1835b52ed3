-------------------------- MODULE MCChatAttestation --------------------------
(* A server of an old version and one of a new version. *)
EXTENDS ChatAttestation, TLC

CONSTANTS p, q

Versions == [r \in Server |-> IF r = p THEN 1 ELSE 2]

Symmetry == Permutations(Session) \cup Permutations(Nonce) \cup Permutations(Act)
=============================================================================
