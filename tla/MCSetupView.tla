---------------------------- MODULE MCSetupView ----------------------------
(* Instances of SetupView for TLC: every scan lies in the folder f1. *)
EXTENDS SetupView

CONSTANTS s1, f1

HomeOf == [s \in Scan |-> f1]
=============================================================================
