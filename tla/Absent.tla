------------------------------- MODULE Absent -------------------------------
(***************************************************************************)
(* The value of what is not there: a column that is NULL, a file that does  *)
(* not exist, a call that is not under way.  Modules whose theorems are      *)
(* stated together share it.                                                *)
(***************************************************************************)
CONSTANT None
=============================================================================
