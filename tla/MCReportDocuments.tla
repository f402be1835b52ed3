-------------------------- MODULE MCReportDocuments --------------------------
(* Two ids of surfaces have one slug, one has none, and one has too long a slug;  *)
(* one place of a writeup is too long.                                           *)
EXTENDS ReportDocuments, TLC

MCSlug == [id \in SurfaceId |->
    CASE id \in {"api", "API"} -> "api" [] id = "long" -> "long" [] OTHER -> NoSlug]

Symmetry == Permutations(Instance) \cup Permutations(Path \ TooLong) \cup Permutations(Identity)
=============================================================================
