---------------------------- MODULE SealedResult ----------------------------
(***************************************************************************)
(* What one scan promises about its result, without files, locks, crashes  *)
(* or processes: the result is sealed at most once, only a sealed result   *)
(* is published, only an unsealed scan may be given up, and what is sealed *)
(* is what is published.  ScanCompletion implements this specification.    *)
(***************************************************************************)

CONSTANTS
    Result,     \* the results a scan may be sealed with
    None        \* "no result yet"

VARIABLES
    outcome,    \* "open", "sealed", "published" or "terminated"
    result      \* the sealed result, None before the seal

absVars == <<outcome, result>>

AbsInit == outcome = "open" /\ result = None

Seal ==
    /\ outcome = "open"
    /\ outcome' = "sealed"
    /\ result' \in Result

Publish ==
    /\ outcome = "sealed"
    /\ outcome' = "published"
    /\ UNCHANGED result

Terminate ==
    /\ outcome = "open"
    /\ outcome' = "terminated"
    /\ UNCHANGED result

AbsNext == Seal \/ Publish \/ Terminate

AbsSafety == AbsInit /\ [][AbsNext]_absVars

\* A sealed result is eventually published.
AbsSpec == AbsSafety /\ WF_absVars(Publish)
=============================================================================
