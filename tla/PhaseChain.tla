------------------------------ MODULE PhaseChain ------------------------------
(***************************************************************************)
(* The analysis phases of a scan, from preflight to reporting.  Each phase  *)
(* has one artifact, which may be rewritten until the phase is left and     *)
(* never after; what a later phase writes must cover what an earlier one    *)
(* found: validation every candidate, the attack path every validated       *)
(* instance, and the canonical result every reportable instance.  When a    *)
(* diff or deep scan finds no candidate, validation and attack path are     *)
(* skipped.  Nothing ever returns to an earlier phase, so what is missing   *)
(* at the end can never be added.                                           *)
(*                                                                          *)
(* Abstractions.  Every call is one step: it holds the scan lock, and the    *)
(* chat owns the scan (ScanCompletion models both).  The rounds of a deep    *)
(* scan are those of DeepDiscovery; here they are the single write of an     *)
(* immutable discovery artifact, which its threat model follows.  Text is    *)
(* left out; an instance is a member of Instance.  None is an absent artifact  *)
(* and the verdict "not reportable".                                        *)
(***************************************************************************)
EXTENDS Naturals, Absent

CONSTANTS
    Candidate,      \* candidate ids
    Instance,       \* instance ids a candidate may have
    Severity,       \* reportable severities
    MaxItems,       \* bound on reviewItemsTotal
    MaxPass         \* bound on deepReviewPass

Mode == {"standard", "diff", "deep"}
Phases == <<"preflight", "threat_model", "discovery", "validation", "attack_path", "reporting">>
Phase == {Phases[i] : i \in 1..6}
Pair == Candidate \X Instance

\* A validation gives the instances of each candidate it covers, an attack path
\* a verdict for each instance, and a canonical result lists findings for
\* instances, informational ones with the severity None.
Validation == UNION {[C -> (SUBSET Instance) \ {{}}] : C \in SUBSET Candidate}
Verdicts == UNION {[P -> Severity \cup {None}] : P \in SUBSET Pair}

ASSUME ChainBoundAssumption == MaxItems \in Nat /\ MaxPass \in Nat
ASSUME ChainNoneAssumption ==
    /\ None \notin Severity
    /\ \A C \in SUBSET Candidate : None # C
    /\ None \notin Validation \cup Verdicts
    /\ None \notin {"ready", "blocked"}

VARIABLES
    mode, phase,    \* of the scan row
    total, done,    \* review_items_total, review_items_completed
    pass,           \* deep_review_pass (0: none yet)
    brief,          \* the status of the brief
    threatModel,    \* whether threat-model exists
    discovery,      \* the candidates of discovery
    validation,     \* the instances validation found for each candidate
    attackPath,     \* the verdict of attack-path on each instance
    canonical       \* the findings of canonical-result

progress == <<total, done, pass>>
chainVars == <<mode, phase, total, done, pass, brief, threatModel, discovery, validation,
          attackPath, canonical>>

ChainInit ==
    /\ mode \in Mode
    /\ phase = "preflight"
    /\ total = 0 /\ done = 0 /\ pass = 0
    /\ brief = None
    /\ threatModel = FALSE
    /\ discovery = None /\ validation = None /\ attackPath = None /\ canonical = None

-----------------------------------------------------------------------------
(* The bindings between artifacts. *)

\* The instances of a validation.
Validated(v) == {p \in Pair : p[1] \in DOMAIN v /\ p[2] \in v[p[1]]}

CoversSomeCandidates(v) == discovery # None /\ DOMAIN v \subseteq discovery
CoversCandidates(v) == discovery # None /\ DOMAIN v = discovery
CoversInstances(a) == validation # None /\ DOMAIN a = Validated(validation)

\* The findings of a result that count as reportable are exactly the reportable
\* instances with their severity, and all others are of other instances.
MatchesVerdicts(c) ==
    \/ discovery = {} /\ DOMAIN c = {}
    \/ /\ discovery \notin {None, {}}
       /\ attackPath # None
       /\ \A p \in Pair :
            /\ p \in DOMAIN attackPath /\ attackPath[p] # None => p \in DOMAIN c
            /\ p \in DOMAIN c => p \in DOMAIN attackPath /\ attackPath[p] = c[p]

\* Whether validation and attack path are skipped.
SkipsInEveryMode == discovery = {}
SkipsTail == mode \in {"diff", "deep"} /\ discovery = {}

\* Whether closure asks for validation and attack path, decided anew at the end.
TailRequired == ~(mode \in {"diff", "deep"} /\ discovery = {})

-----------------------------------------------------------------------------
(* write_scan_artifact: which artifact is open, and what it must match. *)

AnyEarlierPhase(p) == \E i, j \in 1..6 : i <= j /\ Phases[i] = p /\ Phases[j] = phase
IsOpenFor(p) == phase = p

WriteBrief ==
    /\ IsOpenFor("preflight")
    /\ brief' \in {"ready", "blocked"}
    /\ UNCHANGED <<mode, phase, progress, threatModel, discovery, validation, attackPath, canonical>>

WriteThreatModel ==
    /\ IF mode = "deep" THEN IsOpenFor("discovery") /\ discovery # None ELSE IsOpenFor("threat_model")
    /\ threatModel' = TRUE
    /\ UNCHANGED <<mode, phase, progress, brief, discovery, validation, attackPath, canonical>>

WriteDiscovery ==
    /\ IsOpenFor("discovery")
    /\ mode = "deep" => discovery = None
    /\ discovery' \in SUBSET Candidate
    /\ UNCHANGED <<mode, phase, progress, brief, threatModel, validation, attackPath, canonical>>

WriteValidation ==
    /\ IsOpenFor("validation")
    /\ \E v \in Validation : CoversCandidates(v) /\ validation' = v
    /\ UNCHANGED <<mode, phase, progress, brief, threatModel, discovery, attackPath, canonical>>

WriteAttackPath ==
    /\ IsOpenFor("attack_path")
    /\ \E a \in Verdicts : CoversInstances(a) /\ attackPath' = a
    /\ UNCHANGED <<mode, phase, progress, brief, threatModel, discovery, validation, canonical>>

WriteCanonical ==
    /\ IsOpenFor("reporting")
    /\ \E c \in Verdicts : MatchesVerdicts(c) /\ canonical' = c
    /\ UNCHANGED <<mode, phase, progress, brief, threatModel, discovery, validation, attackPath>>

-----------------------------------------------------------------------------
(* update_scan_progress: counters and phases. *)

\* The phases a scan may go to from the one it is in.
AllowedNext ==
    CASE phase = "preflight" -> {IF mode = "deep" THEN "discovery" ELSE "threat_model"}
      [] phase = "threat_model" -> {"discovery"}
      [] phase = "discovery" -> {IF SkipsTail THEN "reporting" ELSE "validation"}
      [] phase = "validation" -> {"attack_path"}
      [] phase = "attack_path" -> {"reporting"}
      [] OTHER -> {}

\* The artifact of the phase is there and matches.
MayExit ==
    CASE phase = "preflight" -> brief = "ready"
      [] phase = "threat_model" -> threatModel
      [] phase = "discovery" ->
            discovery # None /\ (mode = "deep" => threatModel) /\ done = total
      [] phase = "validation" -> validation # None /\ CoversCandidates(validation)
      [] phase = "attack_path" -> attackPath # None /\ CoversInstances(attackPath)
      [] OTHER -> FALSE

\* No more items are closed than there are.
ClosableCount == 0..total'

\* Within a phase counters only grow, unless a deep scan begins a new pass.
Progress ==
    /\ total' \in 0..MaxItems
    /\ done' \in ClosableCount
    /\ pass' \in pass..(IF mode = "deep" /\ phase = "discovery" THEN MaxPass ELSE pass)
    /\ pass' > pass \/ (total' >= total /\ done' >= done)
    /\ UNCHANGED <<mode, phase, brief, threatModel, discovery, validation, attackPath, canonical>>

\* A phase begins with the counters the call asks for; a deep scan may open a
\* pass with the call that enters discovery.
Advance ==
    /\ MayExit
    /\ phase' \in AllowedNext
    /\ total' \in 0..MaxItems
    /\ done' \in ClosableCount
    /\ pass' \in pass..(IF mode = "deep" /\ phase' = "discovery" THEN MaxPass ELSE pass)
    /\ UNCHANGED <<mode, brief, threatModel, discovery, validation, attackPath, canonical>>

ChainNext ==
    \/ WriteBrief
    \/ WriteThreatModel
    \/ WriteDiscovery
    \/ WriteValidation
    \/ WriteAttackPath
    \/ WriteCanonical
    \/ Progress
    \/ Advance

ChainSpec == ChainInit /\ [][ChainNext]_chainVars

-----------------------------------------------------------------------------
\* The type invariant of every variable.
ChainTypeOK ==
    /\ mode \in Mode /\ phase \in Phase
    /\ total \in 0..MaxItems /\ done \in 0..total /\ pass \in 0..MaxPass
    /\ brief \in {None, "ready", "blocked"}
    /\ threatModel \in BOOLEAN
    /\ discovery \in {None} \cup SUBSET Candidate
    /\ validation \in {None} \cup Validation
    /\ attackPath \in {None} \cup Verdicts
    /\ canonical \in {None} \cup Verdicts

\* However often artifacts are rewritten, each one that exists stays bound to the
\* ones before it: a validation, an attack path or a canonical result is never
\* left behind by a newer discovery, validation or attack path.
ChainStaysBound ==
    /\ validation # None => CoversCandidates(validation)
    /\ attackPath # None => CoversInstances(attackPath)
    /\ canonical # None => MatchesVerdicts(canonical)

\* A scan that reports has every artifact that closure will ask for and that can
\* no longer be written: whatever mode it has and whatever phases it skipped, it
\* can be completed.
ReportingCanClose ==
    phase = "reporting" =>
        /\ brief = "ready"
        /\ threatModel
        /\ discovery # None
        /\ TailRequired => validation # None /\ attackPath # None

\* Nothing a worker found is dropped without a verdict: in the canonical result
\* of a scan, every candidate was judged, and a finding stands for a candidate of
\* discovery.
EveryCandidateJudged ==
    canonical # None =>
        /\ \A c \in discovery : \E p \in Pair : p[1] = c /\ p \in DOMAIN attackPath
        /\ \A p \in DOMAIN canonical : p[1] \in discovery
=============================================================================
