--------------------------- MODULE ReportDocuments ---------------------------
(***************************************************************************)
(* The documents of the reporting phase and the report made of them.  The   *)
(* chat writes a canonical result, a coverage, the writeups of the findings *)
(* and a hardening portfolio, each checked against the contract of semantic *)
(* artifacts when it is written and again when the scan is closed.          *)
(* complete_scan then adds what the engine owns, writes the writeups, the   *)
(* portfolio and one receipt for each surface, and checks the documents     *)
(* against another contract, that of a seal, written in another module.     *)
(*                                                                          *)
(* A call that writes or completes holds the lock of the scan to its end;   *)
(* what happens when it dies on the way is the subject of ScanCompletion.   *)
(*                                                                          *)
(* Abstractions.  The earlier artifacts are there and valid.  A finding is  *)
(* where it comes from, how severe it is, where its writeup is and what its *)
(* identity is derived from; the form of its other fields is checked by one *)
(* function at both times.  So are the mode and the paths of a coverage,    *)
(* and the form of a threat model; text that cannot be encoded is refused   *)
(* with the call that writes it.  An instance that is ignored or deferred   *)
(* is unreported; deferred work of a coverage counts as a surface that      *)
(* needs follow-up.                                                         *)
(***************************************************************************)
EXTENDS Naturals, FiniteSets, Sequences, Absent

CONSTANTS
    Instance,       \* instances of candidates
    Path,           \* places of writeups, findings/<slug>/<slug>.md
    Identity,       \* rule, anchor and instance of a finding
    SurfaceId,      \* ids the chat gives to surfaces
    Slug,           \* the part of a receipt's name made of an id
    Reportable,     \* severities that are reported
    TooLong,        \* slugs and places that are too long for the name of a file
    TargetHasName,  \* whether the target is not the root directory
    Disposition,    \* what was found on a surface
    MaxFindings,    \* bound on findings of a document
    MaxSurfaces,    \* bound on surfaces of a document
    MaxRefusals     \* bound on completions refused at the seal

NoSlug == "no slug"
Informational == "informational"
Severity == Reportable \cup {Informational}
Judgement == Reportable \cup {"unreported", "absent"}

ASSUME ConstantAssumption ==
    /\ Informational \notin Reportable
    /\ Reportable \cap {"unreported", "absent"} = {}
    /\ Slug \in [SurfaceId -> STRING]
    /\ TargetHasName \in BOOLEAN
    /\ None \notin Path
    /\ MaxRefusals \in Nat

Finding == [instance : Instance, severity : Severity, writeup : Path \cup {None}, identity : Identity]
Canonical == UNION {{{d[n] : n \in 1..k} : d \in [1..k -> Finding]} : k \in 0..MaxFindings}
Surface == [id : SurfaceId, disposition : Disposition, reviewed : BOOLEAN]
Coverage == [surfaces : UNION {[1..n -> Surface] : n \in 0..MaxSurfaces},
             complete : BOOLEAN]

WriteupFile(p) == <<"writeup", p>>
ReceiptFile(n, slug) == <<"receipt", n, slug>>
HardeningFile == <<"hardening">>

VARIABLES
    judged,         \* what attack-path analysis said of each instance
    canonical, coverage, writeups, hardening,   \* the semantic artifacts
    files,          \* the writeups, receipts and portfolio in the scan directory
    seal,           \* the sealed documents
    report,         \* the findings report.md lists, and the files it links to
    index,          \* the findings in the database
    exports,        \* the findings that results.sarif and findings.csv list
    count,          \* reportable findings, as the progress of the scan says
    outcome,        \* of the last completion, until an artifact is written; a
                    \* manifest is sealed when it is "sealed"
    refusals        \* completions refused at the seal

artifacts == <<canonical, coverage, writeups, hardening>>
results == <<seal, report, index, exports, count>>
vars == <<judged, artifacts, files, results, outcome, refusals>>

Init ==
    /\ judged \in [Instance -> Judgement]
    /\ canonical = None /\ coverage = None /\ writeups = None /\ hardening = FALSE
    /\ files = {}
    /\ seal = None /\ report = None /\ index = {} /\ count = 0
    /\ exports = [e \in {"sarif", "csv"} |-> None]
    /\ outcome = "none"
    /\ refusals = 0

-----------------------------------------------------------------------------
(* The contract of semantic artifacts. *)

IsReportable(f) == f.severity \in Reportable
WrittenUp(findings) == {f \in findings : f.writeup # None}
WriteupPaths(findings) == {f.writeup : f \in WrittenUp(findings)}

DistinctBindings(findings) == \A f, g \in findings : f.instance = g.instance => f = g
AnyIdentities(findings) == TRUE
DistinctIdentities(findings) == \A f, g \in findings : f.identity = g.identity => f = g

CanonicalAccepted(c) ==
    /\ \A f \in c : IsReportable(f) => f.writeup # None
    /\ DistinctBindings(c)
    /\ DistinctIdentities(c)

SameInstances(c) ==
    {f.instance : f \in {g \in c : IsReportable(g)}}
        = {i \in Instance : judged[i] \in Reportable}

\* What attack-path analysis called reportable is found, as severe as it said;
\* and nothing else is, but for the information of what it did not report.
FollowsAttackPath(c) ==
    /\ {<<f.instance, f.severity>> : f \in {g \in c : IsReportable(g)}}
        = {<<i, judged[i]>> : i \in {j \in Instance : judged[j] \in Reportable}}
    /\ \A f \in c : ~IsReportable(f) => judged[f.instance] = "unreported"

DistinctSurfaces(s) == \A m, n \in DOMAIN s : s[m].id = s[n].id => m = n
DistinctSlugs(s) ==
    /\ \A n \in DOMAIN s : Slug[s[n].id] # NoSlug
    /\ \A m, n \in DOMAIN s : Slug[s[m].id] = Slug[s[n].id] => m = n

HasDisposition(s, d) == \E n \in DOMAIN s : s[n].disposition = d

CoverageAccepted(v) ==
    LET s == v.surfaces IN
    /\ s # <<>>
    /\ DistinctSurfaces(s)
    /\ DistinctSlugs(s)
    /\ \A n \in DOMAIN s :
        s[n].disposition \in {"reported", "no_issue_found", "rejected"} => s[n].reviewed
    /\ \/ \E n \in DOMAIN s : s[n].reviewed
       \/ \A n \in DOMAIN s : s[n].disposition = "not_applicable"
    /\ v.complete => ~HasDisposition(s, "needs_follow_up")

AcceptedCanonicals == {c \in Canonical : CanonicalAccepted(c)}
AcceptedCoverages == {v \in Coverage : CoverageAccepted(v)}

IsSealed == outcome = "sealed"
MayWrite == ~IsSealed
MayWriteDerived == MayWrite /\ canonical # None /\ canonical # {}

WriteCanonical(c) ==
    /\ MayWrite
    /\ FollowsAttackPath(c)
    /\ canonical' = c
    /\ outcome' = "none"
    /\ UNCHANGED <<judged, coverage, writeups, hardening, files, results, refusals>>

WriteCoverage(v) ==
    /\ MayWrite
    /\ coverage' = v
    /\ outcome' = "none"
    /\ UNCHANGED <<judged, canonical, writeups, hardening, files, results, refusals>>

\* One output for each place that a finding names.
WriteWriteups(paths) ==
    /\ MayWriteDerived
    /\ paths = WriteupPaths(canonical)
    /\ writeups' = paths
    /\ outcome' = "none"
    /\ UNCHANGED <<judged, canonical, coverage, hardening, files, results, refusals>>

WriteHardening ==
    /\ MayWriteDerived
    /\ hardening' = TRUE
    /\ outcome' = "none"
    /\ UNCHANGED <<judged, canonical, coverage, writeups, files, results, refusals>>

-----------------------------------------------------------------------------
(* The completion. *)

ReportsSome(c) == \E f \in c : IsReportable(f)

ClosureComplete ==
    /\ canonical # None /\ coverage # None
    /\ CanonicalAccepted(canonical) /\ FollowsAttackPath(canonical)
    /\ CoverageAccepted(coverage)
    /\ WrittenUp(canonical) # {} => writeups = WriteupPaths(canonical)
    /\ ReportsSome(canonical) => hardening

Receipts(s) == [n \in DOMAIN s |-> ReceiptFile(n, Slug[s[n].id])]
ReceiptSet(s) == {Receipts(s)[n] : n \in DOMAIN s}

\* What the chat wrote in the place of the engine's own fields is replaced.
Bound ==
    [findings |-> canonical, hardening |-> ReportsSome(canonical),
     surfaces |-> coverage.surfaces, receipts |-> Receipts(coverage.surfaces),
     complete |-> coverage.complete,
     artifacts |-> ReceiptSet(coverage.surfaces)]

Materialized ==
    files \cup {WriteupFile(p) : p \in WriteupPaths(canonical)}
          \cup (IF ReportsSome(canonical) THEN {HardeningFile} ELSE {})
          \cup ReceiptSet(coverage.surfaces)

WriteupsMaterialize(c) == WriteupPaths(c) \cap TooLong = {}
\* No surface is without a name for its receipt, or has that of an earlier one,
\* or one that no file can have.
ReceiptMaterializes(s, n) ==
    Slug[s[n].id] \notin {NoSlug} \cup {Slug[s[m].id] : m \in 1..(n - 1)} \cup TooLong
ReceiptsMaterialize(s) == \A n \in DOMAIN s : ReceiptMaterializes(s, n)

\* What is written before a file is refused: writeups in the order in which the
\* chat listed them, the portfolio, and receipts in the order of the surfaces.
WrittenBefore ==
    IF ~WriteupsMaterialize(canonical)
    THEN SUBSET {WriteupFile(p) : p \in WriteupPaths(canonical) \ TooLong}
    ELSE {{WriteupFile(p) : p \in WriteupPaths(canonical)}
          \cup (IF ReportsSome(canonical) THEN {HardeningFile} ELSE {})
          \cup {Receipts(coverage.surfaces)[m] : m \in
                {k \in DOMAIN coverage.surfaces :
                    \A n \in 1..k : ReceiptMaterializes(coverage.surfaces, n)}}}

-----------------------------------------------------------------------------
(* The contract of a seal. *)

SharesWriteup(findings) ==
    \E f, g \in WrittenUp(findings) : f # g /\ f.writeup = g.writeup

DerivedReferencesSeal(d, disk) ==
    /\ ~SharesWriteup(d.findings)
    /\ {WriteupFile(p) : p \in WriteupPaths(d.findings)} \subseteq disk
    /\ d.hardening => HardeningFile \in disk

CoverageSeals(d, disk) ==
    /\ DistinctSurfaces(d.surfaces)
    /\ \A n \in DOMAIN d.surfaces : d.receipts[n] \in disk
    /\ d.complete => ~HasDisposition(d.surfaces, "needs_follow_up")

FindingsSeal(d) == \A f, g \in d.findings : f.identity = g.identity => f = g

ReceiptsAreSealed(d) == \A n \in DOMAIN d.surfaces : d.receipts[n] \in d.artifacts

SealAccepts(d, disk) ==
    /\ TargetHasName
    /\ FindingsSeal(d)
    /\ CoverageSeals(d, disk)
    /\ DerivedReferencesSeal(d, disk)
    /\ ReceiptsAreSealed(d)

ReportOf(d) ==
    LET listed == {f \in d.findings : IsReportable(f)} IN
    [findings |-> listed,
     links |-> {WriteupFile(f.writeup) : f \in WrittenUp(listed)}
               \cup (IF d.hardening THEN {HardeningFile} ELSE {})
               \cup {d.receipts[n] : n \in DOMAIN d.surfaces}]

\* SARIF and CSV list every finding, also those the report leaves out.
SarifOf(d) == d.findings
CsvOf(d) == d.findings

\* Completion is refused before anything is written.
CompleteTooEarly ==
    /\ ~IsSealed
    /\ ~ClosureComplete
    /\ outcome' = "incomplete"
    /\ UNCHANGED <<judged, artifacts, files, results, refusals>>

\* One of the files cannot be written.
MaterializationRefused ==
    /\ ~IsSealed
    /\ ClosureComplete
    /\ ~(WriteupsMaterialize(canonical) /\ ReceiptsMaterialize(coverage.surfaces))
    /\ refusals < MaxRefusals
    /\ \E written \in WrittenBefore : files' = files \cup written
    /\ outcome' = "refused"
    /\ refusals' = refusals + 1
    /\ UNCHANGED <<judged, artifacts, results>>

\* The documents are written, and then the seal refuses them.
CompleteRefused ==
    /\ ~IsSealed
    /\ ClosureComplete
    /\ WriteupsMaterialize(canonical) /\ ReceiptsMaterialize(coverage.surfaces)
    /\ ~SealAccepts(Bound, Materialized)
    /\ refusals < MaxRefusals
    /\ files' = Materialized
    /\ outcome' = "refused"
    /\ refusals' = refusals + 1
    /\ UNCHANGED <<judged, artifacts, results>>

\* The documents are sealed and published; results.sarif is written if it can.
Complete ==
    /\ ~IsSealed
    /\ ClosureComplete
    /\ WriteupsMaterialize(canonical) /\ ReceiptsMaterialize(coverage.surfaces)
    /\ SealAccepts(Bound, Materialized)
    /\ files' = Materialized
    /\ seal' = Bound
    /\ report' = ReportOf(Bound)
    /\ index' = Bound.findings
    /\ exports' \in {exports, [exports EXCEPT !["sarif"] = SarifOf(Bound)]}
    /\ count' = Cardinality({f \in Bound.findings : IsReportable(f)})
    /\ outcome' = "sealed"
    /\ UNCHANGED <<judged, artifacts, refusals>>

\* A seal is verified, and what it has of findings is written; a CSV is not, if
\* the database has triage of a finding that the seal has not.
Export(e) ==
    /\ IsSealed
    /\ SealAccepts(seal, files)
    /\ e = "csv" => index \subseteq seal.findings
    /\ exports' = [exports EXCEPT ![e] = IF e = "csv" THEN CsvOf(seal) ELSE SarifOf(seal)]
    /\ UNCHANGED <<judged, artifacts, files, seal, report, index, count, outcome, refusals>>

Next ==
    \/ \E c \in AcceptedCanonicals : WriteCanonical(c)
    \/ \E v \in AcceptedCoverages : WriteCoverage(v)
    \/ \E paths \in SUBSET Path : WriteWriteups(paths)
    \/ WriteHardening
    \/ CompleteTooEarly
    \/ MaterializationRefused
    \/ CompleteRefused
    \/ Complete
    \/ \E e \in {"sarif", "csv"} : Export(e)

Spec == Init /\ [][Next]_vars

-----------------------------------------------------------------------------
\* What the contract of semantic artifacts accepts, and the closure finds
\* complete, the contract of a seal accepts, though other code checks it and
\* though artifacts are rewritten in any order before.  Three documents escape:
\* two findings that name one place for their writeups, a place of a writeup or
\* an id of a surface that is too long for the name of a file, and a target
\* without a name.
AcceptedIsSealed ==
    outcome = "refused" =>
        \/ SharesWriteup(canonical)
        \/ WriteupPaths(canonical) \cap TooLong # {}
        \/ \E n \in DOMAIN coverage.surfaces : Slug[coverage.surfaces[n].id] \in TooLong
        \/ ~TargetHasName

\* The report tells what attack-path analysis found: each instance it called
\* reportable once, as severe as it said, each with a writeup of its own that is
\* in the scan directory, as are the receipts and the portfolio the report links
\* to.  The database has as many findings to report, and an export has them all.
ReportIsTrue ==
    IsSealed =>
        LET told == {i \in Instance : judged[i] \in Reportable} IN
        /\ {<<f.instance, f.severity>> : f \in report.findings} = {<<i, judged[i]>> : i \in told}
        /\ \A f, g \in report.findings : f.writeup = g.writeup \/ f.instance = g.instance => f = g
        /\ report.links \subseteq files
        /\ HardeningFile \in report.links <=> told # {}
        /\ report.findings \subseteq index /\ count = Cardinality(told)
        /\ \A e \in DOMAIN exports : exports[e] \in {None, index}

-----------------------------------------------------------------------------
\* The type invariant of the variables that the contracts speak about.
TypeOK ==
    /\ judged \in [Instance -> Judgement]
    /\ canonical \in Canonical \cup {None}
    /\ coverage \in Coverage \cup {None}
    /\ writeups \in (SUBSET Path) \cup {None}
    /\ hardening \in BOOLEAN
    /\ outcome \in {"none", "incomplete", "refused", "sealed"}
    /\ refusals \in 0..MaxRefusals
=============================================================================
