--------------------------- MODULE ScanCompletion ---------------------------
(***************************************************************************)
(* The life of one scan from its last analysis phase to a published,       *)
(* failed or cancelled result: the scan row of the database, the files of  *)
(* its scan directory, and the chat processes that act on both.            *)
(*                                                                         *)
(* Each chat runs its own server process, which handles one tool call at a *)
(* time.  A call that writes first checks in a read of its own that the    *)
(* chat owns the scan, then waits for the file lock of the scan directory, *)
(* and checks ownership again once it holds the lock.  complete_scan holds *)
(* the lock over a sequence of file replacements and a database            *)
(* transaction; every replacement and the transaction is one step here, so *)
(* that a process may be interrupted (killed, or stopped by an I/O error)  *)
(* between any two.  The operating system drops the lock of a dead process.*)
(*                                                                         *)
(* Abstractions.  A finding is a member of Finding, a coverage document a  *)
(* member of Coverage, a digest the value it is taken of.  Every finding   *)
(* carries a writeup reference.  The scan starts in attack_path with the   *)
(* artifacts of the earlier phases in place; Reportable is the set of      *)
(* findings its attack-path artifact calls reportable.                     *)
(***************************************************************************)
EXTENDS Naturals

CONSTANTS
    Session,        \* chats, each with one server process
    Finding,        \* findings a canonical result may list
    Reportable,     \* those the attack-path artifact makes mandatory
    Coverage,       \* coverage documents
    None,           \* an absent file, owner or holder
    MaxItems,       \* bound on reviewItemsTotal
    MaxAttempts,    \* bound on the completion attempts that materialize
    MaxTransfers,   \* bound on recovery transfers
    MaxInterrupts   \* bound on interrupted calls

Manifest == [findings : SUBSET Finding, coverage : Coverage,
             receipts : Coverage, at : Nat, sealed : BOOLEAN]
FindingsDocument == [set : SUBSET Finding, final : BOOLEAN]

\* S, or nothing.
Maybe(S) == {None} \cup S

ASSUME ReportableAssumption == Reportable \subseteq Finding
ASSUME BoundsAssumption ==
    MaxItems \in Nat /\ MaxAttempts \in Nat /\ MaxTransfers \in Nat /\ MaxInterrupts \in Nat
ASSUME NoneAssumption ==
    /\ None \notin Session
    /\ None \notin Coverage
    /\ \A S \in SUBSET Finding : None # S
    /\ None \notin Manifest
    /\ None \notin FindingsDocument

VARIABLES
    \* the scan row and its progress row
    status,         \* "running", "complete", "failed", "canceled" (failed with canceled_at)
    owner,          \* owner_session_hash
    phase,          \* "attack_path" or "reporting"
    total,          \* review_items_total
    done,           \* review_items_completed
    pin,            \* seal_manifest_digest
    index,          \* the finding index (finding_occurrences of this scan)
    \* semantic artifacts
    canonical,      \* canonical-result
    surfaces,       \* coverage
    writeup,        \* derived-writeup
    \* the sealed artifact files of the scan directory
    writeupFiles,   \* findings/<slug>/<slug>.md that exist
    receiptFiles,   \* artifacts/03_coverage/*
    findingsFile,   \* findings.json
    coverageFile,   \* coverage.json
    reportFile,     \* report.md: the manifest it was rendered from
    manifestFile,   \* scan-manifest.json
    \* processes
    lock,           \* the chat whose process holds .completion.lock
    pc,             \* where the call of each chat stands
    op,             \* which call it is
    draft,          \* the manifest a completing process works on
    \* the rest of the world
    targetMoved,    \* the checkout differs from the captured snapshot
    exporting,      \* the row an export read before it verified the seal
    exported,       \* what the last export wrote
    attempts, transfers, interrupts     \* counters the bounds limit

row == <<status, owner, phase, total, done, pin, index>>
semantic == <<canonical, surfaces, writeup>>
files == <<writeupFiles, receiptFiles, findingsFile, coverageFile, reportFile, manifestFile>>
processes == <<lock, pc, op, draft>>
world == <<targetMoved, exporting, exported>>
counters == <<attempts, transfers, interrupts>>
vars == <<status, owner, phase, total, done, pin, index,
          canonical, surfaces, writeup,
          writeupFiles, receiptFiles, findingsFile, coverageFile, reportFile, manifestFile,
          lock, pc, op, draft, targetMoved, exporting, exported,
          attempts, transfers, interrupts>>

\* The calls; where a completing process stands; where it holds the lock.
Op == {"write", "progress", "fail", "cancel", "complete", "recover"}
MaterializeStep == {"writeups", "receipts", "findings", "coverage", "manifest"}
SealStep == {"finalize", "seal_findings", "seal_coverage", "seal_report", "seal_manifest"}
LockedStep == {"held", "publish"} \cup MaterializeStep \cup SealStep

-----------------------------------------------------------------------------
(* Reads of the row and of the scan directory. *)

Owns(s) == owner = s

\* Finalization has crossed the immutable seal boundary.
HasSealedManifest == manifestFile # None /\ manifestFile.sealed

\* Every digest the manifest records is that of the file on disk.
SealValid ==
    /\ manifestFile # None
    /\ manifestFile.sealed
    /\ findingsFile = [set |-> manifestFile.findings, final |-> TRUE]
    /\ coverageFile = manifestFile.coverage
    /\ receiptFiles = manifestFile.receipts
    /\ manifestFile.findings \subseteq writeupFiles

\* A canonical result lists exactly the reportable instances, and may add
\* informational ones.
WellBound(findings) == Reportable \subseteq findings

\* The derived writeups cover exactly the findings of the canonical result.
StaleWriteupsAccepted(findings) == findings = {} \/ writeup # None
WriteupsMatch(findings) == findings = {} \/ writeup = findings

\* Every semantic artifact the seal needs is there and consistent.
ClosureComplete ==
    /\ canonical # None
    /\ surfaces # None
    /\ WellBound(canonical)
    /\ WriteupsMatch(canonical)

\* A scan may be given up only while it runs and has no seal.
MayTerminate == status = "running" /\ ~HasSealedManifest

MayWrite == status = "running" /\ ~HasSealedManifest /\ phase = "reporting"

ReviewClosed == done = total

\* The target still is the snapshot captured at start.
TargetUnchanged == ~targetMoved

-----------------------------------------------------------------------------
Init ==
    /\ status = "running"
    /\ owner \in Session
    /\ phase = "attack_path"
    /\ total = 0 /\ done = 0
    /\ pin = None /\ index = {}
    /\ canonical = None /\ surfaces = None /\ writeup = None
    /\ writeupFiles = {} /\ receiptFiles = None
    /\ findingsFile = None /\ coverageFile = None
    /\ reportFile = None /\ manifestFile = None
    /\ lock = None
    /\ pc = [s \in Session |-> "idle"]
    /\ op = [s \in Session |-> "write"]
    /\ draft = [s \in Session |-> None]
    /\ targetMoved = FALSE /\ exporting = None /\ exported = None
    /\ attempts = 0 /\ transfers = 0 /\ interrupts = 0

-----------------------------------------------------------------------------
(* Taking and dropping the scan lock. *)

\* The read before the lock: every call but a recovery delivery checks there
\* that the chat owns the scan.
PassesPreCheck(s, o) == o = "recover" \/ Owns(s)

Request(s, o) ==
    /\ pc[s] = "idle"
    /\ PassesPreCheck(s, o)
    /\ pc' = [pc EXCEPT ![s] = "waiting"]
    /\ op' = [op EXCEPT ![s] = o]
    /\ UNCHANGED <<row, semantic, files, lock, draft, world, counters>>

Acquire(s) ==
    /\ pc[s] = "waiting"
    /\ lock = None
    /\ lock' = s
    /\ pc' = [pc EXCEPT ![s] = "held"]
    /\ UNCHANGED <<row, semantic, files, op, draft, world, counters>>

\* The call ends: it leaves the lock's context and its process is free again.
Release(s) ==
    /\ lock' = None
    /\ pc' = [pc EXCEPT ![s] = "idle"]
    /\ op' = [op EXCEPT ![s] = "write"]
    /\ draft' = [draft EXCEPT ![s] = None]

\* Process s runs call o under the lock.
Holds(s, o) == pc[s] = "held" /\ op[s] = o

CheckedBeforeLockOnly(s) == TRUE
\* The second ownership check, under the lock.
OwnsUnderLock(s) == Owns(s)

-----------------------------------------------------------------------------
(* The short calls: one transaction or one file replacement. *)

\* write_scan_artifact: the artifacts of the reporting phase, replaced by
\* compare and swap on the digest the caller read.
WriteArtifact(s) ==
    /\ Holds(s, "write")
    /\ OwnsUnderLock(s)
    /\ MayWrite
    /\ \/ /\ \E findings \in SUBSET Finding : WellBound(findings) /\ canonical' = findings
          /\ UNCHANGED <<surfaces, writeup>>
       \/ /\ surfaces' \in Coverage
          /\ UNCHANGED <<canonical, writeup>>
       \/ /\ canonical \notin {None, {}}
          /\ writeup' = canonical
          /\ UNCHANGED <<canonical, surfaces>>
    /\ Release(s)
    /\ UNCHANGED <<row, files, world, counters>>

\* No more items closed than there are, and no counter goes back in a phase.
LegalCounts == done' <= total' /\ (phase' = phase => total' >= total /\ done' >= done)

\* update_scan_progress: the phase never goes back.
UpdateProgress(s) ==
    /\ Holds(s, "progress")
    /\ OwnsUnderLock(s)
    /\ status = "running"
    /\ phase' \in IF phase = "attack_path" THEN {"attack_path", "reporting"} ELSE {"reporting"}
    /\ total' \in 0..MaxItems
    /\ done' \in 0..MaxItems
    /\ LegalCounts
    /\ Release(s)
    /\ UNCHANGED <<status, owner, pin, index, semantic, files, world, counters>>

FailScan(s) ==
    /\ Holds(s, "fail")
    /\ OwnsUnderLock(s)
    /\ MayTerminate
    /\ status' = "failed"
    /\ Release(s)
    /\ UNCHANGED <<owner, phase, total, done, pin, index, semantic, files, world, counters>>

CancelScan(s) ==
    /\ Holds(s, "cancel")
    /\ OwnsUnderLock(s)
    /\ MayTerminate
    /\ status' = "canceled"
    /\ Release(s)
    /\ UNCHANGED <<owner, phase, total, done, pin, index, semantic, files, world, counters>>

\* get_scan_context with a recovery token: ownership of a running scan moves to
\* the chat that holds a valid claim.  ScanRecovery models the claim.
DeliverRecovery(s) ==
    /\ Holds(s, "recover")
    /\ status = "running"
    /\ transfers < MaxTransfers
    /\ owner' = s
    /\ transfers' = transfers + 1
    /\ Release(s)
    /\ UNCHANGED <<status, phase, total, done, pin, index, semantic, files, world,
                   attempts, interrupts>>

-----------------------------------------------------------------------------
(* complete_scan. *)

ReadyToComplete(s) ==
    /\ OwnsUnderLock(s)
    /\ status = "running"
    /\ phase = "reporting"
    /\ ReviewClosed
    /\ canonical # None
    /\ WellBound(canonical)

ResealsOnRetry(s) ==
    ReadyToComplete(s) /\ TargetUnchanged /\ ClosureComplete /\ attempts < MaxAttempts
\* A first completion, or one whose predecessor stopped before the seal.
CanMaterialize(s) ==
    /\ ReadyToComplete(s)
    /\ ~HasSealedManifest
    /\ TargetUnchanged
    /\ ClosureComplete
    /\ attempts < MaxAttempts

RechecksTarget(s) == ReadyToComplete(s) /\ SealValid /\ TargetUnchanged
\* A retry after the seal, and one after publication.
CanReuseSeal(s) == ReadyToComplete(s) /\ SealValid
CanRegenerate(s) == OwnsUnderLock(s) /\ status = "complete" /\ SealValid /\ pin = manifestFile

\* The target and the closure hold: start to materialize.
BeginMaterialize(s) ==
    /\ Holds(s, "complete")
    /\ CanMaterialize(s)
    /\ attempts' = attempts + 1
    /\ draft' = [draft EXCEPT ![s] =
            [findings |-> canonical, coverage |-> surfaces, receipts |-> surfaces,
             at |-> attempts + 1, sealed |-> FALSE]]
    /\ pc' = [pc EXCEPT ![s] = "writeups"]
    /\ UNCHANGED <<row, semantic, files, lock, op, world, transfers, interrupts>>

\* The seal is verified and reused, the report is rendered again, nothing else
\* is written.
ReuseSeal(s) ==
    /\ Holds(s, "complete")
    /\ CanReuseSeal(s)
    /\ reportFile' = manifestFile
    /\ draft' = [draft EXCEPT ![s] = manifestFile]
    /\ pc' = [pc EXCEPT ![s] = "publish"]
    /\ UNCHANGED <<row, semantic, writeupFiles, receiptFiles, findingsFile, coverageFile,
                   manifestFile, lock, op, world, counters>>

\* The pin of a published scan is compared and its report rendered again.
RegenerateReport(s) ==
    /\ Holds(s, "complete")
    /\ CanRegenerate(s)
    /\ reportFile' = manifestFile
    /\ Release(s)
    /\ UNCHANGED <<row, semantic, writeupFiles, receiptFiles, findingsFile, coverageFile,
                   manifestFile, world, counters>>

\* One file replacement of a completing process.
Advance(s, from, to) ==
    /\ pc[s] = from
    /\ pc' = [pc EXCEPT ![s] = to]
    /\ UNCHANGED <<row, semantic, lock, op, world, counters>>

MaterializeWriteups(s) ==
    /\ Advance(s, "writeups", "receipts")
    /\ writeupFiles' = writeupFiles \cup draft[s].findings
    /\ UNCHANGED <<receiptFiles, findingsFile, coverageFile, reportFile, manifestFile, draft>>

MaterializeReceipts(s) ==
    /\ Advance(s, "receipts", "findings")
    /\ receiptFiles' = draft[s].receipts
    /\ UNCHANGED <<writeupFiles, findingsFile, coverageFile, reportFile, manifestFile, draft>>

MaterializeFindings(s) ==
    /\ Advance(s, "findings", "coverage")
    /\ findingsFile' = [set |-> draft[s].findings, final |-> FALSE]
    /\ UNCHANGED <<writeupFiles, receiptFiles, coverageFile, reportFile, manifestFile, draft>>

MaterializeCoverage(s) ==
    /\ Advance(s, "coverage", "manifest")
    /\ coverageFile' = draft[s].coverage
    /\ UNCHANGED <<writeupFiles, receiptFiles, findingsFile, reportFile, manifestFile, draft>>

MaterializeManifest(s) ==
    /\ Advance(s, "manifest", "finalize")
    /\ manifestFile' = draft[s]
    /\ UNCHANGED <<writeupFiles, receiptFiles, findingsFile, coverageFile, reportFile, draft>>

\* finalize_scan reads its inputs back from disk and binds their digests.
FinalizeInputs(s) ==
    /\ Advance(s, "finalize", "seal_findings")
    /\ findingsFile.set \subseteq writeupFiles
    /\ draft' = [draft EXCEPT ![s] =
            [findings |-> findingsFile.set, coverage |-> coverageFile,
             receipts |-> receiptFiles, at |-> manifestFile.at, sealed |-> TRUE]]
    /\ UNCHANGED files

SealFindings(s) ==
    /\ Advance(s, "seal_findings", "seal_coverage")
    /\ findingsFile' = [set |-> draft[s].findings, final |-> TRUE]
    /\ UNCHANGED <<writeupFiles, receiptFiles, coverageFile, reportFile, manifestFile, draft>>

SealCoverage(s) ==
    /\ Advance(s, "seal_coverage", "seal_report")
    /\ coverageFile' = draft[s].coverage
    /\ UNCHANGED <<writeupFiles, receiptFiles, findingsFile, reportFile, manifestFile, draft>>

SealReport(s) ==
    /\ Advance(s, "seal_report", "seal_manifest")
    /\ reportFile' = draft[s]
    /\ UNCHANGED <<writeupFiles, receiptFiles, findingsFile, coverageFile, manifestFile, draft>>

\* The seal boundary.
SealManifest(s) ==
    /\ Advance(s, "seal_manifest", "publish")
    /\ manifestFile' = draft[s]
    /\ UNCHANGED <<writeupFiles, receiptFiles, findingsFile, coverageFile, reportFile, draft>>

PublishBeforeSeal(s) ==
    /\ pc[s] = "seal_manifest"
    /\ status' = "complete"
    /\ phase' = "reporting"
    /\ pin' = draft[s]
    /\ index' = draft[s].findings
    /\ Release(s)
    /\ UNCHANGED <<owner, total, done, semantic, files, world, counters>>

\* The transaction that makes the sealed result visible.
PublishScan(s) ==
    /\ pc[s] = "publish"
    /\ SealValid
    /\ OwnsUnderLock(s)
    /\ status = "running"
    /\ status' = "complete"
    /\ phase' = "reporting"
    /\ pin' = draft[s]
    /\ index' = draft[s].findings
    /\ Release(s)
    /\ UNCHANGED <<owner, total, done, semantic, files, world, counters>>

-----------------------------------------------------------------------------
(* Calls that end without an effect, and interruptions. *)

\* The call is refused or idempotent: a stale digest, an invalid claim or bad
\* arguments (write, progress, recover), a lost ownership, a state that does
\* not allow it, or a state it has already reached.
MayRefuse(s) ==
    \/ op[s] \in {"write", "progress", "recover"}
    \/ ~OwnsUnderLock(s)
    \/ op[s] \in {"fail", "cancel"} /\ ~MayTerminate
    \/ /\ op[s] = "complete"
       /\ ~CanMaterialize(s) /\ ~CanReuseSeal(s) /\ ~CanRegenerate(s)

Refuse(s) ==
    /\ pc[s] = "held"
    /\ MayRefuse(s)
    /\ Release(s)
    /\ UNCHANGED <<row, semantic, files, world, counters>>

\* The process is killed, or a file operation fails and the error leaves the
\* lock's context.  What it has written stays.
Interrupt(s) ==
    /\ pc[s] # "idle"
    /\ interrupts < MaxInterrupts
    /\ interrupts' = interrupts + 1
    /\ lock' = IF lock = s THEN None ELSE lock
    /\ pc' = [pc EXCEPT ![s] = "idle"]
    /\ op' = [op EXCEPT ![s] = "write"]
    /\ draft' = [draft EXCEPT ![s] = None]
    /\ UNCHANGED <<row, semantic, files, world, attempts, transfers>>

-----------------------------------------------------------------------------
(* The checkout and the exports. *)

\* Somebody edits the checkout, or puts it back.
EditTarget ==
    /\ targetMoved' = ~targetMoved
    /\ UNCHANGED <<row, semantic, files, processes, exporting, exported, counters>>

ExportWhatIsSealed ==
    /\ exporting = None
    /\ HasSealedManifest
    /\ exporting' = manifestFile
    /\ UNCHANGED <<row, semantic, files, processes, targetMoved, exported, counters>>

\* An export takes no lock: it reads the row of a complete scan ...
ReadForExport ==
    /\ exporting = None
    /\ status = "complete"
    /\ exporting' = pin
    /\ UNCHANGED <<row, semantic, files, processes, targetMoved, exported, counters>>

\* ... then verifies the seal against the pin and writes the projection.
WriteExport ==
    /\ exporting # None
    /\ exported' = IF SealValid /\ exporting = manifestFile THEN findingsFile.set ELSE exported
    /\ exporting' = None
    /\ UNCHANGED <<row, semantic, files, processes, targetMoved, counters>>

-----------------------------------------------------------------------------
CompletionStep(s) ==
    \/ MaterializeWriteups(s) \/ MaterializeReceipts(s) \/ MaterializeFindings(s)
    \/ MaterializeCoverage(s) \/ MaterializeManifest(s) \/ FinalizeInputs(s)
    \/ SealFindings(s) \/ SealCoverage(s) \/ SealReport(s) \/ SealManifest(s)
    \/ PublishScan(s)

LockedCall(s) ==
    \/ WriteArtifact(s) \/ UpdateProgress(s) \/ FailScan(s) \/ CancelScan(s)
    \/ DeliverRecovery(s) \/ BeginMaterialize(s) \/ ReuseSeal(s) \/ RegenerateReport(s)
    \/ Refuse(s)

Next ==
    \/ \E s \in Session :
        \/ \E o \in Op : Request(s, o)
        \/ Acquire(s) \/ LockedCall(s) \/ CompletionStep(s) \/ Interrupt(s)
    \/ EditTarget \/ ReadForExport \/ WriteExport

Spec == Init /\ [][Next]_vars

\* The call of the chat that owns the scan gets the lock.
OwnerAcquires == \E s \in Session : Owns(s) /\ Acquire(s)
OwnerRequests(o) == \E s \in Session : Owns(s) /\ Request(s, o)
OwnerClosesReview ==
    \E s \in Session : UpdateProgress(s) /\ phase' = "reporting" /\ done' = total'

\* A process that holds the lock runs on, the kernel does not pass over a waiter
\* for ever, and the owner of an unfinished scan keeps closing its review items
\* and asking for completion, as the errors of the tools tell it to.
Fairness ==
    /\ WF_vars(\E s \in Session : LockedCall(s) \/ CompletionStep(s))
    /\ SF_vars(OwnerAcquires)
    /\ SF_vars(OwnerRequests("progress"))
    /\ SF_vars(OwnerRequests("complete"))
    /\ SF_vars(OwnerClosesReview)

FairSpec == Spec /\ Fairness

-----------------------------------------------------------------------------
(* Correctness. *)

\* The type invariant of every variable.
TypeOK ==
    /\ status \in {"running", "complete", "failed", "canceled"}
    /\ owner \in Session
    /\ phase \in {"attack_path", "reporting"}
    /\ total \in Nat /\ done \in 0..total
    /\ pin \in Maybe(Manifest)
    /\ index \in SUBSET Finding
    /\ canonical \in Maybe(SUBSET Finding)
    /\ surfaces \in Maybe(Coverage)
    /\ writeup \in Maybe(SUBSET Finding)
    /\ writeupFiles \in SUBSET Finding
    /\ receiptFiles \in Maybe(Coverage)
    /\ findingsFile \in Maybe(FindingsDocument)
    /\ coverageFile \in Maybe(Coverage)
    /\ reportFile \in Maybe(Manifest)
    /\ manifestFile \in Maybe(Manifest)
    /\ lock \in Maybe(Session)
    /\ pc \in [Session -> {"idle", "waiting"} \cup LockedStep]
    /\ op \in [Session -> Op]
    /\ draft \in [Session -> Maybe(Manifest)]
    /\ targetMoved \in BOOLEAN
    /\ exporting \in Maybe(Manifest)
    /\ exported \in Maybe(SUBSET Finding)
    /\ attempts \in Nat /\ transfers \in Nat /\ interrupts \in Nat

\* A scan that the database calls complete has a valid seal on disk, its pin is
\* that very seal, and the finding index lists the findings of that seal: the
\* database transaction of complete_scan can never get ahead of the files, and
\* no later call can pull the files away from under it.
CompleteIsSealed ==
    status = "complete" =>
        SealValid /\ pin = manifestFile /\ index = manifestFile.findings

\* A scan whose directory is sealed is never failed or cancelled, whatever calls
\* were interrupted between the seal and the publication.
SealedNeverTerminated == HasSealedManifest => status \in {"running", "complete"}

\* A seal is valid from the moment its manifest appears, and binds the semantic
\* artifacts as they are: no crash between two of the file replacements, and no
\* artifact write racing the completion, gives a sealed manifest that disagrees
\* with the files or with the canonical result the agent wrote last.
SealBindsArtifacts ==
    HasSealedManifest =>
        /\ SealValid
        /\ manifestFile.findings = canonical
        /\ manifestFile.coverage = surfaces
        /\ manifestFile.receipts = surfaces
        /\ canonical = {} \/ writeup = canonical

\* What an export hands out is the published result.
ExportsArePublished == exported # None => status = "complete" /\ exported = index

Safety == CompleteIsSealed /\ SealedNeverTerminated /\ SealBindsArtifacts /\ ExportsArePublished

\* Once the seal exists, no step changes a sealed file: completion retries only
\* render the report again.
SealIsFrozen ==
    [][HasSealedManifest =>
        UNCHANGED <<manifestFile, findingsFile, coverageFile, receiptFiles, semantic>>]_vars

\* Whatever changes the scan's artifacts, files or state is a call of the chat
\* that owns the scan at that moment: a call that passed its check before a
\* recovery moved the scan to another chat has no effect after it, and a
\* completion under way cannot lose its scan.
OnlyOwnerActs ==
    [][ <<status, phase, total, done, pin, index, semantic, files>>'
            # <<status, phase, total, done, pin, index, semantic, files>>
        => lock = owner /\ owner' = owner ]_vars

\* A sealed scan is published in the end, though its target may have moved and
\* the calls that sealed it may have died before the publication.
SealedIsPublished == (HasSealedManifest /\ status = "running") ~> (status = "complete")

\* The abstract scan result this module implements.
Outcome ==
    CASE status = "complete" -> "published"
      [] status \in {"failed", "canceled"} -> "terminated"
      [] OTHER -> IF HasSealedManifest THEN "sealed" ELSE "open"
SealedManifest == IF HasSealedManifest THEN manifestFile ELSE None

Abstract == INSTANCE SealedResult WITH
    Result <- Manifest, outcome <- Outcome, result <- SealedManifest

\* A scan's result is sealed once, published only when sealed and given up only
\* when unsealed.
ImplementsSealedResult == Abstract!AbsSafety
=============================================================================
