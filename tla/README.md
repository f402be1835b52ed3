# Kiro Security: TLA+ verification project

This directory holds a formal model of the scan workbench of Kiro Security: TLA+ modules, the
TLC configurations that model-check them, and theorems that TLAPS proves. Every definition is
translated from the source under `src/`; `PROJECT.json` maps each one to its lines.

## The system

Kiro Security is a VS Code extension with a Python engine. A *chat* of the host starts one MCP
server process (`mcp_server.py`, `mcp_tools.py`), which handles one tool call at a time. A *window*
shows a dashboard; every click starts a short-lived admin process
(`runtime/kiro_security_launcher.py`). All processes share one SQLite database (`db.py`,
`schema.py`) and one directory per scan. There is no daemon: everything is coordinated by immediate
transactions, by `flock` on `.completion.lock` of the scan directory, by versions, tokens and
digests that a caller must present, and by atomic file replacement.

| component | state | operations | how it interacts | what makes it correct |
|---|---|---|---|---|
| Scan completion and sealing (`scan_lifecycle.py`, `artifacts.py`, `semantic_artifacts.py`, `semantic_materialization.py`) | scan row, progress row, semantic artifacts, sealed files, scan lock | complete, fail, cancel, progress, write artifact, export | chats race on one scan; recovery moves it; files and database are written in separate steps | the database never gets ahead of the files, the seal binds the artifacts, never changes and is published in the end |
| Finding remediation and triage (`followup.py`, `workbench.py`, `remediation_integrity.py`) | attempts with state, version, claim; triage | request generate/apply/verify, claim, deliver, release, report, close, reopen | windows request, chats work, everybody edits the checkout | one live attempt, no live attempt behind a closed finding, digests that are what they say |
| Scan recovery and tracking (`followup.py`) | request with status, version, claim | create, claim, deliver, release, cancel | moves the ownership of a running scan to another chat; hands a finding to a chat | a handoff is delivered once, to a chat whose claim is current |
| Workspace setup and scan start (`workbench.py`, `scan_lifecycle.py`, `target.py`) | workspace row, revision, approval digest, active scan | create, update, submit, start | slow starts, saves and a target that changes race | what runs is what was approved and selected, a start adds a scan only to those it saw |
| Phase chain (`semantic_artifacts.py`, `scan_lifecycle.py`, `phase_contracts.py`) | phase, artifacts of each phase | progress, write artifact | each phase needs the artifact of the one before | phases only advance, closed artifacts stay closed |
| Deep discovery (`deep_scan_rules.py`, `semantic_artifacts.py`) | rounds, worker artifacts, merges, checkpoints | write worker, merge, checkpoint, discovery, threat model | a chat that resumes reads where its predecessor stopped | rounds close in order and discovery is the terminal merge |
| Chat attestation (`attestation.py`, `workbench.py`, `hook/kiro_security_hook_bridge.py`) | attestation rows | store, consume | a hook process writes, a server consumes once | a call is bound to the chat that made it, and acts once |
| MCP server and tools (`mcp_server.py`, `mcp_tools.py`) | handshake state, the call under way | initialize, list, call | one process per chat, one call at a time | no call before the handshake, none without an attestation |
| Database (`db.py`, `schema.py`) | applied migrations, rows | connect with migration, immediate transaction | servers of several versions open one database | migrations run once and in order; a server stops before a database it does not know |
| Target capture (`target.py`, `filesystem_identity.py`) | none | inspect, resolve a diff, capture | several reads of git and the file system, while files are edited, committed, replaced | a snapshot is of the directory it names, and of what was selected |
| Document contracts and projections (`semantic_contract.py`, `artifacts.py`, `artifact_projections.py`) | documents of reporting, sealed documents, exports | validate at writing, at closure and at the seal; project to report, SARIF, CSV | two contracts in two modules speak about the same documents | what was accepted can be sealed; the report says what was judged |
| Dashboard read model (`dashboard_read_model.py`) | none | project | several statements while others write | no finding of a scan that still runs |
| Admin launcher (`runtime/kiro_security_launcher.py`) | none | one operation per process | started by a window, killed at a timeout | it has committed or never will |
| Extension integration (`packages/extension/src/integration/`) | host configuration files, runtime files, installation key | install, uninstall, reconcile under a shared lock | windows install at the same time; the user edits the same files | only managed entries are touched, one installation key |
| Extension view and client (`packages/extension/src/view/`, `workbench/`) | page, busy flag, dashboard, admin child process | click, prompt, call with a timeout, refresh | one action at a time per window; refreshes overlap; chats and windows change what is shown | the page at rest is current, a copied prompt is good, the panel does not stay busy |

The behaviours that are hard to test here are interleavings of processes around a lock or a
transaction, calls decided on what was read before it, processes killed between two file
replacements or between the seal and the publication, claims that expire under their worker, and
rows ordered by a time taken too early. `PROJECT.json` lists each hazard at its line.

## Modules

| module | models | abstracts |
|---|---|---|
| `SealedResult` | abstract specification: a result is sealed once, published only when sealed, given up only when unsealed | everything else |
| `ScanCompletion` | the scan row, the semantic artifacts of reporting, the sealed files, the lock and the calls of several chats; implements `SealedResult` | documents to sets of findings; starts in the attack path phase |
| `Remediation` | attempts and triage of one finding, with the check outside the transaction as a step of its own | a tree of the checkout to the set of patches in it |
| `DeepDiscovery` | rounds, workers, checkpoints, merges and the terminal artifact of a deep scan | candidates to ids, a brief and its worklist to one value |
| `PhaseChain` | all phases of the three modes with the artifacts and counters of each | a call to one step; the rounds of a deep scan to one artifact |
| `ScanRecovery` | recovery requests of one scan with claims, retries, lost replies and old clocks | a token to the version its claim produced; time to units of which a claim lasts `Lease` |
| `ScanStart` | saving, approving, starting and completing by overlapping calls of one chat, with a target that changes between any two of their reads | the files to one value; a commit to what it holds; the walk of a digest to one read |
| `FindingTracking` | tracking requests of one finding: claims, contexts that may be asked for again, and seals checked around the delivery | a sealed tree to intact or not; time to units |
| `ChatAttestation` | hooks that store attestations, servers of several versions with their handshake, connections with migration, and the act a consumed attestation allows | a tool with its arguments to one value; migrations to their numbers; the host to any request at any time |
| `ReportDocuments` | the documents of reporting, written and rewritten, the closure, the seal with its own contract, the report and the exports | findings and surfaces to the fields the two contracts compare |
| `Integration` | windows that create the installation key, install runtime and own files, and edit the two files of the user | a user file to its own entries and the keys it has ours for; a directory to its version |
| `SetupView` | one panel: page, messages, the action under way with its admin process and timeout, prompts, overlapping refreshes, and the workbench as chats and other windows change it | one finding per scan; attempts and tracking requests of it to one row each |
| `Absent` | the value `None` of what is not there | shared by the modules whose theorems are in one module |
| `ScanCompletion_proofs`, `Remediation_proofs`, `DeepDiscovery_proofs`, `ScanStart_proofs`, `ChatAttestation_proofs` | theorems about the module they are named after | |
| `RunningScan_proofs` | theorems about `PhaseChain` and `ScanRecovery`: a scan while it runs | |
| `SealedFindings_proofs` | theorems about `ReportDocuments` and `FindingTracking`: findings once they are there | |
| `Extension_proofs` | theorems about `SetupView` and `Integration`: the editor extension | |
| `MC*` | for TLC: symmetry, functions that a .cfg cannot write, and in `MCScanCompletion` one first owner | |

**ScanCompletion.** `status`, `owner`, `phase`, `total`, `done`, `pin` are columns of `scans` and
`scan_progress`; `index` is the finding index; the `*File` variables are files of the scan directory;
`lock` is `.completion.lock`. A call is `Request` (the ownership check of `workbench.py` in a
connection of its own), `Acquire` (`flock`), and then either one locked step (`WriteArtifact`,
`UpdateProgress`, `FailScan`, `CancelScan`, `DeliverRecovery`) or the sequence of file replacements
of `complete_scan`, one action for each, ended by the transaction `PublishScan`. `Interrupt` kills a
process at any of them. `ReadForExport`/`WriteExport` take no lock, as in the code.

**Remediation.** A row of `finding_remediation_attempts` is a record of `attempt`; `Check*` are the
reads before the transaction, the action without that prefix is the transaction. Two checks read the
checkout three times, in three steps: an apply request its digest (`CheckApply`), whether the patch applies
(`TryPatch`) and the tree it would make (`ForeseeTree`); an applied result its digest (`CheckResult`),
whether the patch can be taken back (`TryPatch`) and the digest to compare with the foreseen one
(`CompareTree`). `EditCheckout` may come between any two; `disturbed` is history: the recorded checks during
which it did. `Expire` ends a claim. A digest that is taken while files change under it is abstracted to that
of one tree.

**DeepDiscovery.** `workers[r][w]`, `checkpoints[r][w]`, `merges[r]` are the files
`discovery-round-r-...`; the `MayWrite*` operators conjoin the contract (`_deep_writable_schema_keys`,
what may be written in this state) with the order rules of `deep_scan_rules.py`; `IsOpen` and
`IsTerminal` are the open round and the terminal state. `ReadCheckpoint` and the digest it leaves with
the agent are the compare-and-swap of `write`. A call holds the scan lock and is one step.

**PhaseChain.** Each `Write*` is `write_scan_artifact` of one descriptor, with its binding to the
artifacts before it; `Progress` and `Advance` are `update_scan_progress` without and with a change of
phase. `SkipsTail` (`allowed_next_phases`) and `TailRequired` (`_required_descriptors`) are the same
question asked by different code at different times, and are separate definitions for that reason.

**ScanRecovery.** A row of `scan_recovery_requests` is a record of `request`; `Begin` reads the clock,
the action that follows is the transaction. `Reply` loses the answer or not; the chat then calls
again with what it still knows (`ClaimAgain`, `DeliverAgain`). `Resume` is the click on the dashboard.

**ScanStart.** `workspace` and `scans` are rows of the database; `place` and `checkout` are the directory
at the target's path and what it holds. A call is `Begin*` (what it reads in its first connection), the
reads of the target, and `Save`, `Publish` or `Complete`, the transaction or the comparison that decides.
`Stat` is the look at the directory's identity, `ReadHead` and `ReadDiff` are the runs of git for the
commit and for the changes against it; the target may change between any two. A diff is resolved twice,
once to inspect the setup and once for the snapshot (`target.py:82-145`). Calls of a chat overlap when its
client gave up on the first and started another server. `source`, `since` and `from` are history: of which
state of the target, and from which directories, a capture was read. Assumed: the changes are read at one
moment, a directory that was replaced does not come back, and two writes have different times (they have
microseconds).

**FindingTracking.** A row of `finding_tracking_requests` is a record. `BeginContext`, `CheckSeal`,
`ReadClock`, `Deliver` and `TellContext` are the steps of `get_tracking_context`: the seal is checked
before the claim is looked at and again after the delivery has been committed.

**ChatAttestation.** A hook process reads the clock and then, in one transaction, deletes what has
expired and inserts its row. A server is `started`, `responded` or `ready` (`mcp_server.py`). A call is
received (`ReceiveCall` reads the clock), opens the database with its migrations (`Connect`), consumes its
row (`ConsumeAttestation`) and runs its tool (`Connect` again, then `RunTool`). `attested`, `acted` and
`late` are history. Nonces may collide, and the same call may reach two servers. An attestation is used
up although the tool then refuses its arguments.

**ReportDocuments.** `WriteCanonical` and the other writes are `write_scan_artifact` under the contract of
`semantic_contract.py`; `ClosureComplete` is what completion asks of them together; `SealAccepts` is the
contract of `artifacts.py` that the seal is checked against, and is a definition of its own as it is in
the code. `Complete` also projects the report, the index, SARIF and the count of reportable findings;
`Export` makes SARIF or CSV from the seal. `MaterializationRefused` is a completion that ends with a file that
cannot be written, after others have been; `CompleteRefused` one that has written all and is refused at the seal.
The run says that two contracts written apart agree.

**SetupView.** `message`, `job`, `refresh`, `shown` and `dashboard` are fields of the panel
(`setupView.ts`); `db` is the workbench as it sees it. `Handle` is the message handler up to its first
`await`; a call is `Commit` and then `Reply`, or fails, or is killed by its timer (`TimeOut`), before or
after it has committed. `ReadFindings` and `Answer` are the two halves of the projection of
`dashboard_read_model.py`, `Reads` says what each of them reads. Who changes a recovery request takes its time
first (`Waits`, and `TakesTime` for another process) and commits with it later; `LatestOf` is the statement that
picks the request of a scan with the latest time. `Elsewhere` is a transaction of a chat or another window.
Assumed: an admin process that is killed has committed or never will; no two calls take the same time
(`utc_now` has microseconds); and what a call tells is what it committed, although `createRecovery` and the
claims read the row back after their commit (`followup.py:54`): only a change of that very row within that gap
would be told instead.

**Integration.** `identity`, `runtime`, `steering`, `bridge`, `hook` and `config` are files; `window` is
where each window is in `getOrCreateInstallationServerKey` (activation) and `install`, with what it has
read. `LockConfig` takes the lock of a user file and looks for conflicts; the MCP configuration is then read
again for its update (`ReadConfig`), the permission file is not. `CheckConfig` compares the file with what was
read for the update, `RenameConfig` replaces it. `Abort` stands for every error, `Kill` for the end of the window, `Edit` for the user's
editor, which takes no lock. Assumed: all windows find the same Python interpreter, only the lock of a
killed window is taken over, and a failure to move the old runtime back counts as a kill.

How they fit: `PhaseChain` ends where `ScanCompletion` begins (its start in the attack path with the
earlier artifacts in place is what `ChainStaysBound` and `ReportingCanClose` say); `DeepDiscovery`
refines the discovery phase of `PhaseChain`; `DeliverRecovery` of `ScanCompletion` is the transfer that
`ScanRecovery` models in detail; `ReportDocuments` opens up the documents that `ScanCompletion` treats as sets
of findings, and `SetupView` is the window behind the requests of `ScanRecovery`, `Remediation` and
`FindingTracking`. Only `SealedResult` is instantiated; the others are not composed by INSTANCE. The last three
proof modules extend two components each, which share nothing but `None`; the names of one of the two begin with
what it is (`ChainSpec`, `TrackingSpec`, `ViewSpec`, with their `Init`, `Next` and type invariant).

## Runs

| run | shows | bounds |
|---|---|---|
| `scan_completion` | the seal binds the artifacts, is what is exported, belongs to its owner and is published in the end; `ScanCompletion` implements `SealedResult` | two chats and one recovery: enough for a stale owner; a mandatory and an optional finding: a canonical result can be rewritten; two attempts, one interruption: a retry after each partial write |
| `remediation` | a closed finding stays quiet, applied digests are foreseen ones unless a check was disturbed, final states are final, results only from the claimant | two windows and two chats with two claims (one that expires and goes to the other chat), two calls under way at once (a late result beside the new claimant's, or a request beside a close), two edits of the checkout (between two reads, and back), two attempts (one supersedes the other); starts with and without a generated attempt |
| `deep_discovery` | merges stay bound, some artifact is always writable, no candidate and no progress is lost | two rounds, of which the second has a predecessor and is the cap; two slots, two ids (both rounds may be new), two agents with two checkpoints, attempts and partial results; the theorems cover more rounds |
| `phase_chain` | artifacts stay bound, every candidate is judged, reporting can be closed | three candidates with up to two instances; counters 0 and 1 tell growth, reset and completion apart |
| `scan_recovery` | the owner is the chat of the last handoff, fresh claims are exclusive | two chats; two requests, for a retry after a later handoff; version 4, for an expired, repeated and delivered claim; a clock past one lease |
| `scan_start` | what runs is what was approved and selected and is read from where it says; a slow start starts nothing twice; a result is of the target the scan was started on | two processes, two contents (four checkouts and two plain directories), two changes (there and back), two places, two saved setups (one under a start), two scans (one between the reads and the end of a start) |
| `finding_tracking` | a context reaches one chat, which can ask for it again | two chats, two requests, a clock past one lease |
| `chat_attestation` | one act for each attestation, no fresh attestation disappears, an old server stops | two chats, an old and a new server, two nonces (so that one collides), two attestations, a clock past the expiry |
| `report_documents` | what was accepted is sealed but for three named documents; the report says what was judged | two findings (a collision of each field), three places of which one is too long for a file, two surfaces over ids of which two have the same slug, one has none and one too long a slug, one refused completion before a rewrite; what is sealed has one receipt at most (`ReportsAreTrue` has any number), and the target a name |
| `integration` | one key, a runtime for the servers, a success that lasts, user entries kept, old rules removed | two windows, two versions (an upgrade and a downgrade), one old key, one edit (between any two reads of a file) |
| `setup_view` | the page at rest is current, prompts are good, findings are of complete scans, the busy flag ends | one scan in one folder, two recovery requests, one refresh beside the panel's own, four clicks or changes (a call elsewhere that takes its time, a cancel, and the late commit are three) |

One run expects a violation: `remediation_newest` refutes `OneLiveAttempt` for two windows (a request whose
`created_at` is older than that of the row inserted before it); the finding in `PROJECT.json` quotes what the
code says.

Modelling brought up more places a reader of the code should know, which no run refutes:

* The guard against a second request (`followup.py:300`) names the state `verifying`, which nothing sets; an
  attempt whose apply or verify is claimed is superseded by a generate request. `FinalStaysFinal` says that
  its worker then changes nothing any more.
* The digest that comes with a generated, verified or failed result is stored unchecked
  (`followup.py:575`); `AppliedIsExpected` therefore speaks of applied attempts only.
* The checkout is read without a lock. An edit between the reads of a check (`workbench.py:729`, `:738`, `:744`,
  and `:598`, `:602`, `:609`) lets an apply request foresee a tree that is not its base with the patch, or an
  applied result store a digest that is not the foreseen one; `AppliedIsExpected` names these two exceptions.
* What the user saves in `mcp.json` or the permission file between the last comparison and the rename of an
  install (`integrationFiles.ts:514`, `approvalPolicy.ts:585`) is overwritten. So is a server that the user
  registers under our key between the conflict check of an install and its read for the update
  (`integrationFiles.ts:240`, `:247`). `EditsSurvive` says that there is no third way in which an entry of the
  user is lost.
* A recovery request can only be created by the button of `setupViewHtml.ts:346-361`, which the page shows only
  where an open request is already there; `steering/kiro-security.md:33-34` and `:215` rely on it.
* `phase_contracts.py:536-541` tells the chat that completion checks the target again before it publishes and
  then makes SARIF and CSV. The code (`scan_lifecycle.py:622-729`) checks the target once, before anything is
  materialized, writes SARIF before the publication, and makes no CSV.
* A target without a name (`/`) is accepted at setup and refused at every seal (`artifacts.py:703`), and a
  writeup path that two findings share is accepted when it is written and at closure, and refused at the seal
  (`artifacts.py:1161`). A surface id and the place of a writeup have no maximum length
  (`semantic_contract.py:373`, `artifacts.py:77`); one that is too long for the name of a file is accepted as well,
  and refused at every completion when it is to be written (`semantic_materialization.py:233-240`).
  `AcceptedIsSealed` names these three, and says that the model has no fourth.
* The uninstall script (`uninstall.ts:11-15`) removes the MCP entries, the hook and the steering file. The rules of
  the permission file stay, for a key that is not registered any more.
* A server compares the schema version when it opens a connection, not in the transaction that follows
  (`db.py:102-120`). `OldServersStop` therefore allows one late act after an upgrade.
* The revision and the digest of a snapshot are read one after the other (`target.py:134-138`), so that a
  capture that is disturbed may be of no state the target ever had. `ResultIsOfTarget` speaks of captures that
  were not. Completion compares neither device and inode, nor a diff between commits.
* The dashboard shows the recovery request with the latest `updated_at`, which a call takes before its transaction
  (`followup.py:26`, `:236`). An open request is hidden behind an older one that is canceled once more from a stale
  page, and when it was created with a time from before the last change of the older one; `OpenIsLatest` says that
  there is no third way.
* Of two refreshes that overlap, the one that ends last wins, although it may have read first (the exception in
  `RestIsCurrent`).

Deadlock is switched off in `deep_discovery`, `scan_recovery`, `setup_view` and `report_documents`: discovery is
left, counters and the clock reach their bounds, a panel has nothing to do when nobody clicks, and a result
that was refused or sealed may be the last step. In the other runs TLC checks that there is none.

**Fairness.** Two runs assume any. In `scan_completion` (`SealedIsPublished`) a process that holds the lock runs
on (weak fairness: it waits for nothing); the kernel does not pass over the owner's call at the lock for ever,
although other calls keep taking it (strong fairness, as that call is enabled again and again); and the
chat that owns the scan keeps closing its review items and asking for completion, which is what the
errors of the tools tell it to do. Without the last, a scan nobody asks for stays sealed and
unpublished, which is how the code works: there is no daemon. In `setup_view` (`BusyEnds`) the timer of a
call fires, the window carries out its own next step, and the user does not leave a dialog open for ever; the
call itself is not assumed to answer, and nothing is assumed of refreshes other than the panel's own.

## Proofs

The theorems hold for all values of the constants that satisfy the assumptions named in each module:
sorts of the constants, finite sets where the code counts elements, `None` different from every value.
The bounds (`MaxAttempts`, `MaxVersion`, ...) are any natural numbers.

* **ScanCompletion.** The safety properties are not inductive: while `complete_scan` works, the files
  hold neither the old nor the new result. `IInv` adds where every process stands: `LockInv` (a process
  past the lock holds it), `DraftInv` (what a completing process works on is the result the artifacts
  determine, and the scan is its own), `FilesInv` (the files it has replaced hold its draft) and
  `ExportInv` (an export under way has read the pin of a published scan). The step theorem has one case
  per action. From it follow the type invariant, all four safety invariants, both action properties and
  the refinement of `SealedResult`.
* **DeepDiscovery.** The properties speak of rounds closed long ago, so `IInv` says how closed rounds
  lie: they form a prefix in which every merge found something new (`InOrder`), ids only grow along it
  (`IdsGrow`), it ends in an open round or is terminal (`OpenOrEnded`), and nothing answers a brief that
  may still change (`NothingBeforeBrief`). All six properties are proved.
* **PhaseChain.** `ChainIInv` adds which artifacts cannot exist yet (`NotBefore`) and what each phase has
  behind it (`Behind`). A rewritten artifact cannot unbind a later one because no later one exists, and
  the decision to skip phases is still the right one at the end because discovery is closed. All four
  properties are proved.
* **ScanStart.** What a call has read before is only worth what still follows from it, and `IInv` says what that
  is: the stamp of the workspace tells whether the scans it saw are all (`StampsAreTrue`); the directories it
  has read lie between the one it looked at and today's, so that they are all one if these two are
  (`ReadsAreOfPlace`); a diff is what was selected (`DiffsAreSelected`); an undisturbed capture is the snapshot
  of one state, and different states have different snapshots (`CapturesAreTrue`, `SnapshotsTell`). All four
  properties are proved.
* **ReportDocuments.** The seal checks a document against a contract of its own; the lemmas take its conditions
  one by one and find each in the write contract or the closure, the rewritten artifacts included, because
  completion checks them again; so do they with the reasons for which a file is not written. Both properties are proved.
* **ChatAttestation.** At any time an attestation is in one place: stored, held by one call, used, or gone
  (`Custody`); the time a hook has read is over (`HooksAreOld`); a server that was late has no connection left
  (`LateAreClosed`). All three properties are proved, for any number of versions.
* **ScanRecovery.** A delivery makes its chat the owner, and is the last handoff only because the request
  it delivers is the newest (`OnlyNewestOpen`); versions identify claims because no chat knows a version
  that is still to come (`TicketsAreOld`); a claim is exclusive because the time a call has read is over
  (`CallsAreOld`). `RowChanges` reduces all actions to the three ways in which rows and owner change
  together. All four properties are proved.

* **Remediation.** The transactions are decided on what a check has read before, and `IInv` says what that is
  still worth: rows only move forward and keep their base (`StatesMove`, `CallsFit`), a tree that is expected has
  its own patch, and is its base with it unless the check was disturbed (`Foreseen`); a check between two reads
  still finds the tree of the first, unless it was disturbed (`ApplyFits`, `AppliedFits`); and a chat with a result
  on its way has made no other call since, so that the result is of the attempt it claimed. A claim is of an attempt that exists (`LeasesFit`). All
  four properties are proved; `OneLiveAttempt` is the one the run refutes.
* **FindingTracking.** Whether an answer may be repeated depends on what the chat still knows, so
  `TrackingIInv` relates the two sides: a call names what its chat knows (`CallNamesKnown`), a call past the
  delivery is one that the delivered row answers (`RecheckIsOfDelivery`), the chat of a delivery knows enough of it
  (`DeliveryIsKnown`). A takeover by another chat cannot break them, because a delivered request is never claimed
  again. Both properties are proved.
* **Integration.** `InstallIInv` says what a window has behind it at each of its steps: it has the key on disk
  from its activation on (`HasKey`), it is past the lock with a runtime that is not of its version, and keeps what
  it has moved away (`ReplacesRuntime`), what it is about to rename is what it has read and, unless the user came in
  between, what is still there (`RenamesOverRead`), an entry under our key in what it has read came after its
  inspection (`ReadsUnseen`), and it knows the keys it has removed (`OwesWhileAtPolicy`). The
  locks are part of the type invariant, so that at most one window is past each. All five properties are proved, for
  any number of windows and versions.
* **SetupView.** That the page at rest is current is about the order of refreshes that end long after they have
  started. `NumbersOK` says that refreshes under way have numbers of their own and that the newest is under way
  exactly as long as it has not rendered; `NewestIsCurrent`, that as long as none was overtaken what the newest has
  read, received or rendered is what this panel has done by then, up to what the action under way will still refresh
  (`Owes`); `OwnEndsAction`, that the panel's own refresh is the end of an action. `JobOK` keeps what an action has
  looked at, `HalfwayIsComplete` what a projection has read first. `RequestsOK` (one open request in a scan, the time of
  a row at most that of its last commit) and the reduction of the workbench to three kinds of change (`CarriesSo`,
  `OthersDoSo`) give `OpenIsLatest`. All safety and action properties are proved, for any number of overlapping refreshes.

A property that a theorem establishes and no run could add to is left to the theorem: the type invariants of
these modules, `SealIsFrozen`, `SealedNeverTerminated` (which a run checks as part of
`ImplementsSealedResult`), `DiscoveryStaysClosed` and `VersionIdentifiesClaim`.

Only model-checked: liveness (`SealedIsPublished`, `BusyEnds`), since proofs about fairness and ENABLED are out of
the prover's reach. `OneLiveAttempt` is refuted. Everything else that the runs check is also proved. The
inductive invariants of `FindingTracking`, `Integration` and `SetupView` were checked by TLC on the instances of the
runs before they were proved.

## Plan

1. Composition: `ScanRecovery` with `ScanCompletion`, which needs the lock in `ScanRecovery` to match a transfer
   step by step; `DeepDiscovery` as a refinement of the discovery phase of `PhaseChain`.
2. Read faults in `ScanCompletion`: `has_sealed_manifest` answers FALSE on any error, and fail, cancel, write
   and complete all ask it. What should hold in spite of that is `CompleteIsSealed` and `ExportsArePublished`.
3. The uninstall script beside `Integration`, with a smaller instance than that of the installs, and locks taken
   over from suspended windows.
4. Proofs: the steps of the composition of item 1, and what its actions have in common; every safety and action
   property of the present modules is proved.

## Not modelled

* Forms and texts: the form of single fields of a document, the schemas of the tools, the texts of
  `phase_contracts.py`, which only instruct the chat, and the layout of the page change no shared state.
* Inside a capture: scopes, submodules, ignored files, diffs between commits, and changes while a digest walks
  the files. A capture reads them with git and keeps nothing.
* In the database: retries while it is busy, and histories of migrations under other names.
* Of the extension: the uninstall script (three removals, none of which installs anything; beside two windows
  it makes the instance too large to be searched), permissions of files, the search for a Python interpreter.
* Read faults of the file system (item 2 of the plan): the models assume that a file that is there can be read.
