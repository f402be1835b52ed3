---------------------------- MODULE DeepDiscovery ----------------------------
(***************************************************************************)
(* The discovery phase of a deep scan.  A round has a fixed number of       *)
(* worker slots; each slot is closed by one worker artifact, checkpointed   *)
(* until then, and the round is closed by a merge that gives every worker   *)
(* candidate a canonical id.  A round whose merge finds nothing new ends    *)
(* discovery (saturated), and so does the last round allowed (capped); then *)
(* the discovery artifact and the threat model are written and the scan     *)
(* leaves the phase.                                                        *)
(*                                                                          *)
(* No counter says which round is open: write_scan_artifact derives it from *)
(* the artifacts that exist, each time, and so does the contract that tells *)
(* a chat what it may write.  Artifacts are written one call at a time under *)
(* the scan lock, by several agents of the chat (or of its successor after a *)
(* recovery) in any order, each deciding on what it read some time ago.      *)
(*                                                                          *)
(* Abstractions.  A brief stands for the file, its worklist and the digests  *)
(* of both, so that a worker names its brief where the code compares         *)
(* inputDigest, worklistDigest and the receipts of every worklist row.  Text *)
(* is a member of Partial.  A scan that ends early just takes no more steps. *)
(***************************************************************************)
EXTENDS Integers, FiniteSets, Functions

CONSTANTS
    Slot,           \* the worker slots of a round (four in the code)
    MaxRounds,      \* the cap on rounds (ten in the code)
    Agent,          \* agents that write checkpoints
    Candidate,      \* ids a worker gives its candidates
    Canonical,      \* ids a merge gives them
    Brief,          \* briefs preflight may write
    ReadyBrief,     \* those that are ready, with source inspection
    Partial,        \* partial results of a checkpoint
    None,           \* an absent artifact
    MaxAttempts,    \* bound on the attempts of one slot
    MaxCheckpoints  \* bound on checkpoint writes

Round == 1..MaxRounds
Worker == [input : Brief, found : SUBSET Candidate]
Checkpoint == [input : Brief, attempt : 1..MaxAttempts, failed : BOOLEAN, partial : Partial]
Source == Slot \X Candidate
Merge == [ids : SUBSET Canonical,
          lineage : UNION {[S -> Canonical] : S \in SUBSET Source},
          novelty : 0..Cardinality(Canonical)]
Discovery == [ids : SUBSET Canonical, rounds : Round, termination : {"saturated", "capped"}]

Maybe(S) == {None} \cup S

ASSUME RoundsAssumption == MaxRounds \in Nat \ {0}
ASSUME SlotAssumption == IsFiniteSet(Slot) /\ Slot # {}
ASSUME CandidateAssumption == IsFiniteSet(Candidate) /\ IsFiniteSet(Canonical)
ASSUME BriefAssumption == ReadyBrief \subseteq Brief
ASSUME BoundAssumption == MaxAttempts \in Nat /\ MaxCheckpoints \in Nat
ASSUME NoneAssumption ==
    None \notin Brief \cup Worker \cup Checkpoint \cup Merge \cup Discovery

VARIABLES
    phase,          \* "preflight", "discovery", or the phase after it
    reviewClosed,   \* reviewItemsCompleted = reviewItemsTotal
    brief,          \* the brief
    workers,        \* workers[r][w]: the worker artifact of slot w in round r
    checkpoints,    \* checkpoints[r][w]: its checkpoint
    merges,         \* merges[r]: the merge of round r
    discovery,      \* the discovery artifact
    threatModel,    \* whether threat-model exists
    seen,           \* the checkpoint an agent read last, whose digest it presents
    written         \* checkpoints written so far, for MaxCheckpoints

vars == <<phase, reviewClosed, brief, workers, checkpoints, merges, discovery, threatModel,
          seen, written>>

Init ==
    /\ phase = "preflight"
    /\ reviewClosed = TRUE
    /\ brief = None
    /\ workers = [r \in Round |-> [w \in Slot |-> None]]
    /\ checkpoints = [r \in Round |-> [w \in Slot |-> None]]
    /\ merges = [r \in Round |-> None]
    /\ discovery = None
    /\ threatModel = FALSE
    /\ seen = [a \in Agent |-> None]
    /\ written = 0

-----------------------------------------------------------------------------
(* What the artifacts say about the rounds. *)

\* The first round without a merge, unless an earlier merge found nothing new.
IsOpen(r) ==
    /\ merges[r] = None
    /\ \A q \in 1..(r - 1) : merges[q] # None /\ merges[q].novelty > 0

\* The worker answers the canonical brief and covers its worklist.
HasReceipt(worker) == worker.input = brief

SlotsFilled(r) == \A w \in Slot : workers[r][w] # None
WorkersComplete(r) == SlotsFilled(r) /\ \A w \in Slot : HasReceipt(workers[r][w])

\* The candidates of a round, each with the slot that reported it.
Sources(r) == {s \in Source : workers[r][s[1]] # None /\ s[2] \in workers[r][s[1]].found}

ForgetsPreviousIds(r) == {}
PreviousIds(r) == IF r > 1 /\ merges[r - 1] # None THEN merges[r - 1].ids ELSE {}

\* A merge accounts for each worker candidate of its round once, keeps the ids
\* before it, adds nothing else, and counts what is new.
IsBound(r, merge) ==
    /\ WorkersComplete(r)
    /\ DOMAIN merge.lineage = Sources(r)
    /\ merge.ids = PreviousIds(r) \cup Range(merge.lineage)
    /\ merge.novelty = Cardinality(merge.ids \ PreviousIds(r))

RoundComplete(r) == merges[r] # None /\ IsBound(r, merges[r])

ArtifactAfter(r) ==
    \E q \in Round : q > r /\ (merges[q] # None \/ \E w \in Slot : workers[q][w] # None)

\* Discovery ends with round r, for the reason given.
IsTerminal(r, termination) ==
    /\ \A q \in 1..r : RoundComplete(q)
    /\ \A q \in 1..(r - 1) : merges[q].novelty > 0
    /\ \/ merges[r].novelty = 0 /\ ~ArtifactAfter(r) /\ termination = "saturated"
       \/ merges[r].novelty > 0 /\ r = MaxRounds /\ termination = "capped"
Terminated == \E r \in Round, t \in {"saturated", "capped"} : IsTerminal(r, t)

\* Nothing is missing from deep discovery.
DeepClosed ==
    /\ discovery # None
    /\ IsTerminal(discovery.rounds, discovery.termination)
    /\ ~ArtifactAfter(discovery.rounds)
    /\ discovery.ids = merges[discovery.rounds].ids

-----------------------------------------------------------------------------
(* The artifact contract: what may be written now. *)

InDiscovery == phase = "discovery"
RoundIsWritable(r) ==
    InDiscovery /\ discovery = None /\ ~Terminated /\ IsOpen(r) /\ ~ArtifactAfter(r)

WorkersStayOpen(r, w) == InDiscovery /\ \A q \in 1..(r - 1) : merges[q] # None
NextRoundStaysOpen(r, w) == WorkersStayOpen(r, w) /\ workers[r][w] = None /\ merges[r] = None
MayWriteWorker(r, w) == RoundIsWritable(r) /\ workers[r][w] = None
MayWriteCheckpoint(r, w) == RoundIsWritable(r) /\ ~WorkersComplete(r) /\ workers[r][w] = None
MayMerge(r) == RoundIsWritable(r) /\ WorkersComplete(r)
MayDiscover == InDiscovery /\ discovery = None /\ Terminated
MayModelThreats == InDiscovery /\ DeepClosed

-----------------------------------------------------------------------------
(* The calls. *)

\* write_scan_artifact of a brief, until preflight is left.
WriteBrief ==
    /\ phase = "preflight"
    /\ brief' \in Brief
    /\ UNCHANGED <<phase, reviewClosed, workers, checkpoints, merges, discovery, threatModel,
                   seen, written>>

\* A worker artifact closes its slot and is immutable.
WriteWorker(r, w) ==
    /\ MayWriteWorker(r, w)
    /\ \E worker \in Worker :
        /\ HasReceipt(worker)
        /\ workers' = [workers EXCEPT ![r][w] = worker]
    /\ UNCHANGED <<phase, reviewClosed, brief, checkpoints, merges, discovery, threatModel,
                   seen, written>>

ReadCheckpoint(a, r, w) ==
    /\ checkpoints[r][w] # None
    /\ seen' = [seen EXCEPT ![a] = [round |-> r, slot |-> w, content |-> checkpoints[r][w]]]
    /\ UNCHANGED <<phase, reviewClosed, brief, workers, checkpoints, merges, discovery,
                   threatModel, written>>

PresentsNothing(a, r, w) == TRUE
\* The agent presents the digest of the checkpoint it read last, or none for
\* the first checkpoint of a slot.
PresentsDigest(a, r, w) ==
    \/ checkpoints[r][w] = None
    \/ seen[a] = [round |-> r, slot |-> w, content |-> checkpoints[r][w]]

\* An attempt goes on until it fails; then a new one starts.
Follows(before, after) ==
    \/ after = before
    \/ /\ after.input = before.input
       /\ after.attempt = before.attempt + 1 \/ (after.attempt = before.attempt /\ ~before.failed)

\* The first attempt of a slot may have any number: the code asks only that it
\* is positive.
WriteCheckpoint(a, r, w) ==
    /\ written < MaxCheckpoints
    /\ MayWriteCheckpoint(r, w)
    /\ PresentsDigest(a, r, w)
    /\ \E content \in [input : Brief, attempt : 0..MaxAttempts, failed : BOOLEAN,
                       partial : Partial] :
        /\ HasReceipt(content)
        /\ IF checkpoints[r][w] = None THEN content.attempt > 0 ELSE Follows(checkpoints[r][w], content)
        /\ checkpoints' = [checkpoints EXCEPT ![r][w] = content]
        /\ seen' = [seen EXCEPT ![a] = [round |-> r, slot |-> w, content |-> content]]
    /\ written' = written + 1
    /\ UNCHANGED <<phase, reviewClosed, brief, workers, merges, discovery, threatModel>>

WriteMerge(r) ==
    /\ MayMerge(r)
    /\ \E merge \in Merge :
        /\ IsBound(r, merge)
        /\ merges' = [merges EXCEPT ![r] = merge]
    /\ UNCHANGED <<phase, reviewClosed, brief, workers, checkpoints, discovery, threatModel,
                   seen, written>>

\* The discovery artifact repeats the terminal state and the ids of its merge.
WriteDiscovery ==
    /\ MayDiscover
    /\ \E content \in Discovery :
        /\ IsTerminal(content.rounds, content.termination)
        /\ content.ids = merges[content.rounds].ids
        /\ discovery' = content
    /\ UNCHANGED <<phase, reviewClosed, brief, workers, checkpoints, merges, threatModel,
                   seen, written>>

WriteThreatModel ==
    /\ MayModelThreats
    /\ threatModel' = TRUE
    /\ UNCHANGED <<phase, reviewClosed, brief, workers, checkpoints, merges, discovery,
                   seen, written>>

\* update_scan_progress within a phase: counters grow, and a new deep review
\* pass may set them back, so that items are reopened and closed at will.
Progress ==
    /\ phase \in {"preflight", "discovery"}
    /\ reviewClosed' \in BOOLEAN
    /\ UNCHANGED <<phase, brief, workers, checkpoints, merges, discovery, threatModel,
                   seen, written>>

LeavePreflight ==
    /\ phase = "preflight"
    /\ brief \in ReadyBrief
    /\ phase' = "discovery"
    /\ reviewClosed' \in BOOLEAN
    /\ UNCHANGED <<brief, workers, checkpoints, merges, discovery, threatModel, seen, written>>

\* With no candidate the scan goes straight to its report.
LeaveDiscovery ==
    /\ phase = "discovery"
    /\ DeepClosed
    /\ threatModel
    /\ reviewClosed
    /\ phase' = IF discovery.ids = {} THEN "reporting" ELSE "validation"
    /\ reviewClosed' \in BOOLEAN
    /\ UNCHANGED <<brief, workers, checkpoints, merges, discovery, threatModel, seen, written>>

Next ==
    \/ WriteBrief
    \/ \E r \in Round, w \in Slot : WriteWorker(r, w)
    \/ \E a \in Agent, r \in Round, w \in Slot : ReadCheckpoint(a, r, w)
    \/ \E a \in Agent, r \in Round, w \in Slot : WriteCheckpoint(a, r, w)
    \/ \E r \in Round : WriteMerge(r)
    \/ WriteDiscovery
    \/ WriteThreatModel
    \/ Progress
    \/ LeavePreflight
    \/ LeaveDiscovery

Spec == Init /\ [][Next]_vars

-----------------------------------------------------------------------------
\* The type invariant of every variable.
TypeOK ==
    /\ phase \in {"preflight", "discovery", "validation", "reporting"}
    /\ reviewClosed \in BOOLEAN /\ threatModel \in BOOLEAN
    /\ brief \in Maybe(Brief)
    /\ workers \in [Round -> [Slot -> Maybe(Worker)]]
    /\ checkpoints \in [Round -> [Slot -> Maybe(Checkpoint)]]
    /\ merges \in [Round -> Maybe(Merge)]
    /\ discovery \in Maybe(Discovery)
    /\ seen \in [Agent -> Maybe([round : Round, slot : Slot, content : Checkpoint])]
    /\ written \in Nat

\* A merge stays bound to the workers of its round and to the merges before it,
\* long after the round was closed: nothing written later changes an input of
\* it, the brief included.
MergesStayBound == \A r \in Round : merges[r] # None => IsBound(r, merges[r])

\* While discovery goes on some artifact is always writable, and none of a later
\* round exists: no order of legal writes of concurrent agents leaves rounds that
\* are neither open nor terminal, for which the contract would be empty for ever.
NeverStuck ==
    InDiscovery => \/ \E r \in Round : RoundIsWritable(r)
                   \/ MayDiscover
                   \/ MayModelThreats

\* Once the discovery artifact exists its closure holds for good, so that
\* require_phase_exit can never refuse the exit with deep_round_incomplete.
DiscoveryStaysClosed == discovery # None => DeepClosed

\* When the phase is left, every candidate any worker of any round reported is in
\* the discovery artifact under the id its merge gave it, and a scan goes straight
\* to reporting only if no worker reported anything.
NothingIsLost ==
    phase \in {"validation", "reporting"} =>
        \A r \in Round, s \in Source :
            workers[r][s[1]] # None /\ s[2] \in workers[r][s[1]].found =>
                /\ phase = "validation"
                /\ merges[r] # None
                /\ s \in DOMAIN merges[r].lineage
                /\ merges[r].lineage[s] \in discovery.ids

\* A checkpoint is replaced only by an agent that read it: of two agents that
\* resume one slot, the second does not overwrite the progress of the first.
NoLostProgress ==
    [][\A r \in Round, w \in Slot :
        checkpoints[r][w] # None /\ checkpoints'[r][w] # checkpoints[r][w] =>
            \E a \in Agent : seen'[a] # seen[a]
                /\ seen[a] = [round |-> r, slot |-> w, content |-> checkpoints[r][w]]]_vars
=============================================================================
