------------------------- MODULE DeepDiscovery_proofs -------------------------
(***************************************************************************)
(* Proofs about DeepDiscovery for every number of slots, rounds, agents and *)
(* candidates.                                                              *)
(*                                                                          *)
(* The properties speak about rounds that were closed long ago, so the      *)
(* inductive invariant IInv says how closed rounds lie: rounds with any     *)
(* artifact form a prefix whose merges all found something new (InOrder),   *)
(* canonical ids only grow along it (IdsGrow), the prefix either ends with  *)
(* an open round or is terminal (OpenOrEnded), and nothing exists before    *)
(* the brief is fixed (NothingBeforeBrief).                                 *)
(***************************************************************************)
EXTENDS DeepDiscovery, TLAPS

\* Before the brief is fixed there is no artifact that could answer it.
NothingBeforeBrief ==
    phase = "preflight" =>
        /\ discovery = None
        /\ \A r \in Round : merges[r] = None /\ \A w \in Slot : workers[r][w] = None

\* A round has artifacts only if every round before it closed with new ids.
InOrder ==
    \A r \in Round :
        merges[r] # None \/ (\E w \in Slot : workers[r][w] # None) =>
            \A q \in 1..(r - 1) : merges[q] # None /\ merges[q].novelty > 0

\* A later merge keeps the ids of an earlier one.
IdsGrow ==
    \A r \in Round : merges[r] # None =>
        \A q \in 1..(r - 1) : merges[q] # None /\ merges[q].ids \subseteq merges[r].ids

\* Some round is open, with nothing after it, or discovery has ended.
OpenOrEnded == (\E r \in Round : IsOpen(r) /\ ~ArtifactAfter(r)) \/ Terminated

\* The phase after discovery is the one its candidates ask for.
LeftClosed ==
    phase \in {"validation", "reporting"} =>
        discovery # None /\ (phase = "reporting" <=> discovery.ids = {})

IInv ==
    /\ TypeOK
    /\ NothingBeforeBrief
    /\ MergesStayBound
    /\ InOrder
    /\ IdsGrow
    /\ OpenOrEnded
    /\ DiscoveryStaysClosed
    /\ LeftClosed

\* What the round predicates read.
artifacts == <<brief, workers, merges, discovery>>

-----------------------------------------------------------------------------
(* The invariant holds initially and every step preserves it. *)

\* Round 1 is open at first.
LEMMA InitInv == Init => IInv
<1> USE RoundsAssumption, NoneAssumption
<1> SUFFICES ASSUME Init PROVE IInv
    OBVIOUS
<1>1. TypeOK
    BY DEF Init, TypeOK, Maybe, Round
<1>2. IsOpen(1) /\ ~ArtifactAfter(1) /\ 1 \in Round
    BY DEF Init, IsOpen, ArtifactAfter, Round
<1>3. OpenOrEnded
    BY <1>2 DEF OpenOrEnded
<1> QED
    BY <1>1, <1>3 DEF Init, IInv, NothingBeforeBrief, MergesStayBound, InOrder, IdsGrow,
        DiscoveryStaysClosed, LeftClosed

\* Every step keeps the types.
LEMMA TypeStep == TypeOK /\ [Next]_vars => TypeOK'
<1> SUFFICES ASSUME TypeOK, [Next]_vars PROVE TypeOK'
    OBVIOUS
<1> USE RoundsAssumption, BoundAssumption, NoneAssumption, BriefAssumption DEF TypeOK, Maybe
<1>1. CASE WriteBrief
    BY <1>1 DEF WriteBrief
<1>2. ASSUME NEW r \in Round, NEW w \in Slot, WriteWorker(r, w) PROVE TypeOK'
    BY <1>2 DEF WriteWorker
<1>3. ASSUME NEW a \in Agent, NEW r \in Round, NEW w \in Slot, ReadCheckpoint(a, r, w) PROVE TypeOK'
    BY <1>3 DEF ReadCheckpoint
<1>4. ASSUME NEW a \in Agent, NEW r \in Round, NEW w \in Slot, WriteCheckpoint(a, r, w) PROVE TypeOK'
  <2>1. PICK content \in [input : Brief, attempt : 0..MaxAttempts, failed : BOOLEAN, partial : Partial] :
            /\ IF checkpoints[r][w] = None THEN content.attempt > 0 ELSE Follows(checkpoints[r][w], content)
            /\ checkpoints' = [checkpoints EXCEPT ![r][w] = content]
            /\ seen' = [seen EXCEPT ![a] = [round |-> r, slot |-> w, content |-> content]]
    BY <1>4 DEF WriteCheckpoint
  <2>2. content \in Checkpoint
    BY <2>1 DEF Checkpoint, Follows
  <2> QED
    BY <1>4, <2>1, <2>2 DEF WriteCheckpoint
<1>5. ASSUME NEW r \in Round, WriteMerge(r) PROVE TypeOK'
    BY <1>5 DEF WriteMerge
<1>6. CASE WriteDiscovery
    BY <1>6 DEF WriteDiscovery
<1>7. CASE WriteThreatModel
    BY <1>7 DEF WriteThreatModel
<1>8. CASE Progress
    BY <1>8 DEF Progress
<1>9. CASE LeavePreflight
    BY <1>9 DEF LeavePreflight
<1>10. CASE LeaveDiscovery
    BY <1>10 DEF LeaveDiscovery
<1>11. CASE UNCHANGED vars
    BY <1>11 DEF vars
<1> QED
    BY <1>1, <1>2, <1>3, <1>4, <1>5, <1>6, <1>7, <1>8, <1>9, <1>10, <1>11 DEF Next

\* The conjuncts of the invariant that speak of rounds.
RoundInv == MergesStayBound /\ InOrder /\ IdsGrow /\ OpenOrEnded /\ DiscoveryStaysClosed

\* What a merge reads of its round depends on the workers of that round only.
LEMMA WorkersRead ==
    ASSUME NEW q \in Round, workers'[q] = workers[q], brief' = brief
    PROVE  /\ Sources(q)' = Sources(q)
           /\ WorkersComplete(q)' <=> WorkersComplete(q)
<1>1. Sources(q)' = Sources(q)
    BY DEF Sources
<1>2. WorkersComplete(q)' <=> WorkersComplete(q)
    BY DEF WorkersComplete, SlotsFilled, HasReceipt
<1> QED
    BY <1>1, <1>2

\* A merge stays bound while its round and the merges stay what they are.
LEMMA BindingRead ==
    ASSUME NEW q \in Round, workers'[q] = workers[q], brief' = brief,
           merges'[q] = merges[q], q > 1 => merges'[q - 1] = merges[q - 1]
    PROVE  (IsBound(q, merges[q]))' <=> IsBound(q, merges[q])
<1>1. PreviousIds(q)' = PreviousIds(q)
    BY DEF PreviousIds, Round
<1> QED
    BY <1>1, WorkersRead DEF IsBound

\* Steps that leave the brief and the artifacts alone leave the rounds alone.
LEMMA RoundsStutter == TypeOK /\ RoundInv /\ UNCHANGED artifacts => RoundInv'
<1> SUFFICES ASSUME TypeOK, RoundInv, UNCHANGED artifacts PROVE RoundInv'
    OBVIOUS
<1>1. \A q \in Round : (IsBound(q, merges[q]))' <=> IsBound(q, merges[q])
    BY BindingRead DEF artifacts
<1>2. \A q \in Round : (IsOpen(q)' <=> IsOpen(q)) /\ (ArtifactAfter(q)' <=> ArtifactAfter(q))
    BY DEF artifacts, IsOpen, ArtifactAfter
<1>3. \A q \in Round : RoundComplete(q)' <=> RoundComplete(q)
    BY <1>1 DEF artifacts, RoundComplete
<1>4. \A q \in Round, t \in {"saturated", "capped"} : IsTerminal(q, t)' <=> IsTerminal(q, t)
    BY <1>2, <1>3, RoundsAssumption DEF artifacts, IsTerminal, Round
<1>5. (MergesStayBound /\ InOrder /\ IdsGrow /\ OpenOrEnded)'
    BY <1>1, <1>2, <1>4 DEF RoundInv, artifacts, MergesStayBound, InOrder, IdsGrow, OpenOrEnded,
        Terminated
<1>6. ASSUME discovery # None PROVE DeepClosed'
  <2>1. discovery.rounds \in Round /\ discovery.termination \in {"saturated", "capped"}
    BY <1>6 DEF TypeOK, Maybe, Discovery
  <2> QED
    BY <1>2, <1>4, <1>6, <2>1 DEF RoundInv, artifacts, DiscoveryStaysClosed, DeepClosed
<1> QED
    BY <1>5, <1>6 DEF RoundInv, DiscoveryStaysClosed, artifacts

\* The brief changes only while there is nothing that answers it.
LEMMA BriefStep == IInv /\ WriteBrief => RoundInv'
<1> USE RoundsAssumption DEF Round
<1> SUFFICES ASSUME IInv, WriteBrief PROVE RoundInv'
    OBVIOUS
<1>1. /\ discovery = None
      /\ \A r \in Round : merges[r] = None
      /\ UNCHANGED <<workers, merges, discovery>>
    BY DEF IInv, NothingBeforeBrief, WriteBrief
<1>2. ~Terminated
    BY <1>1 DEF Terminated, IsTerminal, RoundComplete
<1>3. OpenOrEnded'
    BY <1>1, <1>2 DEF IInv, OpenOrEnded, IsOpen, ArtifactAfter
<1> QED
    BY <1>1, <1>3 DEF IInv, RoundInv, MergesStayBound, InOrder, IdsGrow, DiscoveryStaysClosed

\* A worker artifact goes to the open round: no merge has read its slot.
LEMMA WorkerStep ==
    ASSUME IInv, NEW r \in Round, NEW w \in Slot, WriteWorker(r, w)
    PROVE RoundInv'
<1> USE RoundsAssumption DEF Round
<1>1. /\ discovery = None
      /\ IsOpen(r)
      /\ ~ArtifactAfter(r)
      /\ UNCHANGED <<brief, merges, discovery>>
    BY DEF WriteWorker, MayWriteWorker, RoundIsWritable
<1>2. /\ merges[r] = None
      /\ \A q \in Round : q # r => workers'[q] = workers[q]
    BY <1>1 DEF WriteWorker, IsOpen, IInv, TypeOK
<1>3. MergesStayBound'
    BY <1>1, <1>2, BindingRead DEF IInv, MergesStayBound
<1>4. InOrder'
    BY <1>1, <1>2 DEF IInv, InOrder, IsOpen
<1>5. IdsGrow'
    BY <1>1 DEF IInv, IdsGrow
<1>6. OpenOrEnded'
    BY <1>1, <1>2 DEF OpenOrEnded, IsOpen, ArtifactAfter
<1>7. DiscoveryStaysClosed'
    BY <1>1 DEF DiscoveryStaysClosed
<1> QED
    BY <1>3, <1>4, <1>5, <1>6, <1>7 DEF RoundInv

\* A merge closes the open round: the next one opens, or discovery ends.
LEMMA MergeStep ==
    ASSUME IInv, NEW r \in Round, WriteMerge(r)
    PROVE RoundInv'
<1> USE RoundsAssumption, NoneAssumption DEF Round
<1>1. PICK merge \in Merge : IsBound(r, merge) /\ merges' = [merges EXCEPT ![r] = merge]
    BY DEF WriteMerge
<1>2. /\ discovery = None
      /\ IsOpen(r)
      /\ ~ArtifactAfter(r)
      /\ UNCHANGED <<brief, workers, discovery>>
    BY DEF WriteMerge, MayMerge, RoundIsWritable
<1>3. /\ merges[r] = None
      /\ merges'[r] = merge
      /\ merge # None
      /\ merge.novelty \in Nat
      /\ \A q \in Round : q # r => merges'[q] = merges[q]
      /\ \A q \in Round : q < r => merges[q] # None /\ merges[q].novelty > 0
      /\ \A q \in Round : q > r => merges[q] = None /\ \A w \in Slot : workers[q][w] = None
    BY <1>1, <1>2 DEF IsOpen, ArtifactAfter, IInv, TypeOK, Merge
<1>4. (IsBound(r, merges[r]))'
  <2>1. PreviousIds(r)' = PreviousIds(r)
    BY <1>3 DEF PreviousIds
  <2> QED
    BY <1>1, <1>2, <1>3, <2>1, WorkersRead DEF IsBound
<1>5. ASSUME NEW q \in Round, q < r PROVE (IsBound(q, merges[q]))'
    BY <1>2, <1>3, <1>5, BindingRead DEF IInv, MergesStayBound
<1>6. MergesStayBound'
    BY <1>3, <1>4, <1>5 DEF MergesStayBound
<1>7. InOrder'
    BY <1>2, <1>3 DEF IInv, InOrder
<1>8. IdsGrow'
  <2>1. ASSUME NEW q \in 1..(r - 1) PROVE merges[q].ids \subseteq merge.ids
    <3>1. PreviousIds(r) \subseteq merge.ids
        BY <1>1 DEF IsBound
    <3>2. PreviousIds(r) = merges[r - 1].ids
        BY <1>3, <2>1 DEF PreviousIds
    <3>3. q = r - 1 \/ q \in 1..((r - 1) - 1)
        BY <2>1
    <3> QED
        BY <1>3, <2>1, <3>1, <3>2, <3>3 DEF IInv, IdsGrow
  <2> QED
    BY <1>3, <2>1 DEF IInv, IdsGrow
<1>9. OpenOrEnded'
  <2>1. \A q \in 1..r : RoundComplete(q)'
    BY <1>3, <1>4, <1>5 DEF RoundComplete
  <2>2. ~ArtifactAfter(r)'
    BY <1>2, <1>3 DEF ArtifactAfter
  <2>3. CASE merge.novelty = 0
    BY <1>3, <2>1, <2>2, <2>3 DEF OpenOrEnded, Terminated, IsTerminal
  <2>4. CASE merge.novelty > 0 /\ r = MaxRounds
    BY <1>3, <2>1, <2>4 DEF OpenOrEnded, Terminated, IsTerminal
  <2>5. CASE merge.novelty > 0 /\ r < MaxRounds
    <3>1. r + 1 \in Round /\ IsOpen(r + 1)' /\ ~ArtifactAfter(r + 1)'
        BY <1>2, <1>3, <2>5 DEF IsOpen, ArtifactAfter
    <3> QED
        BY <3>1 DEF OpenOrEnded
  <2> QED
    BY <1>3, <2>3, <2>4, <2>5
<1>10. DiscoveryStaysClosed'
    BY <1>2 DEF DiscoveryStaysClosed
<1> QED
    BY <1>6, <1>7, <1>8, <1>9, <1>10 DEF RoundInv

\* The discovery artifact is accepted only in a terminal state and repeats it.
LEMMA DiscoveryStep == IInv /\ WriteDiscovery => RoundInv'
<1> USE RoundsAssumption DEF Round
<1> SUFFICES ASSUME IInv, WriteDiscovery PROVE RoundInv'
    OBVIOUS
<1>1. PICK content \in Discovery :
        /\ IsTerminal(content.rounds, content.termination)
        /\ content.ids = merges[content.rounds].ids
        /\ discovery' = content
    BY DEF WriteDiscovery
<1>2. UNCHANGED <<brief, workers, merges>>
    BY DEF WriteDiscovery
<1>3. ~ArtifactAfter(content.rounds)
    BY <1>1 DEF IsTerminal, ArtifactAfter, Discovery
<1>4. (IsTerminal(content.rounds, content.termination) /\ ~ArtifactAfter(content.rounds))'
    BY <1>1, <1>2, <1>3 DEF ArtifactAfter, IsTerminal, RoundComplete, IsBound, WorkersComplete,
        SlotsFilled, HasReceipt, Sources, PreviousIds
<1>5. (MergesStayBound /\ InOrder /\ IdsGrow /\ OpenOrEnded)'
  <2>1. \A q \in Round : (IsBound(q, merges[q]))' <=> IsBound(q, merges[q])
    BY <1>2, BindingRead
  <2>2. \A q \in Round : (IsOpen(q)' <=> IsOpen(q)) /\ (ArtifactAfter(q)' <=> ArtifactAfter(q))
    BY <1>2 DEF IsOpen, ArtifactAfter
  <2>3. Terminated'
    BY <1>1, <1>4 DEF Terminated, Discovery
  <2> QED
    BY <1>2, <2>1, <2>2, <2>3 DEF IInv, MergesStayBound, InOrder, IdsGrow, OpenOrEnded
<1>6. DiscoveryStaysClosed'
    BY <1>1, <1>2, <1>4 DEF DiscoveryStaysClosed, DeepClosed, IsTerminal, ArtifactAfter,
        RoundComplete, IsBound, WorkersComplete, SlotsFilled, HasReceipt, Sources, PreviousIds
<1> QED
    BY <1>5, <1>6 DEF RoundInv

-----------------------------------------------------------------------------
(* The theorems. *)

\* Every step preserves the invariant.
LEMMA StepInv == IInv /\ [Next]_vars => IInv'
<1> SUFFICES ASSUME IInv, [Next]_vars PROVE IInv'
    OBVIOUS
<1>1. TypeOK'
    BY TypeStep DEF IInv
<1>2. RoundInv'
  <2>1. RoundInv
    BY DEF IInv, RoundInv
  <2>2. CASE WriteBrief
    BY <2>2, BriefStep
  <2>3. CASE \E r \in Round, w \in Slot : WriteWorker(r, w)
    BY <2>3, WorkerStep
  <2>4. CASE \E r \in Round : WriteMerge(r)
    BY <2>4, MergeStep
  <2>5. CASE WriteDiscovery
    BY <2>5, DiscoveryStep
  <2>6. CASE UNCHANGED artifacts
    BY <2>1, <2>6, RoundsStutter DEF IInv
  <2> QED
    BY <2>2, <2>3, <2>4, <2>5, <2>6 DEF Next, ReadCheckpoint, WriteCheckpoint, WriteThreatModel,
        Progress, LeavePreflight, LeaveDiscovery, vars, artifacts
<1>3. NothingBeforeBrief'
    BY DEF IInv, NothingBeforeBrief, Next, WriteBrief, WriteWorker, MayWriteWorker, ReadCheckpoint,
        WriteCheckpoint, WriteMerge, MayMerge, WriteDiscovery, MayDiscover, WriteThreatModel,
        Progress, LeavePreflight, LeaveDiscovery, RoundIsWritable, InDiscovery, vars
<1>4. LeftClosed'
    BY DEF IInv, LeftClosed, Next, WriteBrief, WriteWorker, ReadCheckpoint, WriteCheckpoint,
        WriteMerge, WriteDiscovery, MayDiscover, InDiscovery, WriteThreatModel, Progress,
        LeavePreflight, LeaveDiscovery, DeepClosed, vars
<1> QED
    BY <1>1, <1>2, <1>3, <1>4 DEF IInv, RoundInv

\* The invariant holds in every behavior.
LEMMA Invariance == Spec => []IInv
<1>1. Init => IInv
    BY InitInv
<1>2. IInv /\ [Next]_vars => IInv'
    BY StepInv
<1> QED
    BY <1>1, <1>2, PTL DEF Spec

\* Every variable keeps its type (the artifacts of write and the phases of
\* update_scan_progress).
THEOREM TypeCorrect == Spec => []TypeOK
<1>1. IInv => TypeOK
    BY DEF IInv
<1> QED
    BY <1>1, Invariance, PTL

\* No merge of _require_deep_merge_binding ever comes apart from the workers and
\* the merges it was checked against.
THEOREM MergesAreDurable == Spec => []MergesStayBound
<1>1. IInv => MergesStayBound
    BY DEF IInv
<1> QED
    BY <1>1, Invariance, PTL

\* _deep_writable_schema_keys is never empty while discovery goes on.
THEOREM AlwaysWritable == Spec => []NeverStuck
<1>1. IInv => NeverStuck
    BY DEF IInv, OpenOrEnded, DiscoveryStaysClosed, NeverStuck, RoundIsWritable, MayDiscover,
        MayModelThreats
<1> QED
    BY <1>1, Invariance, PTL

\* _deep_discovery_closure has nothing to miss once discovery is written.
THEOREM ClosureIsStable == Spec => []DiscoveryStaysClosed
<1>1. IInv => DiscoveryStaysClosed
    BY DEF IInv
<1> QED
    BY <1>1, Invariance, PTL

\* Every candidate of every worker reaches the phase after discovery.
THEOREM CandidatesSurvive == Spec => []NothingIsLost
<1> USE RoundsAssumption DEF Round
<1>1. IInv => NothingIsLost
  <2> SUFFICES ASSUME IInv, phase \in {"validation", "reporting"}, NEW r \in Round, NEW s \in Source,
                      workers[r][s[1]] # None, s[2] \in workers[r][s[1]].found
               PROVE  /\ phase = "validation"
                      /\ merges[r] # None
                      /\ s \in DOMAIN merges[r].lineage
                      /\ merges[r].lineage[s] \in discovery.ids
    BY DEF NothingIsLost
  <2> DEFINE last == discovery.rounds
  <2>1. DeepClosed /\ last \in Round
    BY DEF IInv, LeftClosed, DiscoveryStaysClosed, TypeOK, Maybe, Discovery
  <2>2. r <= last
    BY <2>1 DEF DeepClosed, ArtifactAfter, Source
  <2>3. merges[r] # None /\ merges[last] # None
    BY <2>1, <2>2 DEF DeepClosed, IsTerminal, RoundComplete
  <2>4. s \in DOMAIN merges[r].lineage /\ merges[r].lineage[s] \in merges[r].ids
    BY <2>3 DEF IInv, MergesStayBound, IsBound, Sources, Range
  <2>5. merges[r].ids \subseteq merges[last].ids
    BY <2>1, <2>2, <2>3 DEF IInv, IdsGrow
  <2>6. merges[r].lineage[s] \in discovery.ids
    BY <2>1, <2>4, <2>5 DEF DeepClosed
  <2> QED
    BY <2>3, <2>4, <2>6 DEF IInv, LeftClosed
<1> QED
    BY <1>1, Invariance, PTL

\* The compare and swap of write keeps the progress another agent saved.
THEOREM ProgressIsKept == Spec => NoLostProgress
<1>1. IInv /\ [Next]_vars =>
        [\A r \in Round, w \in Slot :
            checkpoints[r][w] # None /\ checkpoints'[r][w] # checkpoints[r][w] =>
                \E a \in Agent : seen'[a] # seen[a]
                    /\ seen[a] = [round |-> r, slot |-> w, content |-> checkpoints[r][w]]]_vars
  <2> SUFFICES ASSUME IInv, [Next]_vars, NEW r \in Round, NEW w \in Slot,
                      checkpoints[r][w] # None, checkpoints'[r][w] # checkpoints[r][w]
               PROVE  \E a \in Agent : seen'[a] # seen[a]
                          /\ seen[a] = [round |-> r, slot |-> w, content |-> checkpoints[r][w]]
    OBVIOUS
  <2>1. PICK a \in Agent, q \in Round, v \in Slot : WriteCheckpoint(a, q, v)
    BY DEF Next, WriteBrief, WriteWorker, ReadCheckpoint, WriteMerge, WriteDiscovery,
        WriteThreatModel, Progress, LeavePreflight, LeaveDiscovery, vars
  <2>2. PICK content : /\ checkpoints' = [checkpoints EXCEPT ![q][v] = content]
                       /\ seen' = [seen EXCEPT ![a] = [round |-> q, slot |-> v, content |-> content]]
    BY <2>1 DEF WriteCheckpoint
  <2>3. q = r /\ v = w /\ content = checkpoints'[r][w]
    BY <2>2 DEF IInv, TypeOK
  <2>4. seen[a] = [round |-> r, slot |-> w, content |-> checkpoints[r][w]]
    BY <2>1, <2>3 DEF WriteCheckpoint, PresentsDigest
  <2>5. seen'[a].content = checkpoints'[r][w] /\ seen[a].content = checkpoints[r][w]
    BY <2>2, <2>3, <2>4 DEF IInv, TypeOK
  <2> QED
    BY <2>4, <2>5
<1> QED
    BY <1>1, Invariance, PTL DEF Spec, NoLostProgress
=============================================================================
