------------------------ MODULE ScanCompletion_proofs ------------------------
(***************************************************************************)
(* Proofs about ScanCompletion, for every set of chats, findings and       *)
(* coverage documents and every bound.  The four safety invariants are not *)
(* inductive: they depend on who holds the scan lock and on how far a      *)
(* completing process has come.  IInv adds both.                           *)
(***************************************************************************)
EXTENDS ScanCompletion, TLAPS

\* The lock belongs to the process that runs under it.
LockInv == \A s \in Session : pc[s] \in LockedStep <=> lock = s

\* The steps at which a completing process has replaced each file.
Working == MaterializeStep \cup SealStep \cup {"publish"}
Sealing == SealStep \ {"finalize"}
HasWriteups == Working \ {"writeups"}
HasReceipts == HasWriteups \ {"receipts"}
HasFindings == {"coverage", "manifest", "finalize"}
HasCoverage == SealStep \cup {"manifest", "publish"}
HasFinalFindings == {"seal_coverage", "seal_report", "seal_manifest", "publish"}

\* What a completing process s works on is the scan it owns and the artifacts
\* as they are.
DraftInv == \A s \in Session : pc[s] \in Working =>
    /\ status = "running"
    /\ owner = s
    /\ draft[s] \in Manifest
    /\ canonical = draft[s].findings
    /\ surfaces = draft[s].coverage
    /\ draft[s].receipts = surfaces
    /\ canonical = {} \/ writeup = canonical
    /\ draft[s].sealed <=> pc[s] \in Sealing \cup {"publish"}
    /\ HasSealedManifest <=> pc[s] = "publish"

\* The files that a completing process s has replaced hold its draft.
FilesInv == \A s \in Session :
    /\ pc[s] \in HasWriteups => draft[s].findings \subseteq writeupFiles
    /\ pc[s] \in HasReceipts => receiptFiles = draft[s].receipts
    /\ pc[s] \in HasFindings => findingsFile = [set |-> draft[s].findings, final |-> FALSE]
    /\ pc[s] \in HasCoverage => coverageFile = draft[s].coverage
    /\ pc[s] \in HasFinalFindings => findingsFile = [set |-> draft[s].findings, final |-> TRUE]
    /\ pc[s] \in {"finalize", "publish"} => manifestFile = draft[s]

\* An export under way has read the pin of a published scan.
ExportInv == exporting # None => status = "complete" /\ exporting = pin

IInv == TypeOK /\ LockInv /\ DraftInv /\ FilesInv /\ ExportInv /\ Safety

\* The parts that concern a scan which is published or given up.
Published == ExportInv /\ CompleteIsSealed /\ SealedNeverTerminated /\ ExportsArePublished

-----------------------------------------------------------------------------
(* The invariant holds initially. *)

\* Nothing is sealed, exported or locked at first.
LEMMA InitInv == Init => IInv
<1> SUFFICES ASSUME Init PROVE IInv
    OBVIOUS
<1>1. TypeOK
    <2>1. pc \in [Session -> {"idle", "waiting"} \cup LockedStep] /\ op \in [Session -> Op]
        BY DEF Init, Op
    <2>2. draft \in [Session -> Maybe(Manifest)]
        BY DEF Init, Maybe
    <2>3. total \in Nat /\ done \in 0..total /\ attempts \in Nat /\ transfers \in Nat /\ interrupts \in Nat
        BY DEF Init
    <2> QED
        BY <2>1, <2>2, <2>3 DEF Init, TypeOK, Maybe
<1>2. LockInv /\ DraftInv /\ FilesInv /\ ExportInv
    BY NoneAssumption
    DEF Init, LockInv, DraftInv, FilesInv, ExportInv, LockedStep, MaterializeStep, SealStep,
        Working, HasWriteups, HasReceipts, HasFindings, HasCoverage, HasFinalFindings
<1>3. Safety
    BY DEF Init, Safety, CompleteIsSealed, SealedNeverTerminated, SealBindsArtifacts,
           ExportsArePublished, HasSealedManifest
<1> QED
    BY <1>1, <1>2, <1>3 DEF IInv

-----------------------------------------------------------------------------
(* Every step preserves each part of it. *)

\* A completing process works on a manifest, so no step gives a variable a value
\* of another type.
LEMMA TypeStep == TypeOK /\ DraftInv /\ FilesInv /\ [Next]_vars => TypeOK'
<1> SUFFICES ASSUME TypeOK, DraftInv, FilesInv, [Next]_vars PROVE TypeOK'
    OBVIOUS
<1> USE BoundsAssumption, NoneAssumption DEF row, semantic, files, world, counters,
        processes, Maybe, TypeOK, Op, LegalCounts, LockedStep, MaterializeStep,
        SealStep, Manifest, FindingsDocument, Working, DraftInv, SealValid, FilesInv,
        HasFindings, HasReceipts, HasWriteups, HasCoverage, CanMaterialize,
        ReadyToComplete, ClosureComplete
<1>0. CASE UNCHANGED vars
    BY <1>0 DEF vars
<1>1. ASSUME NEW s \in Session, NEW o \in Op, Request(s, o) PROVE TypeOK'
    BY <1>1 DEF Request, Op
<1>2. ASSUME NEW s \in Session, Acquire(s) PROVE TypeOK'
    BY <1>2 DEF Acquire
<1>3. ASSUME NEW s \in Session, WriteArtifact(s) PROVE TypeOK'
    BY <1>3 DEF WriteArtifact, Release
<1>4. ASSUME NEW s \in Session, UpdateProgress(s) PROVE TypeOK'
    BY <1>4 DEF UpdateProgress, Release
<1>5. ASSUME NEW s \in Session, FailScan(s) PROVE TypeOK'
    BY <1>5 DEF FailScan, Release
<1>6. ASSUME NEW s \in Session, CancelScan(s) PROVE TypeOK'
    BY <1>6 DEF CancelScan, Release
<1>7. ASSUME NEW s \in Session, DeliverRecovery(s) PROVE TypeOK'
    BY <1>7 DEF DeliverRecovery, Release
<1>8. ASSUME NEW s \in Session, BeginMaterialize(s) PROVE TypeOK'
    <2>1. draft'[s] \in Manifest
        BY <1>8 DEF BeginMaterialize
    <2> QED
        BY <2>1, <1>8 DEF BeginMaterialize
<1>9. ASSUME NEW s \in Session, ReuseSeal(s) PROVE TypeOK'
    BY <1>9 DEF ReuseSeal
<1>10. ASSUME NEW s \in Session, RegenerateReport(s) PROVE TypeOK'
    BY <1>10 DEF RegenerateReport, Release
<1>11. ASSUME NEW s \in Session, MaterializeWriteups(s) PROVE TypeOK'
    BY <1>11 DEF MaterializeWriteups, Advance
<1>12. ASSUME NEW s \in Session, MaterializeReceipts(s) PROVE TypeOK'
    BY <1>12 DEF MaterializeReceipts, Advance
<1>13. ASSUME NEW s \in Session, MaterializeFindings(s) PROVE TypeOK'
    BY <1>13 DEF MaterializeFindings, Advance
<1>14. ASSUME NEW s \in Session, MaterializeCoverage(s) PROVE TypeOK'
    BY <1>14 DEF MaterializeCoverage, Advance
<1>15. ASSUME NEW s \in Session, MaterializeManifest(s) PROVE TypeOK'
    BY <1>15 DEF MaterializeManifest, Advance
<1>16. ASSUME NEW s \in Session, FinalizeInputs(s) PROVE TypeOK'
    <2>1. findingsFile.set \in SUBSET Finding /\ coverageFile \in Coverage
            /\ receiptFiles \in Coverage /\ manifestFile.at \in Nat
        BY <1>16 DEF FinalizeInputs, Advance
    <2>2. draft'[s] \in Manifest
        BY <2>1, <1>16 DEF FinalizeInputs
    <2> QED
        BY <2>1, <2>2, <1>16 DEF FinalizeInputs, Advance
<1>17. ASSUME NEW s \in Session, SealFindings(s) PROVE TypeOK'
    BY <1>17 DEF SealFindings, Advance
<1>18. ASSUME NEW s \in Session, SealCoverage(s) PROVE TypeOK'
    BY <1>18 DEF SealCoverage, Advance
<1>19. ASSUME NEW s \in Session, SealReport(s) PROVE TypeOK'
    BY <1>19 DEF SealReport, Advance
<1>20. ASSUME NEW s \in Session, SealManifest(s) PROVE TypeOK'
    BY <1>20 DEF SealManifest, Advance
<1>21. ASSUME NEW s \in Session, PublishScan(s) PROVE TypeOK'
    BY <1>21 DEF PublishScan, Release
<1>22. ASSUME NEW s \in Session, Refuse(s) PROVE TypeOK'
    BY <1>22 DEF Refuse, Release
<1>23. ASSUME NEW s \in Session, Interrupt(s) PROVE TypeOK'
    BY <1>23 DEF Interrupt
<1>24. CASE EditTarget
    BY <1>24 DEF EditTarget
<1>25. CASE ReadForExport
    BY <1>25 DEF ReadForExport
<1>26. CASE WriteExport
    BY <1>26 DEF WriteExport
<1> QED
    BY <1>0, <1>1, <1>2, <1>3, <1>4, <1>5, <1>6, <1>7, <1>8, <1>9, <1>10, <1>11, <1>12,
       <1>13, <1>14, <1>15, <1>16, <1>17, <1>18, <1>19, <1>20, <1>21, <1>22, <1>23,
       <1>24, <1>25, <1>26 DEF Next, LockedCall, CompletionStep

\* Only the process that takes the lock enters a step under it, and leaves it
\* when it gives the lock back.
LEMMA LockStep == TypeOK /\ LockInv /\ [Next]_vars => LockInv'
<1> SUFFICES ASSUME TypeOK, LockInv, [Next]_vars PROVE LockInv'
    OBVIOUS
<1> USE BoundsAssumption, NoneAssumption DEF row, semantic, files, world, counters,
        processes, Maybe, TypeOK, LockInv, LockedStep, MaterializeStep, SealStep, Holds
<1>0. CASE UNCHANGED vars
    BY <1>0 DEF vars
<1>1. ASSUME NEW s \in Session, NEW o \in Op, Request(s, o) PROVE LockInv'
    BY <1>1 DEF Request, Op
<1>2. ASSUME NEW s \in Session, Acquire(s) PROVE LockInv'
    BY <1>2 DEF Acquire
<1>3. ASSUME NEW s \in Session, WriteArtifact(s) PROVE LockInv'
    BY <1>3 DEF WriteArtifact, Release
<1>4. ASSUME NEW s \in Session, UpdateProgress(s) PROVE LockInv'
    BY <1>4 DEF UpdateProgress, Release
<1>5. ASSUME NEW s \in Session, FailScan(s) PROVE LockInv'
    BY <1>5 DEF FailScan, Release
<1>6. ASSUME NEW s \in Session, CancelScan(s) PROVE LockInv'
    BY <1>6 DEF CancelScan, Release
<1>7. ASSUME NEW s \in Session, DeliverRecovery(s) PROVE LockInv'
    BY <1>7 DEF DeliverRecovery, Release
<1>8. ASSUME NEW s \in Session, BeginMaterialize(s) PROVE LockInv'
    BY <1>8 DEF BeginMaterialize
<1>9. ASSUME NEW s \in Session, ReuseSeal(s) PROVE LockInv'
    BY <1>9 DEF ReuseSeal
<1>10. ASSUME NEW s \in Session, RegenerateReport(s) PROVE LockInv'
    BY <1>10 DEF RegenerateReport, Release
<1>11. ASSUME NEW s \in Session, MaterializeWriteups(s) PROVE LockInv'
    BY <1>11 DEF MaterializeWriteups, Advance
<1>12. ASSUME NEW s \in Session, MaterializeReceipts(s) PROVE LockInv'
    BY <1>12 DEF MaterializeReceipts, Advance
<1>13. ASSUME NEW s \in Session, MaterializeFindings(s) PROVE LockInv'
    BY <1>13 DEF MaterializeFindings, Advance
<1>14. ASSUME NEW s \in Session, MaterializeCoverage(s) PROVE LockInv'
    BY <1>14 DEF MaterializeCoverage, Advance
<1>15. ASSUME NEW s \in Session, MaterializeManifest(s) PROVE LockInv'
    BY <1>15 DEF MaterializeManifest, Advance
<1>16. ASSUME NEW s \in Session, FinalizeInputs(s) PROVE LockInv'
    BY <1>16 DEF FinalizeInputs, Advance
<1>17. ASSUME NEW s \in Session, SealFindings(s) PROVE LockInv'
    BY <1>17 DEF SealFindings, Advance
<1>18. ASSUME NEW s \in Session, SealCoverage(s) PROVE LockInv'
    BY <1>18 DEF SealCoverage, Advance
<1>19. ASSUME NEW s \in Session, SealReport(s) PROVE LockInv'
    BY <1>19 DEF SealReport, Advance
<1>20. ASSUME NEW s \in Session, SealManifest(s) PROVE LockInv'
    BY <1>20 DEF SealManifest, Advance
<1>21. ASSUME NEW s \in Session, PublishScan(s) PROVE LockInv'
    BY <1>21 DEF PublishScan, Release
<1>22. ASSUME NEW s \in Session, Refuse(s) PROVE LockInv'
    BY <1>22 DEF Refuse, Release
<1>23. ASSUME NEW s \in Session, Interrupt(s) PROVE LockInv'
    BY <1>23 DEF Interrupt
<1>24. CASE EditTarget
    BY <1>24 DEF EditTarget
<1>25. CASE ReadForExport
    BY <1>25 DEF ReadForExport
<1>26. CASE WriteExport
    BY <1>26 DEF WriteExport
<1> QED
    BY <1>0, <1>1, <1>2, <1>3, <1>4, <1>5, <1>6, <1>7, <1>8, <1>9, <1>10, <1>11, <1>12,
       <1>13, <1>14, <1>15, <1>16, <1>17, <1>18, <1>19, <1>20, <1>21, <1>22, <1>23,
       <1>24, <1>25, <1>26 DEF Next, LockedCall, CompletionStep

\* While a process completes the scan, the lock keeps every other call from the
\* row and from the artifacts.
LEMMA DraftStep == TypeOK /\ LockInv /\ DraftInv /\ FilesInv /\ Safety /\ [Next]_vars => DraftInv'
<1> SUFFICES ASSUME TypeOK, LockInv, DraftInv, FilesInv, Safety, [Next]_vars PROVE DraftInv'
    OBVIOUS
<1> USE BoundsAssumption, NoneAssumption DEF row, semantic, files, world, counters,
        processes, Maybe, TypeOK, LockInv, DraftInv, FilesInv, Safety,
        SealedNeverTerminated, HasSealedManifest, LockedStep, MaterializeStep, SealStep,
        Working, Sealing, Manifest, FindingsDocument, Holds, OwnsUnderLock, Owns,
        CanMaterialize, CanReuseSeal, ReadyToComplete, ClosureComplete, MayWrite,
        MayTerminate, SealBindsArtifacts, SealValid, WriteupsMatch
<1>0. CASE UNCHANGED vars
    BY <1>0 DEF vars
<1>1. ASSUME NEW s \in Session, NEW o \in Op, Request(s, o) PROVE DraftInv'
    BY <1>1 DEF Request, Op
<1>2. ASSUME NEW s \in Session, Acquire(s) PROVE DraftInv'
    BY <1>2 DEF Acquire
<1>3. ASSUME NEW s \in Session, WriteArtifact(s) PROVE DraftInv'
    BY <1>3 DEF WriteArtifact, Release
<1>4. ASSUME NEW s \in Session, UpdateProgress(s) PROVE DraftInv'
    BY <1>4 DEF UpdateProgress, Release
<1>5. ASSUME NEW s \in Session, FailScan(s) PROVE DraftInv'
    BY <1>5 DEF FailScan, Release
<1>6. ASSUME NEW s \in Session, CancelScan(s) PROVE DraftInv'
    BY <1>6 DEF CancelScan, Release
<1>7. ASSUME NEW s \in Session, DeliverRecovery(s) PROVE DraftInv'
    BY <1>7 DEF DeliverRecovery, Release
<1>8. ASSUME NEW s \in Session, BeginMaterialize(s) PROVE DraftInv'
    BY <1>8 DEF BeginMaterialize
<1>9. ASSUME NEW s \in Session, ReuseSeal(s) PROVE DraftInv'
    <2>1. draft'[s] = manifestFile /\ manifestFile \in Manifest /\ manifestFile.sealed
        BY <1>9 DEF ReuseSeal
    <2> QED
        BY <2>1, <1>9 DEF ReuseSeal
<1>10. ASSUME NEW s \in Session, RegenerateReport(s) PROVE DraftInv'
    BY <1>10 DEF RegenerateReport, Release
<1>11. ASSUME NEW s \in Session, MaterializeWriteups(s) PROVE DraftInv'
    BY <1>11 DEF MaterializeWriteups, Advance
<1>12. ASSUME NEW s \in Session, MaterializeReceipts(s) PROVE DraftInv'
    BY <1>12 DEF MaterializeReceipts, Advance
<1>13. ASSUME NEW s \in Session, MaterializeFindings(s) PROVE DraftInv'
    BY <1>13 DEF MaterializeFindings, Advance
<1>14. ASSUME NEW s \in Session, MaterializeCoverage(s) PROVE DraftInv'
    BY <1>14 DEF MaterializeCoverage, Advance
<1>15. ASSUME NEW s \in Session, MaterializeManifest(s) PROVE DraftInv'
    BY <1>15 DEF MaterializeManifest, Advance
<1>16. ASSUME NEW s \in Session, FinalizeInputs(s) PROVE DraftInv'
    <2>1. draft[s] \in Manifest /\ findingsFile.set = draft[s].findings /\ coverageFile = draft[s].coverage
            /\ receiptFiles = draft[s].receipts /\ manifestFile = draft[s]
        BY <1>16 DEF FinalizeInputs, Advance, HasReceipts, HasWriteups, HasFindings, HasCoverage
    <2>2. draft'[s] = [findings |-> draft[s].findings, coverage |-> draft[s].coverage,
                       receipts |-> draft[s].receipts, at |-> draft[s].at, sealed |-> TRUE]
        BY <2>1, <1>16 DEF FinalizeInputs
    <2> QED
        BY <2>1, <2>2, <1>16 DEF FinalizeInputs, Advance
<1>17. ASSUME NEW s \in Session, SealFindings(s) PROVE DraftInv'
    BY <1>17 DEF SealFindings, Advance
<1>18. ASSUME NEW s \in Session, SealCoverage(s) PROVE DraftInv'
    BY <1>18 DEF SealCoverage, Advance
<1>19. ASSUME NEW s \in Session, SealReport(s) PROVE DraftInv'
    BY <1>19 DEF SealReport, Advance
<1>20. ASSUME NEW s \in Session, SealManifest(s) PROVE DraftInv'
    BY <1>20 DEF SealManifest, Advance
<1>21. ASSUME NEW s \in Session, PublishScan(s) PROVE DraftInv'
    BY <1>21 DEF PublishScan, Release
<1>22. ASSUME NEW s \in Session, Refuse(s) PROVE DraftInv'
    BY <1>22 DEF Refuse, Release
<1>23. ASSUME NEW s \in Session, Interrupt(s) PROVE DraftInv'
    BY <1>23 DEF Interrupt
<1>24. CASE EditTarget
    BY <1>24 DEF EditTarget
<1>25. CASE ReadForExport
    BY <1>25 DEF ReadForExport
<1>26. CASE WriteExport
    BY <1>26 DEF WriteExport
<1> QED
    BY <1>0, <1>1, <1>2, <1>3, <1>4, <1>5, <1>6, <1>7, <1>8, <1>9, <1>10, <1>11, <1>12,
       <1>13, <1>14, <1>15, <1>16, <1>17, <1>18, <1>19, <1>20, <1>21, <1>22, <1>23,
       <1>24, <1>25, <1>26 DEF Next, LockedCall, CompletionStep

\* A file replaced under the lock keeps its content until the call ends.
LEMMA FilesStep == TypeOK /\ LockInv /\ DraftInv /\ FilesInv /\ Safety /\ [Next]_vars => FilesInv'
<1> SUFFICES ASSUME TypeOK, LockInv, DraftInv, FilesInv, Safety, [Next]_vars PROVE FilesInv'
    OBVIOUS
<1> USE BoundsAssumption, NoneAssumption DEF row, semantic, files, world, counters,
        processes, Maybe, TypeOK, LockInv, DraftInv, FilesInv, Safety,
        HasSealedManifest, LockedStep, MaterializeStep, SealStep, Working, Sealing,
        Manifest, FindingsDocument, HasWriteups, HasReceipts, HasFindings, HasCoverage,
        HasFinalFindings, CanReuseSeal, CanMaterialize, SealValid
<1>0. CASE UNCHANGED vars
    BY <1>0 DEF vars
<1>1. ASSUME NEW s \in Session, NEW o \in Op, Request(s, o) PROVE FilesInv'
    BY <1>1 DEF Request, Op
<1>2. ASSUME NEW s \in Session, Acquire(s) PROVE FilesInv'
    BY <1>2 DEF Acquire
<1>3. ASSUME NEW s \in Session, WriteArtifact(s) PROVE FilesInv'
    BY <1>3 DEF WriteArtifact, Release
<1>4. ASSUME NEW s \in Session, UpdateProgress(s) PROVE FilesInv'
    BY <1>4 DEF UpdateProgress, Release
<1>5. ASSUME NEW s \in Session, FailScan(s) PROVE FilesInv'
    BY <1>5 DEF FailScan, Release
<1>6. ASSUME NEW s \in Session, CancelScan(s) PROVE FilesInv'
    BY <1>6 DEF CancelScan, Release
<1>7. ASSUME NEW s \in Session, DeliverRecovery(s) PROVE FilesInv'
    BY <1>7 DEF DeliverRecovery, Release
<1>8. ASSUME NEW s \in Session, BeginMaterialize(s) PROVE FilesInv'
    BY <1>8 DEF BeginMaterialize
<1>9. ASSUME NEW s \in Session, ReuseSeal(s) PROVE FilesInv'
    BY <1>9 DEF ReuseSeal
<1>10. ASSUME NEW s \in Session, RegenerateReport(s) PROVE FilesInv'
    BY <1>10 DEF RegenerateReport, Release
<1>11. ASSUME NEW s \in Session, MaterializeWriteups(s) PROVE FilesInv'
    BY <1>11 DEF MaterializeWriteups, Advance
<1>12. ASSUME NEW s \in Session, MaterializeReceipts(s) PROVE FilesInv'
    BY <1>12 DEF MaterializeReceipts, Advance
<1>13. ASSUME NEW s \in Session, MaterializeFindings(s) PROVE FilesInv'
    <2>1. \A t \in Session \ {s} : pc'[t] = pc[t] /\ pc[t] \notin LockedStep
        BY <1>13 DEF MaterializeFindings, Advance
    <2>2. pc[s] = "findings" /\ pc'[s] = "coverage"
        BY <1>13 DEF MaterializeFindings, Advance
    <2>3. findingsFile' = [set |-> draft'[s].findings, final |-> FALSE]
        BY <1>13 DEF MaterializeFindings
    <2> QED
        BY <2>1, <2>2, <2>3, <1>13 DEF MaterializeFindings, Advance
<1>14. ASSUME NEW s \in Session, MaterializeCoverage(s) PROVE FilesInv'
    BY <1>14 DEF MaterializeCoverage, Advance
<1>15. ASSUME NEW s \in Session, MaterializeManifest(s) PROVE FilesInv'
    BY <1>15 DEF MaterializeManifest, Advance
<1>16. ASSUME NEW s \in Session, FinalizeInputs(s) PROVE FilesInv'
    BY <1>16 DEF FinalizeInputs, Advance
<1>17. ASSUME NEW s \in Session, SealFindings(s) PROVE FilesInv'
    <2>1. \A t \in Session \ {s} : pc'[t] = pc[t] /\ pc[t] \notin LockedStep
        BY <1>17 DEF SealFindings, Advance
    <2>2. pc[s] = "seal_findings" /\ pc'[s] = "seal_coverage"
        BY <1>17 DEF SealFindings, Advance
    <2>3. findingsFile' = [set |-> draft'[s].findings, final |-> TRUE]
        BY <1>17 DEF SealFindings
    <2> QED
        BY <2>1, <2>2, <2>3, <1>17 DEF SealFindings, Advance
<1>18. ASSUME NEW s \in Session, SealCoverage(s) PROVE FilesInv'
    BY <1>18 DEF SealCoverage, Advance
<1>19. ASSUME NEW s \in Session, SealReport(s) PROVE FilesInv'
    BY <1>19 DEF SealReport, Advance
<1>20. ASSUME NEW s \in Session, SealManifest(s) PROVE FilesInv'
    BY <1>20 DEF SealManifest, Advance
<1>21. ASSUME NEW s \in Session, PublishScan(s) PROVE FilesInv'
    BY <1>21 DEF PublishScan, Release
<1>22. ASSUME NEW s \in Session, Refuse(s) PROVE FilesInv'
    BY <1>22 DEF Refuse, Release
<1>23. ASSUME NEW s \in Session, Interrupt(s) PROVE FilesInv'
    BY <1>23 DEF Interrupt
<1>24. CASE EditTarget
    BY <1>24 DEF EditTarget
<1>25. CASE ReadForExport
    BY <1>25 DEF ReadForExport
<1>26. CASE WriteExport
    BY <1>26 DEF WriteExport
<1> QED
    BY <1>0, <1>1, <1>2, <1>3, <1>4, <1>5, <1>6, <1>7, <1>8, <1>9, <1>10, <1>11, <1>12,
       <1>13, <1>14, <1>15, <1>16, <1>17, <1>18, <1>19, <1>20, <1>21, <1>22, <1>23,
       <1>24, <1>25, <1>26 DEF Next, LockedCall, CompletionStep

\* SealManifest is the step at which the seal appears: all that it binds is in
\* place by then.
LEMMA SealBindsArtifactsStep == TypeOK /\ LockInv /\ DraftInv /\ FilesInv /\ Safety /\ [Next]_vars => SealBindsArtifacts'
<1> SUFFICES ASSUME TypeOK, LockInv, DraftInv, FilesInv, Safety, [Next]_vars PROVE SealBindsArtifacts'
    OBVIOUS
<1> USE BoundsAssumption, NoneAssumption DEF row, semantic, files, world, counters,
        processes, Maybe, TypeOK, LockInv, DraftInv, FilesInv, Safety,
        SealBindsArtifacts, SealValid, Working, Sealing, MaterializeStep, SealStep,
        MayWrite, HasSealedManifest, HasWriteups, HasReceipts, HasFindings, HasCoverage,
        HasFinalFindings, CanReuseSeal, Manifest, FindingsDocument
<1>0. CASE UNCHANGED vars
    BY <1>0 DEF vars
<1>1. ASSUME NEW s \in Session, NEW o \in Op, Request(s, o) PROVE SealBindsArtifacts'
    BY <1>1 DEF Request, Op
<1>2. ASSUME NEW s \in Session, Acquire(s) PROVE SealBindsArtifacts'
    BY <1>2 DEF Acquire
<1>3. ASSUME NEW s \in Session, WriteArtifact(s) PROVE SealBindsArtifacts'
    BY <1>3 DEF WriteArtifact, Release
<1>4. ASSUME NEW s \in Session, UpdateProgress(s) PROVE SealBindsArtifacts'
    BY <1>4 DEF UpdateProgress, Release
<1>5. ASSUME NEW s \in Session, FailScan(s) PROVE SealBindsArtifacts'
    BY <1>5 DEF FailScan, Release
<1>6. ASSUME NEW s \in Session, CancelScan(s) PROVE SealBindsArtifacts'
    BY <1>6 DEF CancelScan, Release
<1>7. ASSUME NEW s \in Session, DeliverRecovery(s) PROVE SealBindsArtifacts'
    BY <1>7 DEF DeliverRecovery, Release
<1>8. ASSUME NEW s \in Session, BeginMaterialize(s) PROVE SealBindsArtifacts'
    BY <1>8 DEF BeginMaterialize
<1>9. ASSUME NEW s \in Session, ReuseSeal(s) PROVE SealBindsArtifacts'
    BY <1>9 DEF ReuseSeal
<1>10. ASSUME NEW s \in Session, RegenerateReport(s) PROVE SealBindsArtifacts'
    BY <1>10 DEF RegenerateReport, Release
<1>11. ASSUME NEW s \in Session, MaterializeWriteups(s) PROVE SealBindsArtifacts'
    BY <1>11 DEF MaterializeWriteups, Advance
<1>12. ASSUME NEW s \in Session, MaterializeReceipts(s) PROVE SealBindsArtifacts'
    BY <1>12 DEF MaterializeReceipts, Advance
<1>13. ASSUME NEW s \in Session, MaterializeFindings(s) PROVE SealBindsArtifacts'
    BY <1>13 DEF MaterializeFindings, Advance
<1>14. ASSUME NEW s \in Session, MaterializeCoverage(s) PROVE SealBindsArtifacts'
    BY <1>14 DEF MaterializeCoverage, Advance
<1>15. ASSUME NEW s \in Session, MaterializeManifest(s) PROVE SealBindsArtifacts'
    BY <1>15 DEF MaterializeManifest, Advance
<1>16. ASSUME NEW s \in Session, FinalizeInputs(s) PROVE SealBindsArtifacts'
    BY <1>16 DEF FinalizeInputs, Advance
<1>17. ASSUME NEW s \in Session, SealFindings(s) PROVE SealBindsArtifacts'
    BY <1>17 DEF SealFindings, Advance
<1>18. ASSUME NEW s \in Session, SealCoverage(s) PROVE SealBindsArtifacts'
    BY <1>18 DEF SealCoverage, Advance
<1>19. ASSUME NEW s \in Session, SealReport(s) PROVE SealBindsArtifacts'
    BY <1>19 DEF SealReport, Advance
<1>20. ASSUME NEW s \in Session, SealManifest(s) PROVE SealBindsArtifacts'
    BY <1>20 DEF SealManifest, Advance
<1>21. ASSUME NEW s \in Session, PublishScan(s) PROVE SealBindsArtifacts'
    BY <1>21 DEF PublishScan, Release
<1>22. ASSUME NEW s \in Session, Refuse(s) PROVE SealBindsArtifacts'
    BY <1>22 DEF Refuse, Release
<1>23. ASSUME NEW s \in Session, Interrupt(s) PROVE SealBindsArtifacts'
    BY <1>23 DEF Interrupt
<1>24. CASE EditTarget
    BY <1>24 DEF EditTarget
<1>25. CASE ReadForExport
    BY <1>25 DEF ReadForExport
<1>26. CASE WriteExport
    BY <1>26 DEF WriteExport
<1> QED
    BY <1>0, <1>1, <1>2, <1>3, <1>4, <1>5, <1>6, <1>7, <1>8, <1>9, <1>10, <1>11, <1>12,
       <1>13, <1>14, <1>15, <1>16, <1>17, <1>18, <1>19, <1>20, <1>21, <1>22, <1>23,
       <1>24, <1>25, <1>26 DEF Next, LockedCall, CompletionStep

\* A scan is failed or cancelled under the lock after a look at the manifest, only
\* PublishScan makes it complete, nothing it binds changes then, and WriteExport
\* compares the seal with the pin it has read.
LEMMA PublishedStep == TypeOK /\ LockInv /\ DraftInv /\ FilesInv /\ ExportInv /\ Safety /\ [Next]_vars => Published'
<1> SUFFICES ASSUME TypeOK, LockInv, DraftInv, FilesInv, ExportInv, Safety, [Next]_vars PROVE Published'
    OBVIOUS
<1> USE BoundsAssumption, NoneAssumption DEF row, semantic, files, world, counters,
        processes, Maybe, TypeOK, LockInv, DraftInv, FilesInv, ExportInv, Safety,
        Published, CompleteIsSealed, SealedNeverTerminated, ExportsArePublished,
        SealValid, Working, MaterializeStep, SealStep, MayTerminate, HasSealedManifest,
        ReadyToComplete, Manifest, FindingsDocument
<1>0. CASE UNCHANGED vars
    BY <1>0 DEF vars
<1>1. ASSUME NEW s \in Session, NEW o \in Op, Request(s, o) PROVE Published'
    BY <1>1 DEF Request, Op
<1>2. ASSUME NEW s \in Session, Acquire(s) PROVE Published'
    BY <1>2 DEF Acquire
<1>3. ASSUME NEW s \in Session, WriteArtifact(s) PROVE Published'
    BY <1>3 DEF WriteArtifact, Release
<1>4. ASSUME NEW s \in Session, UpdateProgress(s) PROVE Published'
    BY <1>4 DEF UpdateProgress, Release
<1>5. ASSUME NEW s \in Session, FailScan(s) PROVE Published'
    BY <1>5 DEF FailScan, Release
<1>6. ASSUME NEW s \in Session, CancelScan(s) PROVE Published'
    BY <1>6 DEF CancelScan, Release
<1>7. ASSUME NEW s \in Session, DeliverRecovery(s) PROVE Published'
    BY <1>7 DEF DeliverRecovery, Release
<1>8. ASSUME NEW s \in Session, BeginMaterialize(s) PROVE Published'
    BY <1>8 DEF BeginMaterialize
<1>9. ASSUME NEW s \in Session, ReuseSeal(s) PROVE Published'
    BY <1>9 DEF ReuseSeal
<1>10. ASSUME NEW s \in Session, RegenerateReport(s) PROVE Published'
    BY <1>10 DEF RegenerateReport, Release
<1>11. ASSUME NEW s \in Session, MaterializeWriteups(s) PROVE Published'
    BY <1>11 DEF MaterializeWriteups, Advance
<1>12. ASSUME NEW s \in Session, MaterializeReceipts(s) PROVE Published'
    BY <1>12 DEF MaterializeReceipts, Advance
<1>13. ASSUME NEW s \in Session, MaterializeFindings(s) PROVE Published'
    BY <1>13 DEF MaterializeFindings, Advance
<1>14. ASSUME NEW s \in Session, MaterializeCoverage(s) PROVE Published'
    BY <1>14 DEF MaterializeCoverage, Advance
<1>15. ASSUME NEW s \in Session, MaterializeManifest(s) PROVE Published'
    BY <1>15 DEF MaterializeManifest, Advance
<1>16. ASSUME NEW s \in Session, FinalizeInputs(s) PROVE Published'
    BY <1>16 DEF FinalizeInputs, Advance
<1>17. ASSUME NEW s \in Session, SealFindings(s) PROVE Published'
    BY <1>17 DEF SealFindings, Advance
<1>18. ASSUME NEW s \in Session, SealCoverage(s) PROVE Published'
    BY <1>18 DEF SealCoverage, Advance
<1>19. ASSUME NEW s \in Session, SealReport(s) PROVE Published'
    BY <1>19 DEF SealReport, Advance
<1>20. ASSUME NEW s \in Session, SealManifest(s) PROVE Published'
    BY <1>20 DEF SealManifest, Advance
<1>21. ASSUME NEW s \in Session, PublishScan(s) PROVE Published'
    BY <1>21 DEF PublishScan, Release
<1>22. ASSUME NEW s \in Session, Refuse(s) PROVE Published'
    BY <1>22 DEF Refuse, Release
<1>23. ASSUME NEW s \in Session, Interrupt(s) PROVE Published'
    BY <1>23 DEF Interrupt
<1>24. CASE EditTarget
    BY <1>24 DEF EditTarget
<1>25. CASE ReadForExport
    BY <1>25 DEF ReadForExport
<1>26. CASE WriteExport
    BY <1>26 DEF WriteExport
<1> QED
    BY <1>0, <1>1, <1>2, <1>3, <1>4, <1>5, <1>6, <1>7, <1>8, <1>9, <1>10, <1>11, <1>12,
       <1>13, <1>14, <1>15, <1>16, <1>17, <1>18, <1>19, <1>20, <1>21, <1>22, <1>23,
       <1>24, <1>25, <1>26 DEF Next, LockedCall, CompletionStep

\* The invariant is inductive.
LEMMA StepInv == IInv /\ [Next]_vars => IInv'
<1> SUFFICES ASSUME IInv, [Next]_vars PROVE IInv'
    OBVIOUS
<1>1. TypeOK /\ LockInv /\ DraftInv /\ FilesInv /\ ExportInv /\ Safety
    BY DEF IInv
<1>2. (TypeOK /\ LockInv /\ DraftInv /\ FilesInv)'
    BY <1>1, TypeStep, LockStep, DraftStep, FilesStep
<1>3. Published' /\ SealBindsArtifacts'
    BY <1>1, PublishedStep, SealBindsArtifactsStep
<1> QED
    BY <1>2, <1>3 DEF IInv, Safety, Published

LEMMA Invariance == Spec => []IInv
BY InitInv, StepInv, PTL DEF Spec

-----------------------------------------------------------------------------
(* The safety of complete_scan. *)

\* Every variable keeps its type.
THEOREM TypeCorrect == Spec => []TypeOK
<1>1. IInv => TypeOK
    BY DEF IInv
<1> QED
    BY <1>1, Invariance, PTL

\* A complete scan has the seal that the database pins, and its finding index.
THEOREM Completeness == Spec => []CompleteIsSealed
<1>1. IInv => CompleteIsSealed
    BY DEF IInv, Safety
<1> QED
    BY <1>1, Invariance, PTL

\* A sealed scan is neither failed nor cancelled.
THEOREM SealOutlivesFailure == Spec => []SealedNeverTerminated
<1>1. IInv => SealedNeverTerminated
    BY DEF IInv, Safety
<1> QED
    BY <1>1, Invariance, PTL

\* A seal is valid and binds the artifacts the agent wrote last.
THEOREM SealIsFaithful == Spec => []SealBindsArtifacts
<1>1. IInv => SealBindsArtifacts
    BY DEF IInv, Safety
<1> QED
    BY <1>1, Invariance, PTL

\* An export hands out the published result, though it takes no lock.
THEOREM ExportsAreFaithful == Spec => []ExportsArePublished
<1>1. IInv => ExportsArePublished
    BY DEF IInv, Safety
<1> QED
    BY <1>1, Invariance, PTL

-----------------------------------------------------------------------------
(* What a step may do. *)

Frozen ==
    HasSealedManifest =>
        UNCHANGED <<manifestFile, findingsFile, coverageFile, receiptFiles, semantic>>
ByOwner ==
    <<status, phase, total, done, pin, index, semantic, files>>'
        # <<status, phase, total, done, pin, index, semantic, files>>
    => lock = owner /\ owner' = owner
Allowed == Frozen /\ ByOwner

\* Every write to a sealed file needs an unsealed directory, and ownership moves only
\* under the lock, so not under a call that has checked it there.
LEMMA AllowedStep == TypeOK /\ LockInv /\ DraftInv /\ [Next]_vars => Allowed
<1> SUFFICES ASSUME TypeOK, LockInv, DraftInv, [Next]_vars PROVE Allowed
    OBVIOUS
<1> USE BoundsAssumption, NoneAssumption DEF row, semantic, files, world, counters,
        processes, Maybe, TypeOK, LockInv, DraftInv, Frozen, Holds, Working,
        MaterializeStep, SealStep, LockedStep, HasSealedManifest, MayWrite,
        CanMaterialize, ByOwner, OwnsUnderLock, Owns, CanReuseSeal, ReadyToComplete,
        CanRegenerate, Allowed
<1>0. CASE UNCHANGED vars
    BY <1>0 DEF vars
<1>1. ASSUME NEW s \in Session, NEW o \in Op, Request(s, o) PROVE Allowed
    BY <1>1 DEF Request, Op
<1>2. ASSUME NEW s \in Session, Acquire(s) PROVE Allowed
    BY <1>2 DEF Acquire
<1>3. ASSUME NEW s \in Session, WriteArtifact(s) PROVE Allowed
    BY <1>3 DEF WriteArtifact, Release
<1>4. ASSUME NEW s \in Session, UpdateProgress(s) PROVE Allowed
    BY <1>4 DEF UpdateProgress, Release
<1>5. ASSUME NEW s \in Session, FailScan(s) PROVE Allowed
    BY <1>5 DEF FailScan, Release
<1>6. ASSUME NEW s \in Session, CancelScan(s) PROVE Allowed
    BY <1>6 DEF CancelScan, Release
<1>7. ASSUME NEW s \in Session, DeliverRecovery(s) PROVE Allowed
    BY <1>7 DEF DeliverRecovery, Release
<1>8. ASSUME NEW s \in Session, BeginMaterialize(s) PROVE Allowed
    BY <1>8 DEF BeginMaterialize
<1>9. ASSUME NEW s \in Session, ReuseSeal(s) PROVE Allowed
    BY <1>9 DEF ReuseSeal
<1>10. ASSUME NEW s \in Session, RegenerateReport(s) PROVE Allowed
    BY <1>10 DEF RegenerateReport, Release
<1>11. ASSUME NEW s \in Session, MaterializeWriteups(s) PROVE Allowed
    BY <1>11 DEF MaterializeWriteups, Advance
<1>12. ASSUME NEW s \in Session, MaterializeReceipts(s) PROVE Allowed
    BY <1>12 DEF MaterializeReceipts, Advance
<1>13. ASSUME NEW s \in Session, MaterializeFindings(s) PROVE Allowed
    BY <1>13 DEF MaterializeFindings, Advance
<1>14. ASSUME NEW s \in Session, MaterializeCoverage(s) PROVE Allowed
    BY <1>14 DEF MaterializeCoverage, Advance
<1>15. ASSUME NEW s \in Session, MaterializeManifest(s) PROVE Allowed
    BY <1>15 DEF MaterializeManifest, Advance
<1>16. ASSUME NEW s \in Session, FinalizeInputs(s) PROVE Allowed
    BY <1>16 DEF FinalizeInputs, Advance
<1>17. ASSUME NEW s \in Session, SealFindings(s) PROVE Allowed
    BY <1>17 DEF SealFindings, Advance
<1>18. ASSUME NEW s \in Session, SealCoverage(s) PROVE Allowed
    BY <1>18 DEF SealCoverage, Advance
<1>19. ASSUME NEW s \in Session, SealReport(s) PROVE Allowed
    BY <1>19 DEF SealReport, Advance
<1>20. ASSUME NEW s \in Session, SealManifest(s) PROVE Allowed
    BY <1>20 DEF SealManifest, Advance
<1>21. ASSUME NEW s \in Session, PublishScan(s) PROVE Allowed
    BY <1>21 DEF PublishScan, Release
<1>22. ASSUME NEW s \in Session, Refuse(s) PROVE Allowed
    BY <1>22 DEF Refuse, Release
<1>23. ASSUME NEW s \in Session, Interrupt(s) PROVE Allowed
    BY <1>23 DEF Interrupt
<1>24. CASE EditTarget
    BY <1>24 DEF EditTarget
<1>25. CASE ReadForExport
    BY <1>25 DEF ReadForExport
<1>26. CASE WriteExport
    BY <1>26 DEF WriteExport
<1> QED
    BY <1>0, <1>1, <1>2, <1>3, <1>4, <1>5, <1>6, <1>7, <1>8, <1>9, <1>10, <1>11, <1>12,
       <1>13, <1>14, <1>15, <1>16, <1>17, <1>18, <1>19, <1>20, <1>21, <1>22, <1>23,
       <1>24, <1>25, <1>26 DEF Next, LockedCall, CompletionStep

\* The sealed files never change again, in any number of retries.
THEOREM SealIsImmutable == Spec => SealIsFrozen
<1>1. IInv /\ [Next]_vars =>
        [HasSealedManifest =>
            UNCHANGED <<manifestFile, findingsFile, coverageFile, receiptFiles, semantic>>]_vars
    BY AllowedStep DEF IInv, Allowed, Frozen
<1> QED
    BY <1>1, Invariance, PTL DEF Spec, SealIsFrozen

\* Whoever changes the scan owns it and holds its lock.
THEOREM OwnershipIsExclusive == Spec => OnlyOwnerActs
<1>1. IInv /\ [Next]_vars =>
        [ <<status, phase, total, done, pin, index, semantic, files>>'
            # <<status, phase, total, done, pin, index, semantic, files>>
          => lock = owner /\ owner' = owner ]_vars
    BY AllowedStep DEF IInv, Allowed, ByOwner
<1> QED
    BY <1>1, Invariance, PTL DEF Spec, OnlyOwnerActs

-----------------------------------------------------------------------------
(* The implementation of SealedResult. *)

LEMMA AbstractInit == Init => Abstract!AbsInit
BY DEF Init, Abstract!AbsInit, Outcome, SealedManifest, HasSealedManifest

\* Five actions write the status or the manifest file; the others stutter.
LEMMA OthersStutter ==
    ASSUME [Next]_vars,
           \A s \in Session : ~( \/ MaterializeManifest(s) \/ SealManifest(s) \/ PublishScan(s)
                                 \/ FailScan(s) \/ CancelScan(s) )
    PROVE UNCHANGED <<status, manifestFile>>
BY DEF Next, vars, row, files, LockedCall, CompletionStep, Request, Acquire, Interrupt,
       EditTarget, ReadForExport, WriteExport, WriteArtifact, UpdateProgress, DeliverRecovery,
       BeginMaterialize, ReuseSeal, RegenerateReport, Refuse, Advance, MaterializeWriteups,
       MaterializeReceipts, MaterializeFindings, MaterializeCoverage, FinalizeInputs,
       SealFindings, SealCoverage, SealReport

\* Each of the five is a step of SealedResult or a stutter.
LEMMA AbstractStep == IInv /\ [Next]_vars => [Abstract!AbsNext]_(Abstract!absVars)
<1> SUFFICES ASSUME IInv, [Next]_vars PROVE [Abstract!AbsNext]_(Abstract!absVars)
    OBVIOUS
<1> USE NoneAssumption
    DEF IInv, TypeOK, LockInv, DraftInv, FilesInv, Safety, Maybe, Outcome, SealedManifest,
        HasSealedManifest, Abstract!absVars, Abstract!AbsNext, LockedStep, MaterializeStep,
        SealStep, Working, Sealing
<1>1. ASSUME NEW s \in Session, MaterializeManifest(s) PROVE UNCHANGED Abstract!absVars
    BY <1>1 DEF MaterializeManifest, Advance, row
<1>2. ASSUME NEW s \in Session, SealManifest(s) PROVE Abstract!Seal
    BY <1>2 DEF SealManifest, Advance, row, Abstract!Seal
<1>3. ASSUME NEW s \in Session, PublishScan(s) PROVE Abstract!Publish
    BY <1>3 DEF PublishScan, files, Abstract!Publish, SealValid
<1>4. ASSUME NEW s \in Session, FailScan(s) \/ CancelScan(s) PROVE Abstract!Terminate
    BY <1>4 DEF FailScan, CancelScan, MayTerminate, files, Abstract!Terminate
<1>5. CASE UNCHANGED <<status, manifestFile>>
    BY <1>5
<1> QED
    BY <1>1, <1>2, <1>3, <1>4, <1>5, OthersStutter

\* complete_scan, fail_scan and cancel_scan with their locks, files and crashes
\* implement the abstract result.
THEOREM Refinement == Spec => ImplementsSealedResult
BY AbstractInit, AbstractStep, Invariance, PTL
DEF Spec, ImplementsSealedResult, Abstract!AbsSafety
=============================================================================
