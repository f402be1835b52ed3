----------------------- MODULE SealedFindings_proofs ------------------------
(***************************************************************************)
(* Proofs about the findings of a scan once its result is there: the documents*)
(* that tell them, for every set of candidates, writeups, surfaces and      *)
(* severities and documents of any size, and their tracking, for every number*)
(* of chats and requests.                                                   *)
(*                                                                          *)
(* That the context goes to one chat only, and that a delivery can be repeated,*)
(* needs what a chat knows of the request it was delivered, and that a call *)
(* names what its chat knows.                                               *)
(***************************************************************************)
EXTENDS ReportDocuments, FindingTracking, FiniteSetTheorems, FunctionTheorems, TLAPS

-----------------------------------------------------------------------------
(* Documents. *)

\* A canonical result is a finite set of findings.
LEMMA CanonicalFinite ==
    ASSUME NEW c \in Canonical
    PROVE c \subseteq Finding /\ IsFiniteSet(c)
<1>1. PICK k \in 0..MaxFindings : c \in {{d[n] : n \in 1..k} : d \in [1..k -> Finding]}
    BY DEF Canonical
<1>2. PICK d \in [1..k -> Finding] : c = {d[n] : n \in 1..k}
    BY <1>1
<1>3. c \subseteq Finding
    BY <1>2
<1>4. d \in Surjection(1..k, c)
    BY <1>2 DEF Surjection
<1>5. IsFiniteSet(1..k)
    BY FS_Interval
<1> QED
    BY <1>3, <1>4, <1>5, FS_Surjection

-----------------------------------------------------------------------------
\* Every variable that the contracts speak about keeps its type.
THEOREM TypeCorrect == Spec => []TypeOK
<1>1. Init => TypeOK
  <2>1. 0 \in 0..MaxRefusals
      BY ConstantAssumption
  <2> QED
      BY <2>1 DEF Init, TypeOK
<1>2. TypeOK /\ [Next]_vars => TypeOK'
  <2> SUFFICES ASSUME TypeOK, [Next]_vars PROVE TypeOK'
      OBVIOUS
  <2>1. ASSUME NEW c \in AcceptedCanonicals, WriteCanonical(c) PROVE TypeOK'
      BY <2>1 DEF TypeOK, WriteCanonical, AcceptedCanonicals
  <2>2. ASSUME NEW v \in AcceptedCoverages, WriteCoverage(v) PROVE TypeOK'
      BY <2>2 DEF TypeOK, WriteCoverage, AcceptedCoverages
  <2>3. ASSUME NEW paths \in SUBSET Path, WriteWriteups(paths) PROVE TypeOK'
      BY <2>3 DEF TypeOK, WriteWriteups
  <2>4. CASE WriteHardening
      BY <2>4 DEF TypeOK, WriteHardening
  <2>5. CASE CompleteTooEarly
      BY <2>5 DEF TypeOK, CompleteTooEarly, artifacts
  <2>6. CASE MaterializationRefused \/ CompleteRefused
      BY <2>6, ConstantAssumption DEF TypeOK, MaterializationRefused, CompleteRefused, artifacts
  <2>7. CASE Complete
      BY <2>7 DEF TypeOK, Complete, artifacts
  <2>8. ASSUME NEW e \in {"sarif", "csv"}, Export(e) PROVE TypeOK'
      BY <2>8 DEF TypeOK, Export, artifacts
  <2>9. CASE UNCHANGED vars
      BY <2>9 DEF TypeOK, vars, artifacts
  <2> QED
      BY <2>1, <2>2, <2>3, <2>4, <2>5, <2>6, <2>7, <2>8, <2>9 DEF Next
<1> QED
    BY <1>1, <1>2, PTL DEF Spec

-----------------------------------------------------------------------------
(* Accepted documents are sealed. *)

\* What is written for accepted documents is what they refer to.
LEMMA ReferencesAreMaterialized ==
    ASSUME ClosureComplete
    PROVE /\ {WriteupFile(p) : p \in WriteupPaths(canonical)} \subseteq Materialized
          /\ ReportsSome(canonical) => HardeningFile \in Materialized
          /\ \A n \in DOMAIN coverage.surfaces : Receipts(coverage.surfaces)[n] \in Materialized
BY DEF Materialized, ReceiptSet, Receipts

\* A complete closure can be written and passes the contract of the seal, but
\* for the documents that escape it.
LEMMA ClosureSeals ==
    ASSUME ClosureComplete, TargetHasName, ~SharesWriteup(canonical),
           coverage \in Coverage, WriteupPaths(canonical) \cap TooLong = {},
           \A n \in DOMAIN coverage.surfaces : Slug[coverage.surfaces[n].id] \notin TooLong
    PROVE /\ WriteupsMaterialize(canonical) /\ ReceiptsMaterialize(coverage.surfaces)
          /\ SealAccepts(Bound, Materialized)
<1>1. ReceiptsMaterialize(coverage.surfaces)
  <2>1. DistinctSlugs(coverage.surfaces)
      BY DEF ClosureComplete, CoverageAccepted
  <2>2. PICK k \in 0..MaxSurfaces : coverage.surfaces \in [1..k -> Surface]
      BY DEF Coverage
  <2>3. ASSUME NEW n \in DOMAIN coverage.surfaces, NEW m \in 1..(n - 1)
        PROVE m \in DOMAIN coverage.surfaces /\ m # n
      BY <2>2, <2>3
  <2> QED
      BY <2>1, <2>3 DEF ReceiptsMaterialize, ReceiptMaterializes, DistinctSlugs
<1>2. FindingsSeal(Bound)
    BY DEF FindingsSeal, Bound, ClosureComplete, CanonicalAccepted, DistinctIdentities
<1>3. CoverageSeals(Bound, Materialized)
    BY ReferencesAreMaterialized DEF CoverageSeals, Bound, ClosureComplete, CoverageAccepted
<1>4. DerivedReferencesSeal(Bound, Materialized)
    BY ReferencesAreMaterialized DEF DerivedReferencesSeal, Bound
<1>5. ReceiptsAreSealed(Bound)
    BY DEF ReceiptsAreSealed, Bound, ReceiptSet, Receipts
<1> QED
    BY <1>1, <1>2, <1>3, <1>4, <1>5 DEF SealAccepts, WriteupsMaterialize

\* What the contract of semantic artifacts accepts, and the closure finds
\* complete, the seal accepts, unless two findings share a place for their
\* writeups, a place or an id of a surface is too long for the name of a file, or
\* the target has no name.
THEOREM AcceptedDocumentsSeal == Spec => []AcceptedIsSealed
<1>1. Init => AcceptedIsSealed
    BY DEF Init, AcceptedIsSealed
<1>2. TypeOK /\ AcceptedIsSealed /\ [Next]_vars => AcceptedIsSealed'
  <2> SUFFICES ASSUME TypeOK, AcceptedIsSealed, [Next]_vars, outcome' = "refused"
               PROVE AcceptedIsSealed'
      BY DEF AcceptedIsSealed
  <2>1. CASE MaterializationRefused \/ CompleteRefused
    <3>1. ClosureComplete /\ UNCHANGED artifacts
        BY <2>1 DEF MaterializationRefused, CompleteRefused
    <3>2. coverage \in Coverage
        BY <3>1 DEF ClosureComplete, TypeOK
    <3>3. ~(/\ WriteupsMaterialize(canonical) /\ ReceiptsMaterialize(coverage.surfaces)
            /\ SealAccepts(Bound, Materialized))
        BY <2>1 DEF MaterializationRefused, CompleteRefused
    <3>4. \/ SharesWriteup(canonical) \/ ~TargetHasName
          \/ WriteupPaths(canonical) \cap TooLong # {}
          \/ \E n \in DOMAIN coverage.surfaces : Slug[coverage.surfaces[n].id] \in TooLong
        BY <3>1, <3>2, <3>3, ClosureSeals
    <3> QED
        BY <3>1, <3>4 DEF artifacts, AcceptedIsSealed
  <2>2. ASSUME NEW e \in {"sarif", "csv"}, Export(e) PROVE FALSE
      BY <2>2 DEF Export, IsSealed
  <2>3. CASE UNCHANGED vars
      BY <2>3 DEF vars, artifacts, AcceptedIsSealed
  <2>4. CASE \/ \E c \in AcceptedCanonicals : WriteCanonical(c)
             \/ \E v \in AcceptedCoverages : WriteCoverage(v)
             \/ \E paths \in SUBSET Path : WriteWriteups(paths)
             \/ WriteHardening \/ CompleteTooEarly \/ Complete
      BY <2>4 DEF WriteCanonical, WriteCoverage, WriteWriteups, WriteHardening,
         CompleteTooEarly, Complete
  <2> QED
      BY <2>1, <2>2, <2>3, <2>4 DEF Next
<1> QED
    BY <1>1, <1>2, TypeCorrect, PTL DEF Spec

-----------------------------------------------------------------------------
(* The report is true. *)

Format == {"sarif", "csv"}

\* What is exported is what is in the index, which is what is sealed.
ExportsFollow ==
    /\ IsSealed => index = seal.findings /\ exports \in [Format -> {None, index}]
    /\ ~IsSealed => exports = [e \in Format |-> None]

Reported == {i \in Instance : judged[i] \in Reportable}
Listed(findings) == {f \in findings : IsReportable(f)}

\* As many findings are listed as instances were called reportable.
LEMMA CountIsTold ==
    ASSUME canonical \in Canonical, CanonicalAccepted(canonical), FollowsAttackPath(canonical)
    PROVE Cardinality(Listed(canonical)) = Cardinality(Reported)
<1> DEFINE L == Listed(canonical)
           instanceOf == [f \in L |-> f.instance]
<1>1. L \subseteq Finding /\ IsFiniteSet(L)
    BY CanonicalFinite, FS_Subset DEF Listed
<1>2. \A f \in L : f.instance \in Reported
  <2> SUFFICES ASSUME NEW f \in L PROVE f.instance \in Reported
      OBVIOUS
  <2>1. <<f.instance, f.severity>> \in {<<i, judged[i]>> : i \in Reported}
      BY DEF FollowsAttackPath, Listed, Reported
  <2> QED
      BY <2>1
<1>3. \A i \in Reported : \E f \in L : f.instance = i
  <2> SUFFICES ASSUME NEW i \in Reported PROVE \E f \in L : f.instance = i
      OBVIOUS
  <2>1. <<i, judged[i]>> \in {<<f.instance, f.severity>> : f \in L}
      BY DEF FollowsAttackPath, Listed, Reported
  <2> QED
      BY <2>1
<1>4. \A f, g \in L : f.instance = g.instance => f = g
    BY DEF Listed, CanonicalAccepted, DistinctBindings
<1>5. instanceOf \in Bijection(L, Reported)
  <2>1. instanceOf \in [L -> Reported]
      BY <1>2
  <2>2. \A i \in Reported : \E f \in L : instanceOf[f] = i
      BY <1>3
  <2>3. \A f, g \in L : instanceOf[f] = instanceOf[g] => f = g
      BY <1>4
  <2> HIDE DEF instanceOf, L
  <2>4. instanceOf \in Injection(L, Reported)
      BY <2>1, <2>3 DEF Injection, IsInjective
  <2>5. instanceOf \in Surjection(L, Reported)
      BY <2>1, <2>2 DEF Surjection
  <2> QED
      BY <2>4, <2>5 DEF Bijection
<1>6. ExistsBijection(L, Reported)
    BY <1>5 DEF ExistsBijection
<1> HIDE DEF instanceOf
<1> QED
    BY <1>1, <1>6, FS_Bijection

\* What a completion seals and reports.
LEMMA CompletionIsTrue ==
    ASSUME TypeOK, ExportsFollow, Complete
    PROVE ReportIsTrue' /\ ExportsFollow'
<1>1. ClosureComplete /\ SealAccepts(Bound, Materialized) /\ ~IsSealed /\ IsSealed'
    BY DEF Complete, IsSealed
<1>2. /\ canonical \in Canonical /\ CanonicalAccepted(canonical) /\ FollowsAttackPath(canonical)
      /\ ~SharesWriteup(canonical)
    BY <1>1 DEF ClosureComplete, TypeOK, SealAccepts, DerivedReferencesSeal, Bound
<1>3. /\ report'.findings = Listed(canonical) /\ index' = canonical /\ judged' = judged
      /\ files' = Materialized /\ count' = Cardinality(Listed(canonical))
    BY DEF Complete, ReportOf, Bound, Listed
<1>4. report'.links = {WriteupFile(f.writeup) : f \in WrittenUp(Listed(canonical))}
               \cup (IF ReportsSome(canonical) THEN {HardeningFile} ELSE {})
               \cup {Receipts(coverage.surfaces)[n] : n \in DOMAIN coverage.surfaces}
    BY DEF Complete, ReportOf, Bound, Listed
<1>5. {<<f.instance, f.severity>> : f \in Listed(canonical)} = {<<i, judged[i]>> : i \in Reported}
    BY <1>2 DEF FollowsAttackPath, Listed, Reported
<1>6. \A f, g \in Listed(canonical) : f.writeup = g.writeup \/ f.instance = g.instance => f = g
  <2>1. Listed(canonical) \subseteq WrittenUp(canonical)
      BY <1>2 DEF Listed, WrittenUp, CanonicalAccepted
  <2>2. Listed(canonical) \subseteq canonical
      BY DEF Listed
  <2> QED
      BY <2>1, <2>2, <1>2 DEF SharesWriteup, CanonicalAccepted, DistinctBindings
<1>7. report'.links \subseteq Materialized
  <2>1. WrittenUp(Listed(canonical)) \subseteq WrittenUp(canonical)
      BY DEF WrittenUp, Listed
  <2>2. {WriteupFile(f.writeup) : f \in WrittenUp(Listed(canonical))} \subseteq Materialized
    <3>1. \A f \in WrittenUp(canonical) : WriteupFile(f.writeup) \in Materialized
        BY <1>1, ReferencesAreMaterialized DEF WriteupPaths
    <3> QED
        BY <2>1, <3>1
  <2>3. (IF ReportsSome(canonical) THEN {HardeningFile} ELSE {}) \subseteq Materialized
      BY <1>1, ReferencesAreMaterialized
  <2>4. {Receipts(coverage.surfaces)[n] : n \in DOMAIN coverage.surfaces} \subseteq Materialized
      BY <1>1, ReferencesAreMaterialized
  <2> QED
      BY <1>4, <2>2, <2>3, <2>4
<1>8. HardeningFile \in report'.links <=> Reported # {}
  <2>1. \A p : WriteupFile(p) # HardeningFile
      BY DEF WriteupFile, HardeningFile
  <2>2. \A n \in DOMAIN coverage.surfaces : Receipts(coverage.surfaces)[n] # HardeningFile
      BY DEF Receipts, ReceiptFile, HardeningFile
  <2>3. HardeningFile \in report'.links <=> ReportsSome(canonical)
      BY <1>4, <2>1, <2>2
  <2>4. ReportsSome(canonical) <=> Listed(canonical) # {}
      BY DEF ReportsSome, Listed
  <2>5. Listed(canonical) # {} <=> Reported # {}
    <3>1. Listed(canonical) = {} <=> {<<f.instance, f.severity>> : f \in Listed(canonical)} = {}
        OBVIOUS
    <3>2. Reported = {} <=> {<<i, judged[i]>> : i \in Reported} = {}
        OBVIOUS
    <3> QED
        BY <1>5, <3>1, <3>2
  <2> QED
      BY <2>3, <2>4, <2>5
<1>9. exports' \in [Format -> {None, index'}]
    BY <1>1 DEF Complete, ExportsFollow, Format, SarifOf
<1>10. ExportsFollow'
    BY <1>1, <1>3, <1>9 DEF ExportsFollow, Complete, Bound
<1>11. count' = Cardinality(Reported) /\ Listed(canonical) \subseteq index'
    BY <1>2, <1>3, CountIsTold DEF Listed
<1>12. Reported' = Reported
    BY <1>3 DEF Reported
<1> QED
    BY <1>3, <1>5, <1>6, <1>7, <1>8, <1>9, <1>10, <1>11, <1>12 DEF ReportIsTrue, Reported, Format

\* The report tells what attack-path analysis found, its links lead to what is
\* there, and the database and the exports agree with it, from the seal on.
THEOREM ReportsAreTrue == Spec => []ReportIsTrue
<1>1. Init => ReportIsTrue /\ ExportsFollow
    BY DEF Init, ReportIsTrue, ExportsFollow, IsSealed, Format
<1>2. TypeOK /\ ReportIsTrue /\ ExportsFollow /\ [Next]_vars => ReportIsTrue' /\ ExportsFollow'
  <2> SUFFICES ASSUME TypeOK, ReportIsTrue, ExportsFollow, [Next]_vars
               PROVE ReportIsTrue' /\ ExportsFollow'
      OBVIOUS
  <2>1. CASE Complete
      BY <2>1, CompletionIsTrue
  <2>2. ASSUME NEW e \in {"sarif", "csv"}, Export(e) PROVE ReportIsTrue' /\ ExportsFollow'
    <3>1. /\ IsSealed /\ IsSealed' /\ exports' = [exports EXCEPT ![e] = index]
          /\ UNCHANGED <<judged, files, seal, report, index, count>>
        BY <2>2 DEF Export, ExportsFollow, IsSealed, CsvOf, SarifOf
    <3>2. exports' \in [Format -> {None, index}]
        BY <3>1 DEF ExportsFollow, Format
    <3> QED
        BY <3>1, <3>2 DEF ReportIsTrue, ExportsFollow, Format
  <2>3. CASE UNCHANGED vars
      BY <2>3 DEF vars, results, artifacts, ReportIsTrue, ExportsFollow, IsSealed
  <2>4. CASE \/ \E c \in AcceptedCanonicals : WriteCanonical(c)
             \/ \E v \in AcceptedCoverages : WriteCoverage(v)
             \/ \E paths \in SUBSET Path : WriteWriteups(paths)
             \/ WriteHardening \/ CompleteTooEarly
             \/ MaterializationRefused \/ CompleteRefused
    <3>1. ~IsSealed /\ ~IsSealed' /\ exports' = exports
        BY <2>4 DEF WriteCanonical, WriteCoverage, WriteWriteups, WriteHardening,
           CompleteTooEarly, MaterializationRefused, CompleteRefused, MayWrite, MayWriteDerived,
           IsSealed, results
    <3> QED
        BY <3>1 DEF ReportIsTrue, ExportsFollow
  <2> QED
      BY <2>1, <2>2, <2>3, <2>4 DEF Next
<1> QED
    BY <1>1, <1>2, TypeCorrect, PTL DEF Spec

-----------------------------------------------------------------------------
(* Tracking. *)

\* What the call t names is what a delivery of request i answers.
Answers(i, t) ==
    /\ request[i].version \in {t.version, t.version + 1}
    /\ request[i].token = t.token

IsDeliveredTo(i, s) == request[i] # None /\ request[i].status = "delivered" /\ request[i].session = s

\* The call a chat has under way names what the chat knows: the chat learns
\* something new only where its call ends.
CallNamesKnown(s) == call[s] # None => ticket[s] # None /\ call[s].args = ticket[s]

\* A call past the delivery is one that a delivered request answers.
RecheckIsOfDelivery(s) ==
    call[s] # None /\ call[s].step = "recheck" =>
        LET i == call[s].args.request IN IsDeliveredTo(i, s) /\ Answers(i, call[s].args)

\* The chat of a delivery knows of a request, and what it knows of the delivered
\* one is enough to get its context.
DeliveryIsKnown(s) ==
    \A i \in Request : IsDeliveredTo(i, s) =>
        /\ ticket[s] # None
        /\ ticket[s].request = i => Answers(i, ticket[s]) \/ ticket[s].token = None

ReceivedIsDelivered(s) == \A i \in received[s] : IsDeliveredTo(i, s)

GoodChat(s) ==
    CallNamesKnown(s) /\ RecheckIsOfDelivery(s) /\ DeliveryIsKnown(s) /\ ReceivedIsDelivered(s)

TrackingIInv == TrackingTypeOK /\ \A s \in Session : GoodChat(s)

NamesClaimWhole(row) ==
    /\ row.status = "pending" <=> row.session = None
    /\ row.session = None <=> row.token = None
    /\ row.session = None <=> row.claimedAt = None

NewRow == [status |-> "pending", version |-> 1, session |-> None, token |-> None,
           claimedAt |-> None]

\* A row replaced by a whole row keeps the rows whole.
LEMMA TrackedRowStep ==
  ASSUME TrackingTypeOK, NEW i \in Request, NEW row \in Row, NamesClaimWhole(row),
         request' = [request EXCEPT ![i] = row]
  PROVE  /\ request' \in [Request -> Maybe(Row)]
         /\ \A j \in Request : request'[j] # None => NamesClaimWhole(request'[j])
<1>1. /\ request \in [Request -> Maybe(Row)]
      /\ \A j \in Request : request[j] # None => NamesClaimWhole(request[j])
  BY DEF TrackingTypeOK, NamesClaimWhole
<1>2. row \in Maybe(Row)
  BY DEF Maybe
<1> HIDE DEF Maybe, NamesClaimWhole, Row
<1>3. \A j \in Request : request'[j] = IF j = i THEN row ELSE request[j]
  BY <1>1
<1> QED
  BY <1>1, <1>2, <1>3

\* What a row that exists consists of.
LEMMA TrackedRowFields ==
  ASSUME TrackingTypeOK, NEW i \in Request, request[i] # None
  PROVE  request[i] \in Row /\ NamesClaimWhole(request[i]) /\ request[i].version \in Nat
  BY TrackingBoundAssumption DEF TrackingTypeOK, Maybe, NamesClaimWhole, Row, Version

\* What a call that is under way consists of.
LEMMA TrackedCallFields ==
  ASSUME TrackingTypeOK, NEW s \in Session, call[s] # None
  PROVE  /\ call[s] \in Call /\ call[s].now \in Nat
         /\ call[s].args \in Ticket /\ call[s].args.request \in Request
         /\ call[s].args.version \in Version
  BY DEF TrackingTypeOK, Maybe, Call, Ticket

\* Nothing that a record stands for is None.
LEMMA TrackedAreThere ==
  /\ \A row \in Row : row # None
  /\ \A t \in Ticket : t # None
  /\ \A c \in Call : c # None
  /\ \A s \in Session : s # None
  /\ \A n \in Nat : n # None
  /\ Version \subseteq Nat
  BY TrackingNoneAssumption, TrackingBoundAssumption DEF Version

\* What each of the three writes makes of a row.
LEMMA TrackedRows ==
  ASSUME TrackingTypeOK
  PROVE  /\ NewRow \in Row /\ NamesClaimWhole(NewRow)
         /\ \A i \in Request, s \in Session, now \in Nat :
                request[i] # None /\ request[i].version < MaxVersion =>
                    /\ Claimed(request[i], s, now) \in Row
                    /\ NamesClaimWhole(Claimed(request[i], s, now))
                    /\ Claimed(request[i], s, now).status = "claimed"
                    /\ Claimed(request[i], s, now).version = request[i].version + 1
                    /\ Claimed(request[i], s, now).token = request[i].version + 1
         /\ \A i \in Request :
                request[i] # None /\ request[i].version < MaxVersion
                    /\ request[i].status = "claimed" =>
                    /\ Delivered(request[i]) \in Row
                    /\ NamesClaimWhole(Delivered(request[i]))
                    /\ Delivered(request[i]).status = "delivered"
                    /\ Delivered(request[i]).version = request[i].version + 1
                    /\ Delivered(request[i]).session = request[i].session
                    /\ Delivered(request[i]).token = request[i].token
<1>1. 1 \in Version
  BY TrackingBoundAssumption DEF Version
<1>2. NewRow \in Row /\ NamesClaimWhole(NewRow)
  BY <1>1 DEF NewRow, Row, Maybe, NamesClaimWhole
<1>3. ASSUME NEW i \in Request, request[i] # None, request[i].version < MaxVersion
      PROVE  /\ request[i] \in Row /\ NamesClaimWhole(request[i])
             /\ request[i].version + 1 \in Version /\ request[i].version + 1 # None
  <2>1. request[i] \in Row /\ NamesClaimWhole(request[i])
    BY <1>3, TrackedRowFields
  <2>2. request[i].version + 1 \in Version
    BY <1>3, <2>1, TrackingBoundAssumption DEF Row, Version
  <2> QED
    BY <2>1, <2>2, TrackedAreThere
<1>4. ASSUME NEW i \in Request, NEW s \in Session, NEW now \in Nat,
             request[i] # None, request[i].version < MaxVersion
      PROVE  /\ Claimed(request[i], s, now) \in Row
             /\ NamesClaimWhole(Claimed(request[i], s, now))
             /\ Claimed(request[i], s, now).status = "claimed"
             /\ Claimed(request[i], s, now).version = request[i].version + 1
             /\ Claimed(request[i], s, now).token = request[i].version + 1
  <2>1. request[i] \in Row
    BY <1>3, <1>4
  <2>2. Claimed(request[i], s, now) \in Row
    BY <1>3, <1>4, <2>1 DEF Claimed, Row, Maybe
  <2>3. /\ Claimed(request[i], s, now).status = "claimed"
        /\ Claimed(request[i], s, now).version = request[i].version + 1
        /\ Claimed(request[i], s, now).session = s
        /\ Claimed(request[i], s, now).token = request[i].version + 1
        /\ Claimed(request[i], s, now).claimedAt = now
    BY <2>1 DEF Claimed, Row
  <2>4. NamesClaimWhole(Claimed(request[i], s, now))
    BY <1>3, <1>4, <2>3, TrackedAreThere DEF NamesClaimWhole
  <2> QED
    BY <2>2, <2>3, <2>4
<1>5. ASSUME NEW i \in Request, request[i] # None, request[i].version < MaxVersion,
             request[i].status = "claimed"
      PROVE  /\ Delivered(request[i]) \in Row
             /\ NamesClaimWhole(Delivered(request[i]))
             /\ Delivered(request[i]).status = "delivered"
             /\ Delivered(request[i]).version = request[i].version + 1
             /\ Delivered(request[i]).session = request[i].session
             /\ Delivered(request[i]).token = request[i].token
  <2>1. request[i] \in Row
    BY <1>3, <1>5
  <2>2. Delivered(request[i]) \in Row
    BY <1>3, <1>5, <2>1 DEF Delivered, Row, Maybe
  <2>3. /\ Delivered(request[i]).status = "delivered"
        /\ Delivered(request[i]).version = request[i].version + 1
        /\ Delivered(request[i]).session = request[i].session
        /\ Delivered(request[i]).token = request[i].token
        /\ Delivered(request[i]).claimedAt = request[i].claimedAt
    BY <2>1 DEF Delivered, Row
  <2>4. NamesClaimWhole(Delivered(request[i]))
    BY <1>3, <1>5, <2>3 DEF NamesClaimWhole
  <2> QED
    BY <2>2, <2>3, <2>4
<1> QED
  BY <1>2, <1>4, <1>5

\* No request exists and no chat knows of one.
LEMMA InitTracking == TrackingInit => TrackingIInv
<1> SUFFICES ASSUME TrackingInit PROVE TrackingIInv
  OBVIOUS
<1>1. TrackingTypeOK
  BY TrackingBoundAssumption DEF TrackingInit, TrackingTypeOK, Maybe
<1> QED
  BY <1>1 DEF TrackingInit, TrackingIInv, GoodChat, CallNamesKnown, RecheckIsOfDelivery,
              DeliveryIsKnown, ReceivedIsDelivered, IsDeliveredTo

-----------------------------------------------------------------------------
\* The rows change in three ways: one is created, one is claimed that was not
\* delivered, or a claimed one is delivered to the chat of the claim.
Opens(i) == request[i] = None /\ request' = [request EXCEPT ![i] = NewRow]
Claims(s, i) ==
    /\ request[i] # None /\ request[i].status # "delivered" /\ request[i].version < MaxVersion
    /\ request' = [request EXCEPT ![i] = Claimed(request[i], s, call[s].now)]
Delivers(s, i) ==
    /\ request[i] # None /\ request[i].status = "claimed" /\ request[i].version < MaxVersion
    /\ request[i].session = s
    /\ request' = [request EXCEPT ![i] = Delivered(request[i])]

\* Each of them keeps the rows whole, and every row that was delivered.
RowsWhole == /\ request \in [Request -> Maybe(Row)]
             /\ \A j \in Request : request[j] # None => NamesClaimWhole(request[j])
DeliveriesStay ==
    \A j \in Request : request[j] # None /\ request[j].status = "delivered" =>
        request'[j] = request[j]

LEMMA RowWrites ==
  ASSUME TrackingTypeOK,
         \/ UNCHANGED request
         \/ \E i \in Request : Opens(i)
         \/ \E s \in Session, i \in Request : call[s] # None /\ Claims(s, i)
         \/ \E s \in Session, i \in Request : Delivers(s, i)
  PROVE  RowsWhole' /\ DeliveriesStay
<1>0. RowsWhole
  BY DEF TrackingTypeOK, RowsWhole, NamesClaimWhole
<1>1. CASE UNCHANGED request
  BY <1>0, <1>1 DEF RowsWhole, DeliveriesStay
<1>2. ASSUME NEW i \in Request, Opens(i) PROVE RowsWhole' /\ DeliveriesStay
  <2>1. RowsWhole'
    BY <1>2, TrackedRows, TrackedRowStep DEF Opens, RowsWhole
  <2> QED
    BY <1>0, <1>2, <2>1 DEF Opens, RowsWhole, DeliveriesStay
<1>3. ASSUME NEW s \in Session, NEW i \in Request, call[s] # None, Claims(s, i)
      PROVE  RowsWhole' /\ DeliveriesStay
  <2>1. call[s].now \in Nat
    BY <1>3, TrackedCallFields
  <2>2. RowsWhole'
    BY <1>3, <2>1, TrackedRows, TrackedRowStep DEF Claims, RowsWhole
  <2> QED
    BY <1>0, <1>3, <2>2 DEF Claims, RowsWhole, DeliveriesStay
<1>4. ASSUME NEW s \in Session, NEW i \in Request, Delivers(s, i) PROVE RowsWhole' /\ DeliveriesStay
  <2>1. RowsWhole'
    BY <1>4, TrackedRows, TrackedRowStep DEF Delivers, RowsWhole
  <2> QED
    BY <1>0, <1>4, <2>1 DEF Delivers, RowsWhole, DeliveriesStay
<1> QED
  BY <1>1, <1>2, <1>3, <1>4

\* Every step changes the rows in one of these ways.
LEMMA RowsChangeSo ==
  ASSUME TrackingTypeOK, [TrackingNext]_trackingVars
  PROVE  RowsWhole' /\ DeliveriesStay
<1> DEFINE So == \/ UNCHANGED request
                 \/ \E i \in Request : Opens(i)
                 \/ \E s \in Session, i \in Request : call[s] # None /\ Claims(s, i)
                 \/ \E s \in Session, i \in Request : Delivers(s, i)
<1>1. ASSUME NEW s \in Session, Track(s) PROVE So
  BY <1>1 DEF Track, Opens, NewRow
<1>2. ASSUME NEW s \in Session, NEW i \in Request, Claim(s, i) PROVE So
  BY <1>2 DEF Claim, At, MayClaim, IsOpen, Claims
<1>3. ASSUME NEW s \in Session, NEW i \in Request, Deliver(s, i) PROVE So
  BY <1>3 DEF Deliver, At, MayDeliver, Delivers
<1>4. ASSUME NEW s \in Session,
             BeginClaim(s) \/ BeginContext(s) \/ CheckSeal(s) \/ ReadClock(s) \/ EndCall(s)
      PROVE So
  BY <1>4 DEF BeginClaim, BeginContext, CheckSeal, ReadClock, EndCall
<1>5. ASSUME NEW s \in Session, NEW i \in Request,
             ClaimAgain(s, i) \/ DeliverAgain(s, i) \/ TellContext(s, i)
      PROVE So
  BY <1>5 DEF ClaimAgain, DeliverAgain, TellContext
<1>6. ASSUME Damage \/ Restore \/ Tick \/ UNCHANGED trackingVars PROVE So
  BY <1>6 DEF Damage, Restore, Tick, trackingVars
<1>7. So
  BY <1>1, <1>2, <1>3, <1>4, <1>5, <1>6 DEF TrackingNext
<1> QED
  BY <1>7, RowWrites

\* Every step keeps the types, and every row whole.
LEMMA TrackingTypeStep == TrackingTypeOK /\ [TrackingNext]_trackingVars => TrackingTypeOK'
<1> SUFFICES ASSUME TrackingTypeOK, [TrackingNext]_trackingVars PROVE TrackingTypeOK'
  OBVIOUS
<1> DEFINE Chats == /\ ticket \in [Session -> Maybe(Ticket)]
                    /\ call \in [Session -> Maybe(Call)]
                    /\ received \in [Session -> SUBSET Request]
           World == sealed \in BOOLEAN /\ damages \in 0..MaxDamages /\ clock \in 0..MaxClock
<1>0. Chats /\ World
  BY DEF TrackingTypeOK
<1>W. RowsWhole'
  BY RowsChangeSo
<1> SUFFICES Chats' /\ World'
  BY <1>W DEF TrackingTypeOK, RowsWhole, NamesClaimWhole
<1>R. \A i \in Request : request'[i] # None =>
        /\ request'[i].version \in Version /\ request'[i].token \in Maybe(Version)
  BY <1>W DEF RowsWhole, Maybe, Row
<1>T. ASSUME NEW s \in Session, NEW t \in Ticket, ticket' = [ticket EXCEPT ![s] = t]
      PROVE  ticket' \in [Session -> Maybe(Ticket)]
  BY <1>0, <1>T DEF Maybe
<1>E. ASSUME NEW s \in Session, call' = [call EXCEPT ![s] = None]
      PROVE  call' \in [Session -> Maybe(Call)]
  BY <1>0, <1>E DEF Maybe
<1>N. \A s \in Session : call[s] # None => call[s] \in Call
  BY <1>0 DEF Maybe
<1>C. ASSUME NEW s \in Session, NEW step \in {"clock", "recheck"},
             call[s] # None, Steps(s, step)
      PROVE  call' \in [Session -> Maybe(Call)]
  <2>1. [call[s] EXCEPT !.step = step] \in Call
    BY <1>N, <1>C DEF Call
  <2>2. call' = [call EXCEPT ![s] = [call[s] EXCEPT !.step = step]]
    BY <1>C DEF Steps
  <2> QED
    BY <1>0, <2>1, <2>2 DEF Maybe
<1>1. ASSUME NEW s \in Session, Track(s) PROVE Chats' /\ World'
  <2>1. PICK i \in Request :
        /\ \/ IsOpen(i) /\ UNCHANGED request
           \/ request[i] = None /\ request' = [request EXCEPT ![i] = NewRow]
        /\ ticket' = [ticket EXCEPT ![s] =
                [request |-> i, version |-> request'[i].version, token |-> None]]
    BY <1>1 DEF Track, NewRow
  <2>2. request'[i] # None
    BY <2>1, TrackedAreThere, TrackedRows DEF IsOpen, TrackingTypeOK
  <2>3. [request |-> i, version |-> request'[i].version, token |-> None] \in Ticket
    BY <1>R, <2>2 DEF Ticket, Maybe
  <2> QED
    BY <1>0, <1>1, <1>T, <2>1, <2>3 DEF Track
<1>2. ASSUME NEW s \in Session, BeginClaim(s) PROVE Chats' /\ World'
  <2>1. [step |-> "claim", args |-> ticket[s], now |-> clock] \in Call
    BY <1>0, <1>2, TrackingBoundAssumption DEF BeginClaim, Call, Maybe
  <2> QED
    BY <1>0, <1>2, <2>1 DEF BeginClaim, Maybe
<1>3. ASSUME NEW s \in Session, BeginContext(s) PROVE Chats' /\ World'
  <2>1. [step |-> "check", args |-> ticket[s], now |-> 0] \in Call
    BY <1>0, <1>3 DEF BeginContext, Call, Maybe
  <2> QED
    BY <1>0, <1>3, <2>1 DEF BeginContext, Maybe
<1>4. ASSUME NEW s \in Session, CheckSeal(s) PROVE Chats' /\ World'
  BY <1>0, <1>4, <1>C DEF CheckSeal
<1>5. ASSUME NEW s \in Session, ReadClock(s) PROVE Chats' /\ World'
  <2>1. [call[s] EXCEPT !.step = "deliver", !.now = clock] \in Call
    <3>1. call[s] \in Call /\ clock \in Nat
      BY <1>0, <1>5, <1>N, TrackingBoundAssumption DEF ReadClock
    <3> QED
      BY <3>1 DEF Call
  <2>2. call' = [call EXCEPT ![s] = [call[s] EXCEPT !.step = "deliver", !.now = clock]]
    BY <1>5 DEF ReadClock
  <2> QED
    BY <1>0, <1>5, <2>1, <2>2 DEF ReadClock, Maybe
<1>6. ASSUME NEW s \in Session, EndCall(s) PROVE Chats' /\ World'
  BY <1>0, <1>6, <1>E DEF EndCall, Ends
<1>7. ASSUME NEW s \in Session, NEW i \in Request, Claim(s, i) PROVE Chats' /\ World'
  <2>1. request'[i] # None
    <3>1. call[s].now \in Nat
      BY <1>7, TrackedCallFields DEF Claim, At
    <3>2. Claimed(request[i], s, call[s].now) # None
      BY <1>7, <3>1, TrackedRows, TrackedAreThere DEF Claim, At
    <3> QED
      BY <1>7, <3>2 DEF Claim, TrackingTypeOK
  <2>2. [request |-> i, version |-> request'[i].version, token |-> request'[i].token] \in Ticket
    BY <1>R, <2>1 DEF Ticket
  <2> QED
    BY <1>0, <1>7, <1>E, <1>T, <2>2 DEF Claim, Told, Ends
<1>8. ASSUME NEW s \in Session, NEW i \in Request, ClaimAgain(s, i) PROVE Chats' /\ World'
  <2>1. [request |-> i, version |-> request[i].version, token |-> request[i].token] \in Ticket
    BY <1>8, <1>R DEF ClaimAgain, At, Ticket
  <2> QED
    BY <1>0, <1>8, <1>E, <1>T, <2>1 DEF ClaimAgain, Told, Ends
<1>9. ASSUME NEW s \in Session, NEW i \in Request, Deliver(s, i) \/ DeliverAgain(s, i)
      PROVE Chats' /\ World'
  <2>1. /\ call[s] # None /\ Steps(s, "recheck")
        /\ UNCHANGED <<sealed, damages, clock, ticket, received>>
    BY <1>9 DEF Deliver, DeliverAgain, At
  <2> QED
    BY <1>0, <1>C, <2>1
<1>10. ASSUME NEW s \in Session, NEW i \in Request, TellContext(s, i) PROVE Chats' /\ World'
  <2>1. call[s].args.token \in Maybe(Version)
    BY <1>10, TrackedCallFields DEF TellContext, At, Ticket
  <2>2. [request |-> i, version |-> request[i].version, token |-> call[s].args.token] \in Ticket
    BY <1>10, <1>R, <2>1 DEF TellContext, At, Ticket
  <2>3. received' \in [Session -> SUBSET Request]
    BY <1>0, <1>10 DEF TellContext
  <2>4. call' \in [Session -> Maybe(Call)]
    BY <1>10, <1>E DEF TellContext, Ends
  <2>5. ticket' \in [Session -> Maybe(Ticket)]
    BY <1>0, <1>10, <1>T, <2>2 DEF TellContext
  <2> QED
    BY <1>0, <1>10, <2>3, <2>4, <2>5 DEF TellContext
<1>11. CASE Damage
  <2>1. sealed' = FALSE /\ damages' \in 0..MaxDamages /\ clock' = clock
    BY <1>0, <1>11, TrackingBoundAssumption DEF Damage
  <2>2. Chats'
    BY <1>0, <1>11 DEF Damage
  <2> QED
    BY <1>0, <2>1, <2>2
<1>12. CASE Restore
  BY <1>0, <1>12 DEF Restore
<1>13. CASE Tick
  BY <1>0, <1>13, TrackingBoundAssumption DEF Tick
<1>14. CASE UNCHANGED trackingVars
  BY <1>0, <1>14 DEF trackingVars
<1> QED
  BY <1>1, <1>2, <1>3, <1>4, <1>5, <1>6, <1>7, <1>8, <1>9, <1>10, <1>11, <1>12, <1>13, <1>14
     DEF TrackingNext

-----------------------------------------------------------------------------
\* A row becomes one delivered to s only where s has it delivered.
NoDeliveryTo(s) == \A i \in Request : IsDeliveredTo(i, s)' => request'[i] = request[i]

LEMMA OnlyDeliverDelivers ==
  ASSUME TrackingTypeOK, [TrackingNext]_trackingVars, NEW s \in Session
  PROVE  NoDeliveryTo(s) \/ \E i \in Request : Deliver(s, i)
<1>0. request \in [Request -> Maybe(Row)]
  BY DEF TrackingTypeOK
<1>1. ASSUME UNCHANGED request PROVE NoDeliveryTo(s)
  BY <1>1 DEF NoDeliveryTo
<1>2. ASSUME NEW t \in Session, Track(t) PROVE NoDeliveryTo(s)
  <2>1. ASSUME NEW i \in Request, request' = [request EXCEPT ![i] = NewRow] PROVE NoDeliveryTo(s)
    BY <1>0, <2>1 DEF NoDeliveryTo, IsDeliveredTo, NewRow
  <2> QED
    BY <1>1, <1>2, <2>1 DEF Track, NewRow
<1>3. ASSUME NEW t \in Session, NEW i \in Request, Claim(t, i) PROVE NoDeliveryTo(s)
  <2>1. call[t].now \in Nat
    BY <1>3, TrackedCallFields DEF Claim, At
  <2>2. Claimed(request[i], t, call[t].now).status = "claimed"
    BY <1>3, <2>1, TrackedRows DEF Claim, At
  <2> QED
    BY <1>0, <1>3, <2>2 DEF Claim, NoDeliveryTo, IsDeliveredTo
<1>4. ASSUME NEW t \in Session, NEW i \in Request, Deliver(t, i), t # s PROVE NoDeliveryTo(s)
  <2>1. Delivered(request[i]).session = t
    BY <1>4, TrackedRows DEF Deliver, At, MayDeliver
  <2> QED
    BY <1>0, <1>4, <2>1 DEF Deliver, NoDeliveryTo, IsDeliveredTo
<1>5. ASSUME NEW t \in Session,
             BeginClaim(t) \/ BeginContext(t) \/ CheckSeal(t) \/ ReadClock(t) \/ EndCall(t)
      PROVE NoDeliveryTo(s)
  BY <1>1, <1>5 DEF BeginClaim, BeginContext, CheckSeal, ReadClock, EndCall
<1>6. ASSUME NEW t \in Session, NEW i \in Request,
             ClaimAgain(t, i) \/ DeliverAgain(t, i) \/ TellContext(t, i)
      PROVE NoDeliveryTo(s)
  BY <1>1, <1>6 DEF ClaimAgain, DeliverAgain, TellContext
<1>7. ASSUME Damage \/ Restore \/ Tick \/ UNCHANGED trackingVars PROVE NoDeliveryTo(s)
  BY <1>1, <1>7 DEF Damage, Restore, Tick, trackingVars
<1> QED
  BY <1>2, <1>3, <1>4, <1>5, <1>6, <1>7 DEF TrackingNext

\* What is delivered to a chat stays so, with what it answers.
LEMMA DeliveryStays ==
  ASSUME DeliveriesStay, NEW s \in Session, NEW i \in Request, IsDeliveredTo(i, s)
  PROVE  IsDeliveredTo(i, s)' /\ request'[i] = request[i]
  BY DEF DeliveriesStay, IsDeliveredTo

\* A chat that keeps what it knows, its call and what it received stays good when
\* nothing is delivered to it.
LEMMA GoodChatStays ==
  ASSUME TrackingTypeOK, DeliveriesStay, NEW s \in Session, GoodChat(s), NoDeliveryTo(s),
         ticket'[s] = ticket[s], call'[s] = call[s], received'[s] = received[s]
  PROVE  GoodChat(s)'
<1>1. CallNamesKnown(s)'
  BY DEF GoodChat, CallNamesKnown
<1>2. RecheckIsOfDelivery(s)'
  <2> SUFFICES ASSUME call[s] # None, call[s].step = "recheck" PROVE RecheckIsOfDelivery(s)'
    BY DEF RecheckIsOfDelivery
  <2>1. call[s].args.request \in Request
    BY TrackedCallFields
  <2>2. IsDeliveredTo(call[s].args.request, s) /\ Answers(call[s].args.request, call[s].args)
    BY DEF GoodChat, RecheckIsOfDelivery
  <2> QED
    BY <2>1, <2>2, DeliveryStays DEF RecheckIsOfDelivery, Answers
<1>3. DeliveryIsKnown(s)'
  <2> SUFFICES ASSUME NEW i \in Request, IsDeliveredTo(i, s)'
               PROVE  /\ ticket[s] # None
                      /\ ticket[s].request = i => Answers(i, ticket[s])' \/ ticket[s].token = None
    BY DEF DeliveryIsKnown, Answers
  <2>1. request'[i] = request[i] /\ IsDeliveredTo(i, s)
    BY DEF NoDeliveryTo, IsDeliveredTo
  <2> QED
    BY <2>1 DEF GoodChat, DeliveryIsKnown, Answers
<1>4. ReceivedIsDelivered(s)'
  BY DeliveryStays DEF GoodChat, ReceivedIsDelivered, TrackingTypeOK
<1> QED
  BY <1>1, <1>2, <1>3, <1>4 DEF GoodChat

\* A chat learns of a request: nothing, or what its claim is, or what was delivered
\* to it.
LEMMA ToldIsKnown ==
  ASSUME TrackingTypeOK, TrackingTypeOK', DeliveriesStay, NEW s \in Session, GoodChat(s), NoDeliveryTo(s),
         call'[s] = None, ticket'[s] # None,
         \/ ticket'[s] = ticket[s]
         \/ ticket'[s].token = None
         \/ ~IsDeliveredTo(ticket[s].request, s)'
         \/ Answers(ticket[s].request, ticket[s])',
         received'[s] = received[s] \/ \E i \in Request :
            received'[s] = received[s] \cup {i} /\ IsDeliveredTo(i, s)
  PROVE  GoodChat(s)'
<1>1. CallNamesKnown(s)' /\ RecheckIsOfDelivery(s)'
  BY DEF CallNamesKnown, RecheckIsOfDelivery
<1>2. DeliveryIsKnown(s)'
  <2> SUFFICES ASSUME NEW i \in Request, IsDeliveredTo(i, s)', ticket'[s].request = i
               PROVE  Answers(i, ticket[s])' \/ ticket'[s].token = None
    BY DEF DeliveryIsKnown
  <2>1. request'[i] = request[i] /\ IsDeliveredTo(i, s)
    BY DEF NoDeliveryTo, IsDeliveredTo
  <2>2. CASE ticket'[s] = ticket[s]
    BY <2>1, <2>2 DEF GoodChat, DeliveryIsKnown, Answers
  <2> QED
    BY <2>2
<1>3. ReceivedIsDelivered(s)'
  BY DeliveryStays DEF GoodChat, ReceivedIsDelivered, TrackingTypeOK
<1> QED
  BY <1>1, <1>2, <1>3 DEF GoodChat

\* A call that goes on stays of what the chat knows.
LEMMA CallGoesOn ==
  ASSUME TrackingTypeOK, DeliveriesStay, NEW s \in Session, GoodChat(s), NoDeliveryTo(s),
         ticket'[s] = ticket[s], received'[s] = received[s], ticket[s] # None,
         call'[s].args = ticket[s],
         call'[s].step # "recheck" \/
            (/\ ticket[s].request \in Request
             /\ IsDeliveredTo(ticket[s].request, s) /\ Answers(ticket[s].request, ticket[s]))
  PROVE  GoodChat(s)'
<1>1. CallNamesKnown(s)'
  BY DEF CallNamesKnown
<1>2. RecheckIsOfDelivery(s)'
  BY DeliveryStays DEF RecheckIsOfDelivery, Answers
<1>3. DeliveryIsKnown(s)'
  <2> SUFFICES ASSUME NEW i \in Request, IsDeliveredTo(i, s)'
               PROVE  /\ ticket[s] # None
                      /\ ticket[s].request = i => Answers(i, ticket[s])' \/ ticket[s].token = None
    BY DEF DeliveryIsKnown, Answers
  <2>1. request'[i] = request[i] /\ IsDeliveredTo(i, s)
    BY DEF NoDeliveryTo, IsDeliveredTo
  <2> QED
    BY <2>1 DEF GoodChat, DeliveryIsKnown, Answers
<1>4. ReceivedIsDelivered(s)'
  BY DeliveryStays DEF GoodChat, ReceivedIsDelivered, TrackingTypeOK
<1> QED
  BY <1>1, <1>2, <1>3, <1>4 DEF GoodChat

\* A step of one chat changes what that chat knows, its call and what it received,
\* and no other chat's.
Others(t) ==
    \A s \in Session \ {t} :
        ticket'[s] = ticket[s] /\ call'[s] = call[s] /\ received'[s] = received[s]

LEMMA OneChatActs ==
  ASSUME TrackingTypeOK, [TrackingNext]_trackingVars
  PROVE  \/ UNCHANGED <<ticket, call, received>>
         \/ \E t \in Session :
            /\ Others(t)
            /\ \/ Track(t) \/ BeginClaim(t) \/ BeginContext(t) \/ CheckSeal(t) \/ ReadClock(t)
               \/ EndCall(t)
               \/ \E i \in Request :
                    \/ Claim(t, i) \/ ClaimAgain(t, i)
                    \/ Deliver(t, i) \/ DeliverAgain(t, i) \/ TellContext(t, i)
<1>0. /\ ticket \in [Session -> Maybe(Ticket)] /\ call \in [Session -> Maybe(Call)]
      /\ received \in [Session -> SUBSET Request]
  BY DEF TrackingTypeOK
<1>1. ASSUME Damage \/ Restore \/ Tick \/ UNCHANGED trackingVars
      PROVE UNCHANGED <<ticket, call, received>>
  BY <1>1 DEF Damage, Restore, Tick, trackingVars
<1>2. ASSUME NEW t \in Session, Track(t) PROVE Others(t)
  BY <1>0, <1>2 DEF Track, Others
<1>3. ASSUME NEW t \in Session,
             BeginClaim(t) \/ BeginContext(t) \/ CheckSeal(t) \/ ReadClock(t) \/ EndCall(t)
      PROVE Others(t)
  BY <1>0, <1>3 DEF BeginClaim, BeginContext, CheckSeal, ReadClock, EndCall, Steps, Ends, Others
<1>4. ASSUME NEW t \in Session, NEW i \in Request,
             Claim(t, i) \/ ClaimAgain(t, i) \/ Deliver(t, i) \/ DeliverAgain(t, i)
      PROVE Others(t)
  BY <1>0, <1>4 DEF Claim, ClaimAgain, Deliver, DeliverAgain, Told, Steps, Ends, Others
<1>5. ASSUME NEW t \in Session, NEW i \in Request, TellContext(t, i) PROVE Others(t)
  BY <1>0, <1>5 DEF TellContext, Ends, Others
<1> QED
  BY <1>1, <1>2, <1>3, <1>4, <1>5 DEF TrackingNext

\* Every chat stays good.
LEMMA GoodChatStep ==
  ASSUME TrackingIInv, [TrackingNext]_trackingVars, TrackingTypeOK', NEW s \in Session
  PROVE  GoodChat(s)'
<1> USE DEF TrackingIInv
<1>0. /\ ticket \in [Session -> Maybe(Ticket)] /\ call \in [Session -> Maybe(Call)]
      /\ received \in [Session -> SUBSET Request] /\ request \in [Request -> Maybe(Row)]
  BY DEF TrackingTypeOK
<1>D. DeliveriesStay
  BY RowsChangeSo
<1>G. GoodChat(s) /\ CallNamesKnown(s) /\ DeliveryIsKnown(s) /\ RecheckIsOfDelivery(s)
  BY DEF GoodChat
<1>C. call[s] # None => /\ call[s] \in Call /\ call[s].args = ticket[s] /\ ticket[s] # None
                        /\ ticket[s] \in Ticket /\ ticket[s].request \in Request
  BY <1>0, <1>G, TrackedCallFields DEF CallNamesKnown
<1>U. ASSUME UNCHANGED <<ticket, call, received>>, NoDeliveryTo(s) PROVE GoodChat(s)'
  BY <1>D, <1>G, <1>U, GoodChatStays
<1>1. ASSUME NEW i \in Request, Deliver(s, i) PROVE GoodChat(s)'
  <2>1. /\ call[s] # None /\ ticket[s].request = i /\ request[i] # None
        /\ request[i].status = "claimed" /\ request[i].session = s
        /\ request[i].version = ticket[s].version /\ request[i].token = ticket[s].token
        /\ request[i].version < MaxVersion
    BY <1>1, <1>C DEF Deliver, At, MayDeliver
  <2> DEFINE row == Delivered(request[i])
  <2>2. /\ row # None /\ row.status = "delivered" /\ row.session = s
        /\ row.version = ticket[s].version + 1 /\ row.token = ticket[s].token
    BY <2>1, TrackedRows, TrackedAreThere
  <2>3. request'[i] = row /\ \A j \in Request \ {i} : request'[j] = request[j]
    BY <1>0, <1>1 DEF Deliver
  <2>4. ticket'[s] = ticket[s] /\ received'[s] = received[s]
    BY <1>1 DEF Deliver
  <2>5. IsDeliveredTo(i, s)' /\ Answers(i, ticket[s])'
    BY <2>2, <2>3, <2>4 DEF IsDeliveredTo, Answers
  <2>6. call'[s].args = ticket[s]
    BY <1>0, <1>1, <1>C, <2>1 DEF Deliver, Steps, Call
  <2>7. CallNamesKnown(s)' /\ RecheckIsOfDelivery(s)'
    BY <1>C, <2>1, <2>4, <2>5, <2>6 DEF CallNamesKnown, RecheckIsOfDelivery, Answers
  <2>8. DeliveryIsKnown(s)'
    <3> SUFFICES ASSUME NEW j \in Request, IsDeliveredTo(j, s)', ticket[s].request = j
                 PROVE  Answers(j, ticket[s])'
      BY <1>C, <2>1, <2>4 DEF DeliveryIsKnown, Answers
    <3> QED
      BY <2>1, <2>5
  <2>9. ReceivedIsDelivered(s)'
    BY <1>0, <1>D, <1>G, <2>4, DeliveryStays DEF GoodChat, ReceivedIsDelivered
  <2> QED
    BY <2>7, <2>8, <2>9 DEF GoodChat
<1>2. ASSUME NEW t \in Session, t # s, Others(t), NoDeliveryTo(s) PROVE GoodChat(s)'
  BY <1>2, <1>D, <1>G, GoodChatStays DEF Others
<1>3. ASSUME Track(s), NoDeliveryTo(s) PROVE GoodChat(s)'
  <2>1. PICK i \in Request : ticket' = [ticket EXCEPT ![s] =
                [request |-> i, version |-> request'[i].version, token |-> None]]
    BY <1>3 DEF Track
  <2>2. ticket'[s].token = None /\ ticket'[s] = [request |-> i, version |-> request'[i].version, token |-> None]
    BY <1>0, <2>1
  <2>3. call'[s] = None /\ received'[s] = received[s]
    BY <1>3 DEF Track
  <2>4. ticket'[s] # None
    <3>1. request'[i] # None
      BY <1>0, <1>3, <2>1, TrackedRows, TrackedAreThere DEF Track, NewRow, IsOpen
    <3>2. request'[i].version \in Version
      BY <3>1 DEF TrackingTypeOK, Maybe, Row
    <3>3. ticket'[s] \in Ticket
      BY <2>2, <3>2 DEF Ticket, Maybe
    <3> QED
      BY <3>3, TrackedAreThere
  <2> QED
    BY <1>3, <1>D, <1>G, <2>2, <2>3, <2>4, ToldIsKnown
<1>4. ASSUME BeginClaim(s) \/ BeginContext(s), NoDeliveryTo(s) PROVE GoodChat(s)'
  <2>1. /\ ticket'[s] = ticket[s] /\ received'[s] = received[s] /\ ticket[s] # None
        /\ call'[s].args = ticket[s] /\ call'[s].step # "recheck"
    BY <1>0, <1>4 DEF BeginClaim, BeginContext
  <2> QED
    BY <1>4, <1>D, <1>G, <2>1, CallGoesOn
<1>5. ASSUME CheckSeal(s) \/ ReadClock(s), NoDeliveryTo(s) PROVE GoodChat(s)'
  <2>1. /\ ticket'[s] = ticket[s] /\ received'[s] = received[s] /\ ticket[s] # None
        /\ call'[s].args = ticket[s] /\ call'[s].step # "recheck"
    BY <1>0, <1>5, <1>C DEF CheckSeal, ReadClock, Steps, Call
  <2> QED
    BY <1>5, <1>D, <1>G, <2>1, CallGoesOn
<1>6. ASSUME NEW i \in Request, DeliverAgain(s, i), NoDeliveryTo(s) PROVE GoodChat(s)'
  <2>1. /\ call[s] # None /\ ticket[s].request = i /\ IsDeliveredTo(i, s) /\ Answers(i, ticket[s])
    BY <1>6, <1>C DEF DeliverAgain, At, RepeatsDelivery, IsDeliveredTo, Answers
  <2>2. /\ ticket'[s] = ticket[s] /\ received'[s] = received[s]
        /\ call'[s].args = ticket[s]
    BY <1>0, <1>6, <1>C, <2>1 DEF DeliverAgain, Steps, Call
  <2> QED
    BY <1>6, <1>D, <1>G, <1>C, <2>1, <2>2, CallGoesOn
<1>7. ASSUME EndCall(s), NoDeliveryTo(s) PROVE GoodChat(s)'
  <2>1. call[s] # None /\ call'[s] = None /\ ticket'[s] = ticket[s] /\ received'[s] = received[s]
    BY <1>0, <1>7 DEF EndCall, Ends
  <2> QED
    BY <1>7, <1>D, <1>G, <1>C, <2>1, ToldIsKnown
<1>8. ASSUME NEW i \in Request, Claim(s, i) \/ ClaimAgain(s, i), NoDeliveryTo(s) PROVE GoodChat(s)'
  <2>1. /\ call[s] # None /\ call'[s] = None /\ received'[s] = received[s]
        /\ \/ ticket'[s] = ticket[s]
           \/ ticket'[s] = [request |-> i, version |-> request'[i].version, token |-> request'[i].token]
    BY <1>0, <1>8 DEF Claim, ClaimAgain, At, Told, Ends
  <2>2. request'[i] # None /\ request'[i].status = "claimed"
    <3>1. CASE ClaimAgain(s, i)
      BY <3>1 DEF ClaimAgain, At, RepeatsClaim
    <3>2. CASE Claim(s, i)
      <4>1. call[s].now \in Nat
        BY <2>1, TrackedCallFields
      <4>2. /\ Claimed(request[i], s, call[s].now) # None
            /\ Claimed(request[i], s, call[s].now).status = "claimed"
        BY <3>2, <4>1, TrackedRows, TrackedAreThere DEF Claim, At
      <4> QED
        BY <1>0, <3>2, <4>2 DEF Claim
    <3> QED
      BY <1>8, <3>1, <3>2
  <2>3. CASE ticket'[s] = ticket[s]
    BY <1>8, <1>D, <1>G, <1>C, <2>1, <2>3, ToldIsKnown
  <2>4. CASE ticket'[s] = [request |-> i, version |-> request'[i].version, token |-> request'[i].token]
    <3>1. request'[i].version \in Version /\ request'[i].token \in Maybe(Version)
      BY <2>2 DEF TrackingTypeOK, Maybe, Row
    <3>2. ticket'[s] \in Ticket
      BY <2>4, <3>1 DEF Ticket
    <3>3. ticket'[s] # None /\ ticket'[s].request = i
      BY <2>4, <3>2, TrackedAreThere
    <3>4. ~IsDeliveredTo(ticket[s].request, s)'
      BY <2>2, <3>3 DEF IsDeliveredTo
    <3> QED
      BY <1>8, <1>D, <1>G, <2>1, <3>3, <3>4, ToldIsKnown
  <2> QED
    BY <2>1, <2>3, <2>4
<1>9. ASSUME NEW i \in Request, TellContext(s, i), NoDeliveryTo(s) PROVE GoodChat(s)'
  <2>1. /\ call[s] # None /\ ticket[s].request = i /\ IsDeliveredTo(i, s) /\ Answers(i, ticket[s])
        /\ request'[i] = request[i]
    BY <1>9, <1>C, <1>G DEF TellContext, At, RecheckIsOfDelivery
  <2>2. /\ call'[s] = None
        /\ \/ received'[s] = received[s] /\ ticket'[s] = ticket[s]
           \/ /\ received'[s] = received[s] \cup {i}
              /\ ticket'[s] = [request |-> i, version |-> request[i].version, token |-> ticket[s].token]
    BY <1>0, <1>9, <1>C DEF TellContext, At, Ends
  <2>3. CASE received'[s] = received[s] /\ ticket'[s] = ticket[s]
    BY <1>9, <1>D, <1>G, <1>C, <2>1, <2>2, <2>3, ToldIsKnown
  <2>4. CASE /\ received'[s] = received[s] \cup {i}
             /\ ticket'[s] = [request |-> i, version |-> request[i].version, token |-> ticket[s].token]
    <3>1. request[i].version \in Version /\ ticket[s].token \in Maybe(Version)
      BY <1>C, <2>1 DEF TrackingTypeOK, Maybe, Row, Ticket, IsDeliveredTo
    <3>2. ticket'[s] \in Ticket
      BY <2>4, <3>1 DEF Ticket
    <3>3. ticket'[s] # None
      BY <3>2, TrackedAreThere
    <3>4. Answers(ticket[s].request, ticket[s])'
      BY <2>1, <2>4 DEF Answers
    <3> QED
      BY <1>9, <1>D, <1>G, <2>1, <2>2, <2>4, <3>3, <3>4, ToldIsKnown
  <2> QED
    BY <2>2, <2>3, <2>4
<1>10. CASE NoDeliveryTo(s)
  BY <1>U, <1>2, <1>3, <1>4, <1>5, <1>6, <1>7, <1>8, <1>9, <1>10, <1>1, OneChatActs
<1> QED
  BY <1>1, <1>10, OnlyDeliverDelivers

\* The invariant of every reachable state.
LEMMA TrackingInvariance == TrackingSpec => []TrackingIInv
<1>1. TrackingIInv /\ [TrackingNext]_trackingVars => TrackingIInv'
  BY TrackingTypeStep, GoodChatStep DEF TrackingIInv
<1> QED
  BY <1>1, InitTracking, PTL DEF TrackingSpec

\* The rows of the tracking requests name a claim whole or not at all.
THEOREM TrackingTypeCorrect == TrackingSpec => []TrackingTypeOK
  BY TrackingInvariance, PTL DEF TrackingIInv

\* The context of a tracking request reaches the chat of its delivery alone, though
\* get_tracking_context looks at the claim again only when it delivers.
THEOREM OneChatGetsContext == TrackingSpec => []ContextGoesToOneChat
<1>1. TrackingIInv => ContextGoesToOneChat
  BY DEF TrackingIInv, GoodChat, ReceivedIsDelivered, IsDeliveredTo, ContextGoesToOneChat
<1> QED
  BY <1>1, TrackingInvariance, PTL

\* What the chat of a delivery knows is enough for get_tracking_context to answer it
\* again, after a lost reply or a seal that was found broken.
THEOREM DeliveriesRepeat == TrackingSpec => []DeliveryIsRepeatable
<1>1. TrackingIInv => DeliveryIsRepeatable
  <2> SUFFICES ASSUME TrackingIInv, NEW i \in Request, request[i] # None, request[i].status = "delivered",
                      ticket[request[i].session].request = i, ticket[request[i].session].token # None
               PROVE  RepeatsDelivery(request[i].session, i,
                            [args |-> ticket[request[i].session], now |-> clock])
    BY DEF DeliveryIsRepeatable
  <2>1. request[i].session \in Session
    BY TrackedRowFields DEF TrackingIInv, Row, Maybe, NamesClaimWhole
  <2>2. Answers(i, ticket[request[i].session])
    BY <2>1 DEF TrackingIInv, GoodChat, DeliveryIsKnown, IsDeliveredTo
  <2> QED
    BY <2>2 DEF Answers, RepeatsDelivery
<1> QED
  BY <1>1, TrackingInvariance, PTL
=============================================================================
