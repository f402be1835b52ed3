------------------------- MODULE RunningScan_proofs -------------------------
(***************************************************************************)
(* Proofs about a scan while it runs: the chain of its phases, for every set*)
(* of candidates, instances and severities, and its recovery, for every number*)
(* of chats and requests.                                                   *)
(*                                                                          *)
(* ChainIInv adds to the properties of the chain what each phase has behind it*)
(* and what cannot exist yet.                                               *)
(*                                                                          *)
(* OwnerIsLastHandoff is not inductive: a delivery makes its chat the owner,*)
(* and that is the last handoff only because the request it delivers is the *)
(* newest one.  VersionIdentifiesClaim needs that no chat knows a version   *)
(* that is still to come.  ClaimsAreExclusive needs that the time a call has*)
(* read is over.                                                            *)
(***************************************************************************)
EXTENDS ScanRecovery, PhaseChain, TLAPS

-----------------------------------------------------------------------------
(* The chain of phases. *)

\* An artifact exists only from its own phase on.
NotBefore ==
    /\ canonical # None => phase = "reporting"
    /\ attackPath # None => phase \in {"attack_path", "reporting"}
    /\ validation # None => phase \in {"validation", "attack_path", "reporting"}
    /\ discovery # None => phase \in {"discovery", "validation", "attack_path", "reporting"}

\* What a scan has behind it in each phase.
Behind ==
    /\ phase # "preflight" => brief = "ready"
    /\ phase \in {"validation", "attack_path", "reporting"} => discovery # None /\ threatModel
    /\ phase = "discovery" /\ mode # "deep" => threatModel
    /\ phase = "attack_path" => validation # None
    /\ phase = "reporting" /\ TailRequired => validation # None /\ attackPath # None

ChainIInv == ChainTypeOK /\ ChainStaysBound /\ NotBefore /\ Behind

-----------------------------------------------------------------------------
\* Nothing exists at first.
LEMMA InitInv == ChainInit => ChainIInv
<1> SUFFICES ASSUME ChainInit PROVE ChainIInv
    OBVIOUS
<1>1. "preflight" \in Phase
    BY DEF Phase, Phases
<1>2. ChainTypeOK
  <2>1. total \in 0..MaxItems /\ done \in 0..total /\ pass \in 0..MaxPass
    BY ChainBoundAssumption DEF ChainInit
  <2>2. /\ discovery \in {None} \cup SUBSET Candidate
        /\ validation \in {None} \cup Validation
        /\ attackPath \in {None} \cup Verdicts
        /\ canonical \in {None} \cup Verdicts
    BY DEF ChainInit
  <2>3. mode \in Mode /\ phase \in Phase /\ brief \in {None, "ready", "blocked"} /\ threatModel \in BOOLEAN
    BY <1>1 DEF ChainInit
  <2> QED
    BY <2>1, <2>2, <2>3 DEF ChainTypeOK
<1> QED
    BY <1>2, ChainNoneAssumption DEF ChainInit, ChainIInv, ChainStaysBound, NotBefore, Behind

\* Every step keeps the types.
LEMMA ChainTypeStep == ChainIInv /\ [ChainNext]_chainVars => ChainTypeOK'
<1> SUFFICES ASSUME ChainIInv, [ChainNext]_chainVars PROVE ChainTypeOK'
    OBVIOUS
<1> USE ChainBoundAssumption DEF ChainIInv, ChainTypeOK, Phase, Phases, ClosableCount
<1>1. CASE WriteBrief \/ WriteThreatModel \/ WriteDiscovery \/ UNCHANGED chainVars
    BY <1>1 DEF WriteBrief, WriteThreatModel, WriteDiscovery, progress, chainVars
<1>2. CASE WriteValidation \/ WriteAttackPath \/ WriteCanonical
    BY <1>2 DEF WriteValidation, WriteAttackPath, WriteCanonical, progress
<1>3. CASE Progress
    BY <1>3 DEF Progress
<1>4. CASE Advance
    BY <1>4 DEF Advance, AllowedNext
<1> QED
    BY <1>1, <1>2, <1>3, <1>4 DEF ChainNext

\* Every step keeps the artifacts bound and in their phases: an artifact is
\* written in its own phase, when no later one exists.
LEMMA ChainStep == ChainIInv /\ [ChainNext]_chainVars => (ChainStaysBound /\ NotBefore /\ Behind)'
<1> SUFFICES ASSUME ChainIInv, [ChainNext]_chainVars PROVE (ChainStaysBound /\ NotBefore /\ Behind)'
    OBVIOUS
<1> USE ChainNoneAssumption DEF ChainIInv, ChainStaysBound, NotBefore, Behind, TailRequired, CoversCandidates,
        CoversInstances, MatchesVerdicts, Validated, IsOpenFor, progress
<1>1. CASE WriteBrief
    BY <1>1 DEF WriteBrief
<1>2. CASE WriteThreatModel
    BY <1>2 DEF WriteThreatModel
<1>3. CASE WriteDiscovery
    BY <1>3 DEF WriteDiscovery
<1>4. CASE WriteValidation
    BY <1>4 DEF WriteValidation
<1>5. CASE WriteAttackPath
    BY <1>5 DEF WriteAttackPath
<1>6. CASE WriteCanonical
    BY <1>6 DEF WriteCanonical
<1>7. CASE Progress
    BY <1>7 DEF Progress
<1>8. CASE Advance
    BY <1>8 DEF Advance, AllowedNext, MayExit, SkipsTail
<1>9. CASE UNCHANGED chainVars
    BY <1>9 DEF chainVars
<1> QED
    BY <1>1, <1>2, <1>3, <1>4, <1>5, <1>6, <1>7, <1>8, <1>9 DEF ChainNext

\* The invariant holds in every behavior.
LEMMA ChainInvariance == ChainSpec => []ChainIInv
<1>1. ChainInit => ChainIInv
    BY InitInv
<1>2. ChainIInv /\ [ChainNext]_chainVars => ChainIInv'
    BY ChainTypeStep, ChainStep DEF ChainIInv
<1> QED
    BY <1>1, <1>2, PTL DEF ChainSpec

-----------------------------------------------------------------------------
\* Every variable keeps its type, and update_scan_progress never closes more
\* items than there are.
THEOREM ChainTypeCorrect == ChainSpec => []ChainTypeOK
<1>1. ChainIInv => ChainTypeOK
    BY DEF ChainIInv
<1> QED
    BY <1>1, ChainInvariance, PTL

\* The checks of write and of require_phase_exit keep every artifact bound to
\* those before it.
THEOREM ChainIsBound == ChainSpec => []ChainStaysBound
<1>1. ChainIInv => ChainStaysBound
    BY DEF ChainIInv
<1> QED
    BY <1>1, ChainInvariance, PTL

\* A scan in reporting misses nothing that it could no longer write.
THEOREM ReportIsClosable == ChainSpec => []ReportingCanClose
<1>1. ChainIInv => ReportingCanClose
    BY DEF ChainIInv, Behind, ReportingCanClose
<1> QED
    BY <1>1, ChainInvariance, PTL

\* A canonical result judges every candidate and invents none.
THEOREM AllAreJudged == ChainSpec => []EveryCandidateJudged
<1>1. ChainIInv => EveryCandidateJudged
  <2> SUFFICES ASSUME ChainIInv, canonical # None PROVE
            /\ \A c \in discovery : \E p \in Pair : p[1] = c /\ p \in DOMAIN attackPath
            /\ \A p \in DOMAIN canonical : p[1] \in discovery
    BY DEF EveryCandidateJudged
  <2>1. discovery # None /\ discovery \subseteq Candidate /\ MatchesVerdicts(canonical)
    BY DEF ChainIInv, ChainTypeOK, ChainStaysBound, NotBefore, Behind
  <2>2. CASE discovery = {}
    BY <2>1, <2>2 DEF MatchesVerdicts
  <2>3. CASE discovery # {}
    <3>1. /\ DOMAIN validation = discovery
          /\ DOMAIN attackPath = Validated(validation)
          /\ validation \in Validation
        BY <2>3 DEF ChainIInv, ChainTypeOK, NotBefore, Behind, TailRequired, ChainStaysBound, CoversCandidates,
            CoversInstances
    <3>2. ASSUME NEW c \in discovery PROVE \E p \in Pair : p[1] = c /\ p \in DOMAIN attackPath
        <4>1. PICK i \in Instance : i \in validation[c]
            BY <3>1 DEF Validation
        <4>2. <<c, i>> \in Pair
            BY <2>1 DEF Pair
        <4> QED
            BY <3>1, <4>1, <4>2 DEF Validated
    <3>3. ASSUME NEW p \in DOMAIN canonical PROVE p[1] \in discovery
        <4>1. p \in Pair
            BY DEF ChainIInv, ChainTypeOK, Verdicts
        <4> QED
            BY <2>1, <2>3, <3>1, <4>1 DEF MatchesVerdicts, Validated
    <3> QED
        BY <3>2, <3>3
  <2> QED
    BY <2>2, <2>3
<1> QED
    BY <1>1, ChainInvariance, PTL

-----------------------------------------------------------------------------
(* Recovery. *)

\* Requests are made in order, and only the newest may be open: the unique index
\* of schema.py, and the reuse of an open request.
OnlyNewestOpen ==
    \A i, j \in Request : i < j /\ request[j] # None => request[i] # None /\ ~IsOpen(i)

\* What a chat knows of a request is its present version or an older one.
TicketsAreOld ==
    \A s \in Session : ticket[s] # None =>
        /\ request[ticket[s].request] # None
        /\ ticket[s].version <= request[ticket[s].request].version

\* The time a call read is not ahead of the clock.
CallsAreOld == \A s \in Session : call[s] # None => call[s].now <= clock

IInv ==
    /\ TypeOK
    /\ OnlyNewestOpen
    /\ TicketsAreOld
    /\ CallsAreOld
    /\ OwnerIsLastHandoff
    /\ VersionIdentifiesClaim

USE OwnerAssumption, BoundAssumption, NoneAssumption

-----------------------------------------------------------------------------
\* Initially no request exists.
LEMMA InitIInv == Init => IInv
  BY DEF Init, IInv, TypeOK, OnlyNewestOpen, TicketsAreOld, CallsAreOld, OwnerIsLastHandoff,
         VersionIdentifiesClaim, Maybe, Request, Token

\* A row replaced by a whole row keeps the rows whole.
LEMMA RowStep ==
  ASSUME TypeOK, NEW i \in Request, NEW row \in Row, IsWhole(row),
         request' = [request EXCEPT ![i] = row]
  PROVE  /\ request' \in [Request -> Maybe(Row)]
         /\ \A j \in Request : request'[j] # None => IsWhole(request'[j])
<1>1. request \in [Request -> Maybe(Row)] /\ \A j \in Request : request[j] # None => IsWhole(request[j])
  BY DEF TypeOK
<1>2. row \in Maybe(Row)
  BY DEF Maybe
<1> HIDE DEF Maybe, IsWhole, Row
<1>3. \A j \in Request : request'[j] = IF j = i THEN row ELSE request[j]
  BY <1>1
<1> QED
  BY <1>1, <1>2, <1>3

\* What an open row, and a row under a claim, consists of.
LEMMA RowFields ==
  ASSUME TypeOK, NEW i \in Request, request[i] # None
  PROVE  request[i] \in Row /\ IsWhole(request[i])
  BY DEF TypeOK, Maybe

\* What a chat that has a call under way sent along.
LEMMA CallFields ==
  ASSUME TypeOK, NEW s \in Session, call[s] # None
  PROVE  /\ call[s] \in Call /\ call[s].now \in Nat
         /\ call[s].args.request \in Request /\ call[s].args.version \in 1..MaxVersion
  BY DEF TypeOK, Maybe, Call, Ticket

\* Every step keeps the types, and every row whole.
LEMMA TypeStep == TypeOK /\ [Next]_vars => TypeOK'
<1> SUFFICES ASSUME TypeOK, [Next]_vars PROVE TypeOK'
  OBVIOUS
<1> DEFINE Rows == /\ request \in [Request -> Maybe(Row)]
                   /\ \A j \in Request : request[j] # None => IsWhole(request[j])
           Rest == /\ running \in BOOLEAN /\ owner \in Session /\ clock \in 0..MaxClock
                   /\ call \in [Session -> Maybe(Call)]
           Tickets == ticket \in [Session -> Maybe(Ticket)]
<1> SUFFICES Rows' /\ Rest' /\ Tickets'
  BY DEF TypeOK
<1>0. Rows /\ Rest /\ Tickets
  BY DEF TypeOK
<1>1. ASSUME NEW s \in Session, Resume(s) PROVE Rows' /\ Rest' /\ Tickets'
  <2>1. PICK i \in Request :
        /\ \/ IsOpen(i) /\ UNCHANGED request
           \/ request' = [request EXCEPT ![i] =
                [status |-> "pending", version |-> 1, session |-> None, token |-> None,
                 claimedAt |-> None, deliveredAt |-> None]]
        /\ ticket' = [ticket EXCEPT ![s] =
                [request |-> i, version |-> request'[i].version, token |-> None]]
    BY <1>1 DEF Resume
  <2>2. Rows'
    <3>1. CASE UNCHANGED request
      BY <1>0, <3>1
    <3>2. CASE request' = [request EXCEPT ![i] =
                [status |-> "pending", version |-> 1, session |-> None, token |-> None,
                 claimedAt |-> None, deliveredAt |-> None]]
      <4> DEFINE row == [status |-> "pending", version |-> 1, session |-> None, token |-> None,
                         claimedAt |-> None, deliveredAt |-> None]
      <4>1. row \in Row /\ IsWhole(row)
        BY DEF Row, Maybe, IsWhole
      <4> QED
        BY <3>2, <4>1, RowStep
    <3> QED
      BY <2>1, <3>1, <3>2
  <2>3. request'[i] # None
    <3>1. CASE IsOpen(i) /\ UNCHANGED request
      BY <3>1 DEF IsOpen
    <3>2. CASE request' = [request EXCEPT ![i] =
                [status |-> "pending", version |-> 1, session |-> None, token |-> None,
                 claimedAt |-> None, deliveredAt |-> None]]
      <4> DEFINE row == [status |-> "pending", version |-> 1, session |-> None, token |-> None,
                         claimedAt |-> None, deliveredAt |-> None]
      <4>1. row \in Row
        BY DEF Row, Maybe
      <4>2. request'[i] = row
        BY <1>0, <3>2
      <4> QED
        BY <4>1, <4>2
    <3> QED
      BY <2>1, <3>1, <3>2
  <2>4. request'[i].version \in 1..MaxVersion
    BY <2>2, <2>3 DEF Maybe, Row
  <2>5. Tickets'
    BY <1>0, <2>1, <2>4 DEF Maybe, Ticket, Token
  <2> QED
    BY <1>0, <1>1, <2>2, <2>5 DEF Resume
<1>2. ASSUME NEW i \in Request, Cancel(i) PROVE Rows' /\ Rest' /\ Tickets'
  <2> DEFINE row == Canceled(request[i])
  <2>1. /\ request[i] \in Row /\ IsWhole(request[i])
        /\ request[i].version + 1 \in 1..MaxVersion /\ request[i].status # "delivered"
    BY <1>2, RowFields DEF Cancel, Row
  <2>2. row \in Row
    BY <2>1 DEF Canceled, Row, Maybe
  <2>3. IsWhole(row)
    BY <2>1 DEF Canceled, Row, IsWhole
  <2>4. request' = [request EXCEPT ![i] = Canceled(request[i])]
    BY <1>2 DEF Cancel
  <2>5. Rows'
    BY <2>2, <2>3, <2>4, RowStep
  <2> QED
    BY <1>0, <1>2, <2>5 DEF Cancel
<1>3. ASSUME NEW s \in Session, NEW op \in {"claim", "deliver", "release"}, Begin(s, op)
      PROVE Rows' /\ Rest' /\ Tickets'
  BY <1>0, <1>3 DEF Begin, Maybe, Call
<1>4. ASSUME NEW s \in Session, NEW i \in Request, Claim(s, i) PROVE Rows' /\ Rest' /\ Tickets'
  <2> DEFINE next == request[i].version + 1
             row == [status |-> "claimed", version |-> next, session |-> s, token |-> next,
                     claimedAt |-> call[s].now, deliveredAt |-> None]
  <2>1. request[i] \in Row /\ next \in 1..MaxVersion
    BY <1>4, RowFields DEF Claim, MayClaim, IsOpen, Row
  <2>2. row \in Row /\ IsWhole(row)
    BY <1>4, <2>1, CallFields DEF Claim, Runs, Row, Maybe, IsWhole, Token
  <2>3. Rows'
    BY <1>4, <2>2, RowStep DEF Claim
  <2>4. [request |-> i, version |-> next, token |-> next] \in Maybe(Ticket)
    BY <2>1 DEF Maybe, Ticket, Token
  <2> QED
    BY <1>0, <1>4, <2>3, <2>4 DEF Claim, Reply, Maybe
<1>5. ASSUME NEW s \in Session, NEW i \in Request, ClaimAgain(s, i) PROVE Rows' /\ Rest' /\ Tickets'
  <2>1. request[i] # None
    BY <1>5 DEF ClaimAgain, Runs
  <2>2. [request |-> i, version |-> request[i].version, token |-> request[i].token] \in Maybe(Ticket)
    BY <2>1, RowFields DEF Maybe, Ticket, Row
  <2> QED
    BY <1>0, <1>5, <2>2 DEF ClaimAgain, Reply, Maybe
<1>6. ASSUME NEW s \in Session, NEW i \in Request, Deliver(s, i) PROVE Rows' /\ Rest' /\ Tickets'
  <2> DEFINE row == Delivered(request[i], call[s].now)
  <2>1. request[i] \in Row /\ IsWhole(request[i])
    BY <1>6, RowFields DEF Deliver, Runs
  <2>2. call[s].now \in Nat /\ request[i].status = "claimed" /\ request[i].version + 1 \in 1..MaxVersion
    BY <1>6, <2>1, CallFields DEF Deliver, MayDeliver, Holds, Runs, Row
  <2>3. row \in Row
    BY <2>1, <2>2 DEF Row, Maybe, Delivered
  <2>4. IsWhole(row)
    BY <2>1, <2>2 DEF Row, IsWhole, Delivered
  <2>5. request' = [request EXCEPT ![i] = row]
    BY <1>6 DEF Deliver
  <2>6. Rows'
    BY <2>3, <2>4, <2>5, RowStep
  <2> QED
    BY <1>0, <1>6, <2>6 DEF Deliver, Reply, Maybe
<1>7. ASSUME NEW s \in Session, NEW i \in Request, DeliverAgain(s, i) PROVE Rows' /\ Rest' /\ Tickets'
  BY <1>0, <1>7 DEF DeliverAgain, Reply, Maybe
<1>8. ASSUME NEW s \in Session, NEW i \in Request, ReleaseClaim(s, i) PROVE Rows' /\ Rest' /\ Tickets'
  <2> DEFINE row == Released(request[i])
  <2>1. /\ request[i] \in Row /\ IsWhole(request[i])
        /\ request[i].version + 1 \in 1..MaxVersion /\ request[i].status # "delivered"
    BY <1>8, RowFields DEF ReleaseClaim, Runs, Holds, Row
  <2>2. row \in Row
    BY <2>1 DEF Released, Row, Maybe
  <2>3. IsWhole(row)
    BY <2>1 DEF Released, Row, IsWhole
  <2>4. request' = [request EXCEPT ![i] = Released(request[i])]
    BY <1>8 DEF ReleaseClaim
  <2>5. Rows'
    BY <2>2, <2>3, <2>4, RowStep
  <2> QED
    BY <1>0, <1>8, <2>5 DEF ReleaseClaim, Reply, Maybe
<1>9. ASSUME NEW s \in Session, EndWithoutEffect(s) PROVE Rows' /\ Rest' /\ Tickets'
  BY <1>0, <1>9 DEF EndWithoutEffect, Maybe
<1>10. CASE EndScan
  BY <1>0, <1>10 DEF EndScan
<1>11. CASE Tick
  BY <1>0, <1>11 DEF Tick
<1>12. CASE UNCHANGED vars
  BY <1>0, <1>12 DEF vars
<1> QED
  BY <1>1, <1>2, <1>3, <1>4, <1>5, <1>6, <1>7, <1>8, <1>9, <1>10, <1>11, <1>12 DEF Next

-----------------------------------------------------------------------------
\* A row that exists only moves to another version, never back, and stays as it
\* was otherwise; a delivered row never changes.
RowsMoveOn ==
    \A i \in Request : request[i] # None =>
        /\ request'[i] # None
        /\ request'[i] = request[i] \/ request'[i].version = request[i].version + 1
        /\ request[i].status = "delivered" => request'[i] = request[i]

\* The rows and the owner together change in three ways only: a row is created
\* while none is open, an open row is delivered to the chat that becomes the
\* owner, or a row that exists moves on without being delivered.
Created == \E i \in Request :
    /\ \A j \in Request : ~IsOpen(j)
    /\ request[i] = None /\ \A j \in 1..(i - 1) : request[j] # None
    /\ \A j \in Request \ {i} : request'[j] = request[j]
    /\ request'[i] # None /\ request'[i].status = "pending" /\ owner' = owner
Handed == \E i \in Request, s \in Session :
    /\ IsOpen(i) /\ owner' = s
    /\ \A j \in Request \ {i} : request'[j] = request[j]
    /\ request'[i] # None /\ request'[i].status = "delivered" /\ request'[i].session = s
Moved ==
    /\ owner' = owner
    /\ \A i \in Request :
        \/ request'[i] = request[i]
        \/ /\ request[i] # None /\ request[i].status # "delivered"
           /\ request'[i] # None /\ request'[i].status # "delivered"
           /\ request'[i].status \in {"pending", "claimed"} => IsOpen(i)

\* Each step that changes a row, with the row it makes of it.
LEMMA RowChanges ==
  ASSUME IInv, [Next]_vars, TypeOK'
  PROVE  RowsMoveOn /\ (Created \/ Handed \/ Moved)
<1> USE DEF IInv
<1>0. request \in [Request -> Maybe(Row)]
  BY DEF TypeOK
<1>1. ASSUME NEW s \in Session, Resume(s) PROVE RowsMoveOn /\ (Created \/ Moved)
  <2>1. CASE UNCHANGED request
    BY <1>1, <2>1 DEF Resume, RowsMoveOn, Moved
  <2>2. ASSUME NEW i \in Request,
               \A j \in Request : ~IsOpen(j), request[i] = None,
               \A j \in 1..(i - 1) : request[j] # None,
               request' = [request EXCEPT ![i] =
                  [status |-> "pending", version |-> 1, session |-> None, token |-> None,
                   claimedAt |-> None, deliveredAt |-> None]]
        PROVE  RowsMoveOn /\ Created
    <3> DEFINE row == [status |-> "pending", version |-> 1, session |-> None, token |-> None,
                       claimedAt |-> None, deliveredAt |-> None]
    <3>1. row \in Row
      BY DEF Row, Maybe
    <3>2. request'[i] = row /\ \A j \in Request \ {i} : request'[j] = request[j]
      BY <1>0, <2>2
    <3>3. request'[i] # None /\ request'[i].status = "pending"
      BY <3>1, <3>2
    <3>4. owner' = owner
      BY <1>1 DEF Resume
    <3> QED
      BY <2>2, <3>2, <3>3, <3>4 DEF RowsMoveOn, Created
  <2> QED
    BY <1>1, <2>1, <2>2 DEF Resume
<1>2. ASSUME NEW i \in Request, NEW row \in Row,
             request[i] # None, request[i].status # "delivered",
             row.status # "delivered", row.version = request[i].version + 1,
             row.status \in {"pending", "claimed"} => IsOpen(i),
             request' = [request EXCEPT ![i] = row], owner' = owner
      PROVE  RowsMoveOn /\ Moved
  <2>1. request'[i] = row /\ \A j \in Request \ {i} : request'[j] = request[j]
    BY <1>0, <1>2
  <2> QED
    BY <1>2, <2>1, NoneAssumption DEF RowsMoveOn, Moved
<1>3. ASSUME NEW i \in Request, Cancel(i) PROVE RowsMoveOn /\ Moved
  <2>1. request[i] \in Row /\ request[i].version + 1 \in 1..MaxVersion
    BY <1>3, RowFields DEF Cancel, Row
  <2>2. /\ Canceled(request[i]) \in Row /\ Canceled(request[i]).status = "canceled"
        /\ Canceled(request[i]).version = request[i].version + 1
    BY <2>1 DEF Canceled, Row, Maybe
  <2> QED
    BY <1>2, <1>3, <2>1, <2>2 DEF Cancel
<1>4. ASSUME NEW s \in Session, NEW i \in Request, Claim(s, i) PROVE RowsMoveOn /\ Moved
  <2> DEFINE next == request[i].version + 1
             row == [status |-> "claimed", version |-> next, session |-> s, token |-> next,
                     claimedAt |-> call[s].now, deliveredAt |-> None]
  <2>1. IsOpen(i) /\ request[i] \in Row /\ next \in 1..MaxVersion
    BY <1>4, RowFields DEF Claim, MayClaim, IsOpen, Row
  <2>2. row \in Row
    BY <1>4, <2>1, CallFields DEF Claim, Runs, Row, Maybe, Token
  <2>3. request' = [request EXCEPT ![i] = row] /\ owner' = owner
    BY <1>4 DEF Claim
  <2> QED
    BY <1>2, <2>1, <2>2, <2>3 DEF IsOpen
<1>5. ASSUME NEW s \in Session, NEW i \in Request, Deliver(s, i) PROVE RowsMoveOn /\ Handed
  <2> DEFINE row == Delivered(request[i], call[s].now)
  <2>1. IsOpen(i) /\ request[i] \in Row /\ request[i].status = "claimed" /\ request[i].session = s
    BY <1>5, RowFields DEF Deliver, Runs, MayDeliver, Holds, IsOpen
  <2>2. /\ row.status = "delivered" /\ row.session = s
        /\ row.version = request[i].version + 1
    BY <2>1 DEF Delivered, Row
  <2>3. request' = [request EXCEPT ![i] = row] /\ owner' = s
    BY <1>5 DEF Deliver
  <2>4. request'[i] = row /\ \A j \in Request \ {i} : request'[j] = request[j]
    BY <1>0, <2>3
  <2>5. row # None
    <3>1. call[s].now \in Nat /\ request[i].version + 1 \in 1..MaxVersion
      BY <1>5, <2>1, CallFields DEF Deliver, Runs, Row
    <3>2. row \in Row
      BY <2>1, <3>1 DEF Delivered, Row, Maybe
    <3> QED
      BY <3>2, NoneAssumption
  <2>6. RowsMoveOn
    BY <2>1, <2>2, <2>4, <2>5 DEF RowsMoveOn
  <2>7. Handed
    BY <2>1, <2>2, <2>3, <2>4, <2>5 DEF Handed
  <2> QED
    BY <2>6, <2>7
<1>6. ASSUME NEW s \in Session, NEW i \in Request, ReleaseClaim(s, i) PROVE RowsMoveOn /\ Moved
  <2>1. /\ IsOpen(i) /\ request[i] \in Row /\ request[i].status = "claimed"
        /\ request[i].version + 1 \in 1..MaxVersion
    BY <1>6, RowFields DEF ReleaseClaim, Runs, Holds, IsOpen, Row
  <2>2. /\ Released(request[i]) \in Row /\ Released(request[i]).status = "pending"
        /\ Released(request[i]).version = request[i].version + 1
    BY <2>1 DEF Released, Row, Maybe
  <2> QED
    BY <1>2, <1>6, <2>1, <2>2 DEF ReleaseClaim
<1>7. ASSUME UNCHANGED <<request, owner>> PROVE RowsMoveOn /\ Moved
  BY <1>7 DEF RowsMoveOn, Moved
<1>8. ASSUME NEW s \in Session, NEW op \in {"claim", "deliver", "release"}, Begin(s, op)
      PROVE UNCHANGED <<request, owner>>
  BY <1>8 DEF Begin
<1>9. ASSUME NEW s \in Session, NEW i \in Request, ClaimAgain(s, i) \/ DeliverAgain(s, i)
      PROVE UNCHANGED <<request, owner>>
  BY <1>9 DEF ClaimAgain, DeliverAgain
<1>10. ASSUME NEW s \in Session, EndWithoutEffect(s) PROVE UNCHANGED <<request, owner>>
  BY <1>10 DEF EndWithoutEffect
<1>11. CASE EndScan \/ Tick \/ UNCHANGED vars
  BY <1>7, <1>11 DEF EndScan, Tick, vars
<1> QED
  BY <1>1, <1>3, <1>4, <1>5, <1>6, <1>7, <1>8, <1>9, <1>10, <1>11 DEF Next

\* Only the newest request may be open: one is created while none is open, and
\* a closed one never opens again.
LEMMA NewestStep ==
  ASSUME IInv, [Next]_vars, TypeOK'
  PROVE  OnlyNewestOpen'
<1>1. RowsMoveOn /\ (Created \/ Handed \/ Moved)
  BY RowChanges
<1>2. CASE Created
  BY <1>1, <1>2 DEF IInv, OnlyNewestOpen, Created, RowsMoveOn, IsOpen, Request
<1>3. CASE Handed
  BY <1>1, <1>3 DEF IInv, OnlyNewestOpen, Handed, RowsMoveOn, IsOpen, Request
<1>4. CASE Moved
  BY <1>1, <1>4 DEF IInv, OnlyNewestOpen, Moved, RowsMoveOn, IsOpen, Request
<1> QED
  BY <1>1, <1>2, <1>3, <1>4

\* A handoff is the last one because the request it delivers is the newest.
LEMMA OwnerStep ==
  ASSUME IInv, [Next]_vars, TypeOK'
  PROVE  OwnerIsLastHandoff'
<1> USE DEF IInv
<1>1. RowsMoveOn /\ (Created \/ Handed \/ Moved)
  BY RowChanges
<1>2. CASE Created
  BY <1>2 DEF Created, OwnerIsLastHandoff, Request
<1>3. CASE Handed
  BY <1>3 DEF Handed, OwnerIsLastHandoff, OnlyNewestOpen, IsOpen, Request
<1>4. CASE Moved
  BY <1>4 DEF Moved, OwnerIsLastHandoff, Request
<1> QED
  BY <1>1, <1>2, <1>3, <1>4

\* The version a chat knows is in the row it was read from, and rows move on.
LEMMA TicketStep ==
  ASSUME IInv, [Next]_vars, TypeOK'
  PROVE  TicketsAreOld' /\ VersionIdentifiesClaim'
<1> USE DEF IInv
<1> DEFINE Good(s) == ticket[s] # None =>
            LET row == request[ticket[s].request] IN
            /\ row # None /\ ticket[s].version <= row.version
            /\ ticket[s].token # None /\ row.version = ticket[s].version =>
                row.status = "claimed" /\ row.session = s /\ row.token = ticket[s].token
<1> SUFFICES ASSUME NEW s \in Session PROVE Good(s)'
  BY DEF TicketsAreOld, VersionIdentifiesClaim
<1>1. RowsMoveOn
  BY RowChanges
<1>2. Good(s)
  BY DEF TicketsAreOld, VersionIdentifiesClaim
<1>3. ASSUME ticket'[s] = ticket[s] PROVE Good(s)'
  <2> SUFFICES ASSUME ticket[s] # None PROVE Good(s)'
    BY <1>3
  <2> DEFINE i == ticket[s].request
  <2>1. i \in Request /\ ticket[s].version \in Nat /\ request[i] # None
    BY <1>2 DEF TypeOK, Maybe, Ticket
  <2>2. request[i] \in Row
    BY <2>1, RowFields
  <2>3. request[i].version \in Nat
    BY <2>2 DEF Row
  <2>4. /\ request'[i] # None
        /\ request'[i] = request[i] \/ request'[i].version = request[i].version + 1
    BY <1>1, <2>1 DEF RowsMoveOn
  <2> QED
    BY <1>2, <1>3, <2>1, <2>3, <2>4
<1>4. ASSUME ticket'[s] = None PROVE Good(s)'
  BY <1>4
<1>5. ticket \in [Session -> Maybe(Ticket)] /\ request \in [Request -> Maybe(Row)]
  BY DEF TypeOK
<1>6. ASSUME NEW t \in Session, Resume(t) PROVE Good(s)'
  <2>1. CASE s # t
    BY <1>3, <1>5, <1>6, <2>1 DEF Resume
  <2>2. CASE s = t
    <3>1. PICK i \in Request :
        /\ \/ IsOpen(i) /\ UNCHANGED request
           \/ request' = [request EXCEPT ![i] =
                [status |-> "pending", version |-> 1, session |-> None, token |-> None,
                 claimedAt |-> None, deliveredAt |-> None]]
        /\ ticket' = [ticket EXCEPT ![t] =
                [request |-> i, version |-> request'[i].version, token |-> None]]
      BY <1>6 DEF Resume
    <3>2. request'[i] # None
      <4> DEFINE row == [status |-> "pending", version |-> 1, session |-> None, token |-> None,
                         claimedAt |-> None, deliveredAt |-> None]
      <4>1. row \in Row
        BY DEF Row, Maybe
      <4>2. row # None
        BY <4>1, NoneAssumption
      <4>3. CASE IsOpen(i) /\ UNCHANGED request
        BY <4>3 DEF IsOpen
      <4>4. CASE request' = [request EXCEPT ![i] = row]
        BY <1>5, <4>2, <4>4
      <4> QED
        BY <3>1, <4>3, <4>4
    <3>3. request'[i].version \in Nat
      BY <3>2 DEF TypeOK, Maybe, Row
    <3> QED
      BY <1>5, <2>2, <3>1, <3>2, <3>3
  <2> QED
    BY <2>1, <2>2
<1>7. ASSUME NEW t \in Session, NEW i \in Request, Claim(t, i) PROVE Good(s)'
  <2>1. request[i] \in Row
    BY <1>7, RowFields DEF Claim, Runs
  <2>2. request[i].version + 1 \in Nat
    BY <2>1 DEF Row
  <2> DEFINE next == request[i].version + 1
             row == [status |-> "claimed", version |-> next, session |-> t, token |-> next,
                     claimedAt |-> call[t].now, deliveredAt |-> None]
  <2>3. request'[i] = row
    BY <1>5, <1>7 DEF Claim
  <2>4. request'[i] # None
    BY <1>1, <1>7 DEF RowsMoveOn, Claim, Runs
  <2>5. CASE ticket' = [ticket EXCEPT ![t] = [request |-> i, version |-> next, token |-> next]]
    BY <1>3, <1>5, <2>2, <2>3, <2>4, <2>5
  <2> QED
    BY <1>3, <1>7, <2>5 DEF Claim, Reply
<1>8. ASSUME NEW t \in Session, NEW i \in Request, ClaimAgain(t, i) PROVE Good(s)'
  <2>1. request[i] # None /\ request[i].status = "claimed" /\ request[i].session = t /\ UNCHANGED request
    BY <1>8 DEF ClaimAgain, Runs, RepeatsClaim
  <2>2. request[i].version \in Nat
    BY <2>1, RowFields DEF Row
  <2>3. CASE ticket' = [ticket EXCEPT ![t] =
                [request |-> i, version |-> request[i].version, token |-> request[i].token]]
    BY <1>3, <1>5, <2>1, <2>2, <2>3
  <2> QED
    BY <1>3, <1>8, <2>3 DEF ClaimAgain, Reply
<1>9. ASSUME NEW t \in Session, NEW i \in Request, Deliver(t, i) \/ DeliverAgain(t, i) \/ ReleaseClaim(t, i)
      PROVE Good(s)'
  <2>1. ticket' = [ticket EXCEPT ![t] = None] \/ UNCHANGED ticket
    BY <1>9 DEF Deliver, DeliverAgain, ReleaseClaim, Reply
  <2> QED
    BY <1>3, <1>4, <1>5, <2>1
<1>10. ASSUME NEW i \in Request, Cancel(i) PROVE Good(s)'
  BY <1>3, <1>10 DEF Cancel
<1>11. ASSUME NEW t \in Session, NEW op \in {"claim", "deliver", "release"}, Begin(t, op)
       PROVE Good(s)'
  BY <1>3, <1>11 DEF Begin
<1>12. ASSUME NEW t \in Session, EndWithoutEffect(t) PROVE Good(s)'
  BY <1>3, <1>12 DEF EndWithoutEffect
<1>13. CASE EndScan \/ Tick \/ UNCHANGED vars
  BY <1>3, <1>13 DEF EndScan, Tick, vars
<1> QED
  BY <1>6, <1>7, <1>8, <1>9, <1>10, <1>11, <1>12, <1>13 DEF Next

\* The time a call read is the clock of its beginning.
LEMMA CallStep ==
  ASSUME IInv, [Next]_vars, TypeOK'
  PROVE  CallsAreOld'
<1> USE DEF IInv, CallsAreOld
<1>1. call \in [Session -> Maybe(Call)] /\ clock \in Nat
  BY DEF TypeOK
<1>2. \A s \in Session : call[s] # None => call[s].now \in Nat
  BY CallFields
<1>3. ASSUME NEW s \in Session, NEW op \in {"claim", "deliver", "release"}, Begin(s, op)
      PROVE CallsAreOld'
  BY <1>1, <1>2, <1>3 DEF Begin
<1>4. ASSUME NEW s \in Session, call' = [call EXCEPT ![s] = None], clock' = clock
      PROVE CallsAreOld'
  BY <1>1, <1>4
<1>5. ASSUME NEW s \in Session, NEW i \in Request,
             Claim(s, i) \/ ClaimAgain(s, i) \/ Deliver(s, i) \/ DeliverAgain(s, i) \/ ReleaseClaim(s, i)
      PROVE CallsAreOld'
  BY <1>4, <1>5 DEF Claim, ClaimAgain, Deliver, DeliverAgain, ReleaseClaim, Reply
<1>6. ASSUME NEW s \in Session, EndWithoutEffect(s) PROVE CallsAreOld'
  BY <1>4, <1>6 DEF EndWithoutEffect
<1>7. CASE Tick
  BY <1>1, <1>2, <1>7 DEF Tick
<1>8. ASSUME UNCHANGED <<call, clock>> PROVE CallsAreOld'
  BY <1>8
<1>9. ASSUME NEW s \in Session, Resume(s) PROVE CallsAreOld'
  BY <1>8, <1>9 DEF Resume
<1>10. ASSUME NEW i \in Request, Cancel(i) PROVE CallsAreOld'
  BY <1>8, <1>10 DEF Cancel
<1>11. CASE EndScan \/ UNCHANGED vars
  BY <1>8, <1>11 DEF EndScan, vars
<1> QED
  BY <1>3, <1>5, <1>6, <1>7, <1>9, <1>10, <1>11 DEF Next

LEMMA NextIInv == IInv /\ [Next]_vars => IInv'
<1> SUFFICES ASSUME IInv, [Next]_vars PROVE IInv'
  OBVIOUS
<1>1. TypeOK'
  BY TypeStep DEF IInv
<1> QED
  BY <1>1, NewestStep, OwnerStep, TicketStep, CallStep DEF IInv

\* A claim is replaced by one of another chat only when the time read by the call,
\* which is not ahead of the clock, is past it.
LEMMA ClaimStep ==
  ASSUME IInv, [Next]_vars, TypeOK',
         NEW i \in Request, NEW s \in Session,
         request[i] # None, request[i].status = "claimed", request[i].session = s,
         clock - request[i].claimedAt < Lease
  PROVE  request'[i].status \in {"pending", "canceled"} \/ request'[i].session = s
<1> USE DEF IInv
<1> DEFINE Kept == request'[i].status \in {"pending", "canceled"} \/ request'[i].session = s
<1>1. /\ request \in [Request -> Maybe(Row)] /\ clock \in Nat /\ Lease \in Nat
      /\ request[i] \in Row /\ request[i].claimedAt \in Nat /\ IsOpen(i)
  <2>1. request[i] \in Row /\ IsWhole(request[i])
    BY RowFields
  <2> QED
    BY <2>1 DEF TypeOK, IsWhole, Row, Maybe, IsOpen
<1>2. ASSUME NEW j \in Request, NEW row, j # i, request' = [request EXCEPT ![j] = row] PROVE Kept
  BY <1>1, <1>2
<1>3. ASSUME NEW t \in Session, NEW j \in Request, Claim(t, j) PROVE Kept
  <2>1. CASE j # i
    BY <1>2, <1>3, <2>1 DEF Claim
  <2>2. CASE j = i
    <3>1. call[t].now \in Nat /\ call[t].now <= clock
      BY <1>3, CallFields DEF Claim, Runs, CallsAreOld
    <3>2. IsFresh(request[i].claimedAt, call[t].now)
      BY <1>1, <3>1, NoneAssumption DEF IsFresh
    <3> QED
      BY <1>3, <2>2, <3>2 DEF Claim, MayClaim
  <2> QED
    BY <2>1, <2>2
<1>4. ASSUME NEW t \in Session, NEW j \in Request, Deliver(t, j) PROVE Kept
  <2>1. CASE j # i
    BY <1>2, <1>4, <2>1 DEF Deliver
  <2>2. CASE j = i
    <3>1. request'[i] = Delivered(request[i], call[t].now)
      BY <1>1, <1>4, <2>2 DEF Deliver
    <3> QED
      BY <1>1, <3>1 DEF Delivered, Row
  <2> QED
    BY <2>1, <2>2
<1>5. ASSUME NEW t \in Session, NEW j \in Request, ReleaseClaim(t, j) PROVE Kept
  <2>1. CASE j # i
    BY <1>2, <1>5, <2>1 DEF ReleaseClaim
  <2>2. CASE j = i
    BY <1>1, <1>5, <2>2 DEF ReleaseClaim, Released, Row
  <2> QED
    BY <2>1, <2>2
<1>6. ASSUME NEW j \in Request, Cancel(j) PROVE Kept
  <2>1. CASE j # i
    BY <1>2, <1>6, <2>1 DEF Cancel
  <2>2. CASE j = i
    BY <1>1, <1>6, <2>2 DEF Cancel, Canceled, Row
  <2> QED
    BY <2>1, <2>2
<1>7. ASSUME UNCHANGED request PROVE Kept
  BY <1>7
<1>8. ASSUME NEW t \in Session, Resume(t) PROVE Kept
  BY <1>1, <1>7, <1>8 DEF Resume
<1>9. ASSUME NEW t \in Session, NEW op \in {"claim", "deliver", "release"}, Begin(t, op) PROVE Kept
  BY <1>7, <1>9 DEF Begin
<1>10. ASSUME NEW t \in Session, NEW j \in Request, ClaimAgain(t, j) \/ DeliverAgain(t, j) PROVE Kept
  BY <1>7, <1>10 DEF ClaimAgain, DeliverAgain
<1>11. ASSUME NEW t \in Session, EndWithoutEffect(t) PROVE Kept
  BY <1>7, <1>11 DEF EndWithoutEffect
<1>12. CASE EndScan \/ Tick \/ UNCHANGED vars
  BY <1>7, <1>12 DEF EndScan, Tick, vars
<1> QED
  BY <1>3, <1>4, <1>5, <1>6, <1>8, <1>9, <1>10, <1>11, <1>12 DEF Next

-----------------------------------------------------------------------------
\* IInv holds in every reachable state.
LEMMA Invariance == Spec => []IInv
  BY InitIInv, NextIInv, PTL DEF Spec

\* Every row names a claim whole or not at all.
THEOREM TypeCorrect == Spec => []TypeOK
  BY Invariance, PTL DEF IInv

\* The owner of a scan is the chat of the handoff delivered last.
THEOREM OwnerIsRightful == Spec => []OwnerIsLastHandoff
  BY Invariance, PTL DEF IInv

\* The version a chat was told identifies its claim.
THEOREM VersionIsEnough == Spec => []VersionIdentifiesClaim
  BY Invariance, PTL DEF IInv

\* No chat takes the fresh claim of another one.
THEOREM ClaimsExclude == Spec => ClaimsAreExclusive
<1> DEFINE Keeps == \A i \in Request, s \in Session :
        request[i] # None /\ request[i].status = "claimed" /\ request[i].session = s
            /\ clock - request[i].claimedAt < Lease
        => request'[i].status \in {"pending", "canceled"} \/ request'[i].session = s
<1>1. IInv /\ IInv' /\ [Next]_vars => [Keeps]_vars
  BY ClaimStep DEF IInv
<1> QED
  BY <1>1, Invariance, PTL DEF Spec, ClaimsAreExclusive
=============================================================================
