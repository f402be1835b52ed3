------------------------- MODULE Remediation_proofs -------------------------
(***************************************************************************)
(* Proofs about Remediation for any number of windows, chats, attempts and  *)
(* claims.                                                                  *)
(*                                                                          *)
(* A call decides on what its check has read.  The inductive invariant says *)
(* what of that still holds at the next read and when its transaction runs  *)
(* (CallsFit): unless the checkout was edited, it is still what the check    *)
(* has read first; rows stay and keep their base and the tree that is        *)
(* foreseen for them (Foreseen), so that what a read was compared with is    *)
(* still there; and a chat that has a result on its way makes no other call, *)
(* so that the result is of the attempt it has claimed.                      *)
(***************************************************************************)
EXTENDS Remediation, TLAPS

Results == {"generated", "applied", "verified", "failed"}
Process == Caller \cup Session

\* The tree an apply makes of the base.
Patched(a) == attempt[a].base \cup {a}

\* The tree that is foreseen for an apply has the patch of the attempt, and is
\* the base with it unless the checkout was edited during the check; it is there
\* from the apply request on only.
Foreseen ==
    \A a \in Attempt : Exists(a) =>
        /\ attempt[a].expected # None =>
            /\ a \in attempt[a].expected
            /\ <<a, "apply">> \notin disturbed => attempt[a].expected = Patched(a)
        /\ \/ attempt[a].state = "requested"
           \/ attempt[a].state = "generated" /\ attempt[a].pending = None
           => attempt[a].expected = None

LeasesFit == \A s \in Session : lease[s] # None => Exists(lease[s].id)

\* A check of an apply: the checkout is still the base, or the tree was foreseen.
ApplyFits(c) ==
    /\ c.reads # 0 /\ ~c.edited => checkout = attempt[c.id].base
    /\ c.reads = 0 => /\ c.tree \in Tree /\ c.id \in c.tree
                      /\ ~c.edited => c.tree = Patched(c.id)

\* A check of an applied result: the checkout is still the tree that was read
\* first, or that is the one that was foreseen.
AppliedFits(c) ==
    /\ c.tree \in Tree
    /\ attempt[c.id].expected # None
    /\ c.reads # 0 /\ ~c.edited => checkout = c.tree
    /\ c.reads = 0 /\ ~c.edited => attempt[c.id].expected = c.tree

\* What a check has read, and what its transaction may still rely on.
CallFits(p) ==
    LET c == call[p] IN
    /\ c.reads # 0 \/ c.edited => c.kind \in {"apply", "applied"}
    /\ c.kind = "generate" => c.tree \in Tree
    /\ c.kind \in {"apply", "verify"} => c.id \in Attempt /\ Exists(c.id)
    /\ c.kind = "apply" => ApplyFits(c)
    /\ c.kind \in Results =>
        /\ p \in Session /\ lease[p] # None /\ c.id = lease[p].id
        /\ c.id \in Attempt /\ Exists(c.id)
    /\ c.kind = "applied" => AppliedFits(c)

CallsFit == \A p \in Process : call[p] # None => CallFits(p)

IInv ==
    /\ TypeOK
    /\ Foreseen
    /\ LeasesFit
    /\ CallsFit
    /\ ClosedIsQuiet
    /\ AppliedIsExpected

USE NoneIsNothing, NoneIsNoRecord, BoundAssumption

-----------------------------------------------------------------------------
\* Initially there are no attempts and no calls.
LEMMA InitIInv == Init => IInv
<1> SUFFICES ASSUME Init PROVE IInv
  OBVIOUS
<1>1. \A a \in Attempt : GeneratedBefore(a) \in Row /\ LegalRow(GeneratedBefore(a))
  BY DEF GeneratedBefore, Row, LegalRow, Maybe, State, Action, Tree
<1>2. /\ attempt \in [Attempt -> Maybe(Row)]
      /\ \A a \in Attempt : Exists(a) => attempt[a] = GeneratedBefore(a)
      /\ generates \in Nat
  BY <1>1 DEF Init, Maybe, Exists
<1>3. /\ triage = "open" /\ checkout = {} /\ claims = 0 /\ edits = 0 /\ disturbed = {}
      /\ call = [p \in Process |-> None] /\ lease = [s \in Session |-> None]
  BY DEF Init, Process
<1>4. TypeOK
  BY <1>1, <1>2, <1>3 DEF TypeOK, Tree, Maybe, Process
<1>5. Foreseen
  BY <1>2 DEF Foreseen, GeneratedBefore
<1>6. LeasesFit /\ CallsFit
  BY <1>3 DEF LeasesFit, CallsFit
<1>7. ClosedIsQuiet
  BY <1>3 DEF ClosedIsQuiet
<1>8. AppliedIsExpected
  BY <1>2 DEF AppliedIsExpected, GeneratedBefore
<1> QED
  BY <1>4, <1>5, <1>6, <1>7, <1>8 DEF IInv

-----------------------------------------------------------------------------
(* How rows change. *)

\* Rows stay where they are and are legal, but a claim or a delivery may differ.
RowsKeep ==
    /\ attempt' \in [Attempt -> Maybe(Row)]
    /\ \A b \in Attempt :
        /\ Exists(b)' <=> Exists(b)
        /\ Exists(b) =>
            /\ LegalRow(attempt'[b])
            /\ attempt'[b].state = attempt[b].state /\ attempt'[b].base = attempt[b].base
            /\ attempt'[b].pending = attempt[b].pending
            /\ attempt'[b].expected = attempt[b].expected
            /\ attempt'[b].applied = attempt[b].applied

\* An update of a legal row by a legal one.
LEMMA WriteRow ==
  ASSUME TypeOK, NEW a \in Attempt, Exists(a), NEW r \in Row, LegalRow(r), Write(a, r)
  PROVE  /\ attempt' \in [Attempt -> Maybe(Row)]
         /\ attempt'[a] # None /\ LegalRow(attempt'[a])
         /\ attempt'[a].state = r.state /\ attempt'[a].base = r.base
         /\ attempt'[a].pending = r.pending
         /\ attempt'[a].expected = r.expected /\ attempt'[a].applied = r.applied
         /\ \A b \in Attempt \ {a} : attempt'[b] = attempt[b]
<1> DEFINE new == [r EXCEPT !.version = attempt[a].version + 1]
<1>1. attempt[a] \in Row
  BY DEF TypeOK, Maybe, Exists
<1>2. attempt[a].version + 1 \in Nat
  BY <1>1 DEF Row
<1>3. /\ new \in Row
      /\ new.state = r.state /\ new.pending = r.pending /\ new.base = r.base
      /\ new.expected = r.expected /\ new.applied = r.applied /\ new.session = r.session
      /\ new.token = r.token /\ new.delivered = r.delivered /\ new.fresh = r.fresh
  BY <1>2 DEF Row
<1>4. LegalRow(new)
  BY <1>3 DEF LegalRow
<1>5. attempt' = [attempt EXCEPT ![a] = new]
  BY DEF Write
<1> HIDE DEF new
<1>6. attempt'[a] = new /\ \A b \in Attempt \ {a} : attempt'[b] = attempt[b]
  BY <1>5 DEF TypeOK
<1>7. attempt' \in [Attempt -> Maybe(Row)]
  BY <1>3, <1>5 DEF TypeOK, Maybe
<1>8. new # None
  BY <1>3
<1> QED
  BY <1>3, <1>4, <1>6, <1>7, <1>8

\* An update that leaves what an attempt is.
LEMMA QuietWrite ==
  ASSUME TypeOK, NEW a \in Attempt, Exists(a), NEW r \in Row, LegalRow(r), Write(a, r),
         r.state = attempt[a].state, r.base = attempt[a].base, r.pending = attempt[a].pending,
         r.expected = attempt[a].expected, r.applied = attempt[a].applied
  PROVE  RowsKeep
<1>1. \A b \in Attempt : Exists(b) => LegalRow(attempt[b])
  BY DEF TypeOK
<1> QED
  BY <1>1, WriteRow DEF RowsKeep, Exists

LEMMA SameRows ==
  ASSUME TypeOK, attempt' = attempt
  PROVE  RowsKeep
  BY DEF RowsKeep, TypeOK, Exists

\* A row of an attempt.
LEMMA RowFields ==
  ASSUME TypeOK, NEW a \in Attempt, Exists(a)
  PROVE  attempt[a] \in Row /\ LegalRow(attempt[a])
  BY DEF TypeOK, Maybe, Exists

LEMMA LeaseFields ==
  ASSUME TypeOK, NEW s \in Session, lease[s] # None
  PROVE  lease[s] \in Lease /\ lease[s].id \in Attempt
  BY DEF TypeOK, Maybe, Lease

LEMMA CallFields ==
  ASSUME TypeOK, NEW p \in Process, call[p] # None
  PROVE  call[p] \in Call
  BY DEF TypeOK, Maybe, Process

\* A claim of a pending action.
LEMMA ClaimRow ==
  ASSUME TypeOK, NEW s \in Session, NEW a \in Attempt, Claim(s, a)
  PROVE  RowsKeep
<1> DEFINE next == attempt[a].version + 1
           r == [attempt[a] EXCEPT !.session = s, !.token = next, !.delivered = FALSE, !.fresh = TRUE]
<1>1. attempt[a] \in Row /\ LegalRow(attempt[a]) /\ Exists(a)
  BY RowFields DEF Claim
<1>2. next \in Nat
  BY <1>1 DEF Row
<1>3. Write(a, r)
  BY DEF Claim
<1> HIDE DEF next
<1>4. /\ r \in Row
      /\ r.state = attempt[a].state /\ r.pending = attempt[a].pending
      /\ r.base = attempt[a].base /\ r.expected = attempt[a].expected
      /\ r.applied = attempt[a].applied /\ r.session = s /\ r.token = next
  BY <1>1, <1>2 DEF Row, Maybe
<1>5. next # None /\ s # None
  BY <1>2
<1> HIDE DEF r
<1>6. LegalRow(r)
  BY <1>1, <1>4, <1>5 DEF LegalRow
<1> QED
  BY <1>1, <1>3, <1>4, <1>6, QuietWrite

\* The first delivery of a claim, or one more.
LEMMA DeliverRow ==
  ASSUME TypeOK, LeasesFit, NEW s \in Session, Deliver(s)
  PROVE  RowsKeep
<1> DEFINE a == lease[s].id
           r == [attempt[a] EXCEPT !.delivered = TRUE]
<1>1. a \in Attempt /\ Exists(a) /\ Claimant(s) /\ lease[s] \in Lease
  BY LeaseFields DEF Deliver, Claimant, LeasesFit
<1>2. attempt[a] \in Row /\ LegalRow(attempt[a])
  BY <1>1, RowFields
<1>3. attempt' = attempt \/ Write(a, r)
  BY DEF Deliver
<1>4. /\ r \in Row
      /\ r.state = attempt[a].state /\ r.pending = attempt[a].pending
      /\ r.base = attempt[a].base /\ r.expected = attempt[a].expected
      /\ r.applied = attempt[a].applied /\ r.session = attempt[a].session
      /\ r.token = attempt[a].token
  BY <1>2 DEF Row
<1>5. r.token # None
  <2>1. lease[s].token \in Nat
    BY <1>1 DEF Lease
  <2>2. attempt[a].token = lease[s].token
    BY <1>1 DEF Claimant
  <2> QED
    BY <1>4, <2>1, <2>2
<1> HIDE DEF a, r
<1>6. LegalRow(r)
  BY <1>2, <1>4, <1>5 DEF LegalRow
<1> QED
  BY <1>1, <1>3, <1>4, <1>6, QuietWrite, SameRows

\* A row nobody works on is legal.
LEMMA UnclaimedRow ==
  ASSUME NEW r \in Row, LegalRow(r)
  PROVE  /\ Unclaimed(r) \in Row /\ LegalRow(Unclaimed(r))
         /\ Unclaimed(r).state = r.state /\ Unclaimed(r).base = r.base
         /\ Unclaimed(r).pending = r.pending
         /\ Unclaimed(r).expected = r.expected /\ Unclaimed(r).applied = r.applied
<1> DEFINE u == Unclaimed(r)
<1>1. /\ u \in Row
      /\ u.state = r.state /\ u.pending = r.pending /\ u.base = r.base
      /\ u.expected = r.expected /\ u.applied = r.applied
      /\ u.session = None /\ u.token = None /\ u.delivered = FALSE /\ u.fresh = FALSE
  BY DEF Unclaimed, Row, Maybe
<1> HIDE DEF u
<1>2. LegalRow(u)
  BY <1>1 DEF LegalRow
<1> QED
  BY <1>1, <1>2 DEF u

LEMMA ReleaseRow ==
  ASSUME TypeOK, LeasesFit, NEW s \in Session, ReleaseClaim(s)
  PROVE  RowsKeep
<1> DEFINE a == lease[s].id
<1>1. a \in Attempt /\ Exists(a) /\ Write(a, Unclaimed(attempt[a]))
  BY LeaseFields DEF ReleaseClaim, Claimant, LeasesFit
<1>2. attempt[a] \in Row /\ LegalRow(attempt[a])
  BY <1>1, RowFields
<1> HIDE DEF a
<1> QED
  BY <1>1, <1>2, UnclaimedRow, QuietWrite

LEMMA ExpireRow ==
  ASSUME TypeOK, NEW a \in Attempt, Expire(a)
  PROVE  RowsKeep
<1> DEFINE r == [attempt[a] EXCEPT !.fresh = FALSE]
<1>1. attempt[a] \in Row /\ LegalRow(attempt[a]) /\ Exists(a)
  BY RowFields DEF Expire
<1>2. /\ r \in Row
      /\ r.state = attempt[a].state /\ r.pending = attempt[a].pending
      /\ r.base = attempt[a].base /\ r.expected = attempt[a].expected
      /\ r.applied = attempt[a].applied /\ r.session = attempt[a].session
      /\ r.token = attempt[a].token /\ r.delivered = attempt[a].delivered /\ r.fresh = FALSE
  BY <1>1 DEF Row
<1>3. attempt' = [attempt EXCEPT ![a] = r]
  BY DEF Expire
<1> HIDE DEF r
<1>4. LegalRow(r)
  BY <1>1, <1>2 DEF LegalRow
<1>5. attempt'[a] = r /\ \A b \in Attempt \ {a} : attempt'[b] = attempt[b]
  BY <1>3 DEF TypeOK
<1>6. attempt' \in [Attempt -> Maybe(Row)]
  BY <1>2, <1>3 DEF TypeOK, Maybe
<1>7. r # None /\ \A b \in Attempt : Exists(b) => LegalRow(attempt[b])
  BY <1>2 DEF TypeOK
<1> QED
  BY <1>1, <1>2, <1>4, <1>5, <1>6, <1>7 DEF RowsKeep, Exists

\* A request for an apply or a verify.
LEMMA RequestRow ==
  ASSUME TypeOK, Foreseen, CallsFit, NEW c \in Caller, RequestAction(c)
  PROVE  \E a \in Attempt :
         /\ Exists(a)
         /\ attempt' \in [Attempt -> Maybe(Row)]
         /\ attempt'[a] # None /\ LegalRow(attempt'[a])
         /\ attempt'[a].state = attempt[a].state /\ attempt'[a].base = attempt[a].base
         /\ attempt'[a].applied = attempt[a].applied
         /\ \/ /\ attempt'[a].expected = attempt[a].expected
               /\ attempt[a].state = "applied"
            \/ /\ attempt[a].state = "generated" /\ attempt[a].expected = None
               /\ attempt'[a].pending = "apply"
               /\ a \in attempt'[a].expected
               /\ <<a, "apply">> \notin disturbed' => attempt'[a].expected = Patched(a)
         /\ \A b \in Attempt \ {a} : attempt'[b] = attempt[b]
<1> DEFINE a == call[c].id
           action == call[c].kind
           expected == IF action = "apply" THEN call[c].tree ELSE attempt[a].expected
           r == [attempt[a] EXCEPT !.pending = action, !.expected = expected]
<1>1. /\ c \in Process /\ call[c] # None /\ call[c].reads = 0
      /\ action \in {"apply", "verify"}
  BY DEF RequestAction, Under, Checking, Process
<1>2. /\ a \in Attempt /\ Exists(a) /\ call[c] \in Call
      /\ action = "apply" =>
            /\ call[c].tree \in Tree /\ a \in call[c].tree
            /\ ~call[c].edited => call[c].tree = Patched(a)
  BY <1>1, CallFields DEF CallsFit, CallFits, ApplyFits
<1>3. attempt[a] \in Row /\ LegalRow(attempt[a])
  BY <1>2, RowFields
<1>4. MayRequest(a, action) /\ Write(a, r)
  BY DEF RequestAction
<1>5. expected \in Maybe(Tree)
  BY <1>2, <1>3 DEF Row, Call
<1>6. action = "apply" =>
        /\ a \in expected
        /\ <<a, "apply">> \notin disturbed' => expected = Patched(a)
  <2>1. call[c].edited \in BOOLEAN
    BY <1>2 DEF Call
  <2>2. action = "apply" /\ call[c].edited => <<a, "apply">> \in disturbed'
    BY DEF RequestAction, Records
  <2> QED
    BY <1>2, <2>1, <2>2
<1>7. action # "apply" => expected = attempt[a].expected
  OBVIOUS
<1>8. action \in Maybe(Action)
  BY <1>1 DEF Maybe, Action
<1> HIDE DEF expected
<1>9. /\ r \in Row
      /\ r.state = attempt[a].state /\ r.pending = action
      /\ r.base = attempt[a].base /\ r.expected = expected
      /\ r.applied = attempt[a].applied /\ r.session = attempt[a].session
      /\ r.token = attempt[a].token /\ r.delivered = attempt[a].delivered
      /\ r.fresh = attempt[a].fresh
  BY <1>3, <1>5, <1>8 DEF Row
<1>10. attempt[a].state = RequiredState(action) /\ attempt[a].pending = None
  BY <1>4 DEF MayRequest
<1> HIDE DEF r
<1>11. LegalRow(r)
  BY <1>1, <1>3, <1>9, <1>10 DEF LegalRow, RequiredState
<1>12. /\ attempt' \in [Attempt -> Maybe(Row)]
       /\ attempt'[a] # None /\ LegalRow(attempt'[a])
       /\ attempt'[a].state = r.state /\ attempt'[a].base = r.base
       /\ attempt'[a].pending = r.pending
       /\ attempt'[a].expected = r.expected /\ attempt'[a].applied = r.applied
       /\ \A b \in Attempt \ {a} : attempt'[b] = attempt[b]
  BY <1>2, <1>4, <1>9, <1>11, WriteRow
<1>13. /\ action = "apply" => attempt[a].state = "generated" /\ attempt[a].expected = None
       /\ action = "verify" => attempt[a].state = "applied"
  BY <1>2, <1>10 DEF RequiredState, Foreseen
<1> HIDE DEF a, action
<1> QED
  BY <1>1, <1>2, <1>6, <1>7, <1>9, <1>12, <1>13

\* A result is that of a live attempt, which is claimed by its chat.
LEMMA ReportRow ==
  ASSUME TypeOK, CallsFit, NEW s \in Session, ReportResult(s)
  PROVE  \E a \in Attempt :
         /\ Live(a) /\ attempt[a].session = s /\ attempt[a].fresh
         /\ attempt' \in [Attempt -> Maybe(Row)]
         /\ attempt'[a] # None /\ LegalRow(attempt'[a])
         /\ attempt'[a].state = call[s].kind /\ attempt'[a].base = attempt[a].base
         /\ attempt'[a].expected = attempt[a].expected
         /\ attempt'[a].state \in Results
         /\ attempt'[a].state = "generated" => attempt[a].state = "requested"
         /\ attempt'[a].state = "applied" =>
                /\ attempt[a].expected # None
                /\ <<a, "applied">> \notin disturbed' => attempt'[a].applied = attempt[a].expected
         /\ \A b \in Attempt \ {a} : attempt'[b] = attempt[b]
<1> DEFINE c == call[s]
           a == c.id
           tree == IF c.tree = None THEN attempt[a].applied ELSE c.tree
           r == [attempt[a] EXCEPT !.state = c.kind, !.pending = None, !.applied = tree]
<1>1. s \in Process /\ c # None /\ c.reads = 0 /\ Claimant(s) /\ AnswersAction(s)
  BY DEF ReportResult, Process
<1>2. c \in Call /\ c.kind \in Result(attempt[a].pending)
  BY <1>1, CallFields DEF AnswersAction
<1>3. c.kind \in Results /\ attempt[a].pending \in Action
  BY <1>2 DEF Result, Results, Action
<1>4. CallFits(s)
  BY <1>1 DEF CallsFit
<1>5. /\ a \in Attempt /\ Exists(a) /\ a = lease[s].id
      /\ c.kind = "applied" =>
            /\ c.tree \in Tree /\ attempt[a].expected # None
            /\ ~c.edited => attempt[a].expected = c.tree
  BY <1>1, <1>3, <1>4 DEF CallFits, AppliedFits
<1>6. attempt[a] \in Row /\ LegalRow(attempt[a])
  BY <1>5, RowFields
<1>7. attempt[a].session = s /\ attempt[a].fresh
  BY <1>1, <1>5 DEF Claimant
<1>8. Live(a)
  BY <1>3, <1>5, <1>6 DEF LegalRow, Live, LiveStates, Action
<1>9. tree \in Maybe(Tree)
  BY <1>2, <1>6 DEF Row, Call
<1>10. c.kind = "applied" => (<<a, "applied">> \notin disturbed' => attempt[a].expected = tree)
  <2>1. c.edited \in BOOLEAN
    BY <1>2 DEF Call
  <2>2. c.kind = "applied" /\ c.edited => <<a, "applied">> \in disturbed'
    BY DEF ReportResult, Records
  <2>3. c.kind = "applied" => tree = c.tree
    BY <1>5
  <2> QED
    BY <1>5, <2>1, <2>2, <2>3
<1>20. c.kind = "generated" => attempt[a].state = "requested"
  BY <1>2, <1>6 DEF Result, LegalRow
<1>11. Write(a, Unclaimed(r))
  BY DEF ReportResult
<1>12. c.kind \in State /\ None \in Maybe(Action)
  BY <1>3 DEF Results, State, Maybe
<1> HIDE DEF tree
<1>13. /\ r \in Row
       /\ r.state = c.kind /\ r.pending = None
       /\ r.base = attempt[a].base /\ r.expected = attempt[a].expected
       /\ r.applied = tree /\ r.session = attempt[a].session
       /\ r.token = attempt[a].token /\ r.delivered = attempt[a].delivered
       /\ r.fresh = attempt[a].fresh
  BY <1>6, <1>9, <1>12 DEF Row
<1> HIDE DEF r
<1>14. LegalRow(r)
  <2>1. None \notin Action
    OBVIOUS
  <2> QED
    BY <1>3, <1>6, <1>13, <2>1 DEF LegalRow, Results, Action
<1>15. /\ Unclaimed(r) \in Row /\ LegalRow(Unclaimed(r))
       /\ Unclaimed(r).state = c.kind /\ Unclaimed(r).base = attempt[a].base
       /\ Unclaimed(r).expected = attempt[a].expected /\ Unclaimed(r).applied = tree
  BY <1>13, <1>14, UnclaimedRow
<1>16. /\ attempt' \in [Attempt -> Maybe(Row)]
       /\ attempt'[a] # None /\ LegalRow(attempt'[a])
       /\ attempt'[a].state = c.kind /\ attempt'[a].base = attempt[a].base
       /\ attempt'[a].expected = attempt[a].expected /\ attempt'[a].applied = tree
       /\ \A b \in Attempt \ {a} : attempt'[b] = attempt[b]
  BY <1>5, <1>11, <1>15, WriteRow
<1> HIDE DEF c, a
<1> QED
  BY <1>3, <1>5, <1>7, <1>8, <1>10, <1>16, <1>20 DEF c

\* A new attempt, and the one it supersedes.
LEMMA GenerateRows ==
  ASSUME TypeOK, CallsFit, NEW c \in Caller, Generate(c)
  PROVE  /\ triage = "open"
         /\ attempt' \in [Attempt -> Maybe(Row)]
         /\ \A b \in Attempt : ~Exists(b) /\ Exists(b)' =>
                LegalRow(attempt'[b]) /\ attempt'[b].state = "requested" /\ attempt'[b].expected = None
         /\ \A b \in Attempt : Exists(b) =>
                /\ attempt'[b] # None /\ LegalRow(attempt'[b])
                /\ attempt'[b].base = attempt[b].base
                /\ attempt'[b].expected = attempt[b].expected
                /\ attempt'[b].applied = attempt[b].applied
                /\ \/ /\ attempt'[b].state = attempt[b].state
                      /\ attempt'[b].pending = attempt[b].pending
                   \/ Live(b) /\ attempt'[b].state = "superseded"
<1> DEFINE first == [state |-> "requested", version |-> 1, created |-> call[c].at,
                     pending |-> "generate", base |-> call[c].tree,
                     expected |-> None, applied |-> None,
                     session |-> None, token |-> None, delivered |-> FALSE, fresh |-> FALSE]
           last(b) == [Superseded(attempt[b]) EXCEPT !.version = attempt[b].version + 1]
<1>1. c \in Process /\ call[c] # None /\ call[c].kind = "generate" /\ triage = "open"
  BY DEF Generate, Under, Checking, MayGenerate, Process
<1>2. call[c] \in Call /\ call[c].tree \in Tree
  BY <1>1, CallFields DEF CallsFit, CallFits
<1>3. first \in Row
  BY <1>2 DEF Row, Call, Maybe, State, Action
<1>4. LegalRow(first)
  BY DEF LegalRow
<1>5. ASSUME NEW b \in Attempt, Exists(b)
      PROVE  /\ last(b) \in Row /\ LegalRow(last(b)) /\ last(b).state = "superseded"
             /\ last(b).base = attempt[b].base /\ last(b).expected = attempt[b].expected
             /\ last(b).applied = attempt[b].applied
  <2>1. attempt[b] \in Row /\ LegalRow(attempt[b])
    BY <1>5, RowFields
  <2>2. attempt[b].version + 1 \in Nat
    BY <2>1 DEF Row
  <2>3. /\ last(b) \in Row /\ last(b).state = "superseded" /\ last(b).pending = None
        /\ last(b).base = attempt[b].base /\ last(b).expected = attempt[b].expected
        /\ last(b).applied = attempt[b].applied /\ last(b).session = attempt[b].session
        /\ last(b).token = attempt[b].token /\ last(b).delivered = attempt[b].delivered
        /\ last(b).fresh = attempt[b].fresh
    BY <2>1, <2>2 DEF Superseded, Row, Maybe, State
  <2> HIDE DEF last
  <2>4. LegalRow(last(b))
    BY <2>1, <2>3 DEF LegalRow, Action
  <2> QED
    BY <2>3, <2>4
<1>6. first.state = "requested" /\ first.expected = None
  OBVIOUS
<1> PICK new \in {b \in Attempt : ~Exists(b)} :
        attempt' = [b \in Attempt |->
            CASE b = new -> first
              [] Newest(b) /\ attempt[b].state \in {"generated", "applied"} -> last(b)
              [] OTHER -> attempt[b]]
  BY DEF Generate
<1> HIDE DEF first, last
<1>7. attempt'[new] = first
  <2>1. ~Newest(new)
    BY DEF Newest
  <2> QED
    BY <2>1
<1>8. ASSUME NEW b \in Attempt \ {new}
      PROVE  \/ attempt'[b] = attempt[b]
             \/ /\ Exists(b) /\ attempt[b].state \in {"generated", "applied"}
                /\ attempt'[b] = last(b)
  <2>1. CASE Newest(b) /\ attempt[b].state \in {"generated", "applied"}
    BY <2>1 DEF Newest
  <2>2. CASE ~(Newest(b) /\ attempt[b].state \in {"generated", "applied"})
    BY <2>2
  <2> QED
    BY <2>1, <2>2
<1>9. \A b \in Attempt : attempt'[b] \in Maybe(Row)
  BY <1>3, <1>5, <1>7, <1>8 DEF Maybe, TypeOK
<1>10. attempt' \in [Attempt -> Maybe(Row)]
  BY <1>9
<1>11. ASSUME NEW b \in Attempt, Exists(b)
       PROVE  /\ attempt'[b] # None /\ LegalRow(attempt'[b])
              /\ attempt'[b].base = attempt[b].base
              /\ attempt'[b].expected = attempt[b].expected
              /\ attempt'[b].applied = attempt[b].applied
              /\ \/ /\ attempt'[b].state = attempt[b].state
                    /\ attempt'[b].pending = attempt[b].pending
                 \/ Live(b) /\ attempt'[b].state = "superseded"
  <2>1. b # new
    BY <1>11
  <2>2. CASE attempt'[b] = attempt[b]
    BY <1>11, <2>2, RowFields DEF Exists
  <2>3. CASE attempt[b].state \in {"generated", "applied"} /\ attempt'[b] = last(b)
    <3>1. last(b) # None
      BY <1>5, <1>11
    <3> QED
      BY <1>5, <1>11, <2>3, <3>1 DEF Live, LiveStates
  <2> QED
    BY <1>8, <2>1, <2>2, <2>3
<1>12. ASSUME NEW b \in Attempt, ~Exists(b), Exists(b)'
       PROVE  LegalRow(attempt'[b]) /\ attempt'[b].state = "requested" /\ attempt'[b].expected = None
  <2>1. b = new
    BY <1>8, <1>12 DEF Exists
  <2> QED
    BY <1>4, <1>6, <1>7, <2>1
<1> QED
  BY <1>1, <1>10, <1>11, <1>12

-----------------------------------------------------------------------------
(* How calls and leases change. *)

LEMMA BeginsCall ==
  ASSUME TypeOK, NEW p \in Process, NEW c \in Call, Begins(p, c)
  PROVE  /\ call[p] = None /\ call'[p] = c /\ call'[p] # None
         /\ \A q \in Process \ {p} : call'[q] = call[q]
         /\ call' \in [Process -> Maybe(Call)]
  BY DEF Begins, TypeOK, Process, Maybe

LEMMA EndsCall ==
  ASSUME TypeOK, NEW p \in Process, Ends(p)
  PROVE  /\ call'[p] = None
         /\ \A q \in Process \ {p} : call'[q] = call[q]
         /\ call' \in [Process -> Maybe(Call)]
  BY DEF Ends, TypeOK, Process, Maybe

LEMMA RepliesLease ==
  ASSUME TypeOK, NEW s \in Session, NEW a \in Attempt, NEW token \in Nat, NEW version \in Nat,
         Replies(s, a, token, version)
  PROVE  /\ lease' \in [Session -> Maybe(Lease)]
         /\ lease'[s] = lease[s] \/ (lease'[s] # None /\ lease'[s].id = a)
         /\ \A q \in Session \ {s} : lease'[q] = lease[q]
<1> DEFINE new == [id |-> a, token |-> token, version |-> version]
<1>1. new \in Lease /\ new.id = a
  BY DEF Lease
<1>2. lease' = [lease EXCEPT ![s] = new] \/ lease' = lease
  BY DEF Replies
<1> HIDE DEF new
<1>3. new # None
  BY <1>1
<1> QED
  BY <1>1, <1>2, <1>3 DEF TypeOK, Maybe

\* A chat is told of an attempt only while it has no result on its way.
LEMMA LeaseStep ==
  ASSUME TypeOK, LeasesFit, [Next]_vars
  PROVE  /\ lease' \in [Session -> Maybe(Lease)]
         /\ \A s \in Session :
                \/ lease'[s] = lease[s]
                \/ /\ call[s] = None /\ call' = call
                   /\ lease'[s] # None /\ lease'[s].id \in Attempt /\ Exists(lease'[s].id)
<1>1. ASSUME NEW s \in Session, NEW a \in Attempt, NEW token \in Nat, NEW version \in Nat,
             Exists(a), call[s] = None, call' = call, Replies(s, a, token, version)
      PROVE  /\ lease' \in [Session -> Maybe(Lease)]
             /\ \A q \in Session :
                \/ lease'[q] = lease[q]
                \/ /\ call[q] = None /\ call' = call
                   /\ lease'[q] # None /\ lease'[q].id \in Attempt /\ Exists(lease'[q].id)
  BY <1>1, RepliesLease
<1>2. ASSUME NEW s \in Session, NEW a \in Attempt, Claim(s, a)
      PROVE  \E token, version \in Nat : Replies(s, a, token, version) /\ Exists(a)
                                         /\ call[s] = None /\ call' = call
  <2>1. Exists(a) /\ attempt[a].version + 1 \in Nat
    BY <1>2, RowFields DEF Claim, Row
  <2> QED
    BY <1>2, <2>1 DEF Claim
<1>3. ASSUME NEW s \in Session, NEW a \in Attempt, ClaimAgain(s, a)
      PROVE  \E token, version \in Nat : Replies(s, a, token, version) /\ Exists(a)
                                         /\ call[s] = None /\ call' = call
  <2>1. Exists(a) /\ attempt[a] \in Row /\ attempt[a].token # None
    BY <1>3, RowFields DEF ClaimAgain
  <2>2. attempt[a].version \in Nat /\ attempt[a].token \in Nat
    BY <2>1 DEF Row, Maybe
  <2> QED
    BY <1>3, <2>1, <2>2 DEF ClaimAgain
<1>4. ASSUME NEW s \in Session, Deliver(s)
      PROVE  \E a \in Attempt : \E token, version \in Nat :
                Replies(s, a, token, version) /\ Exists(a) /\ call[s] = None /\ call' = call
  <2> DEFINE a == lease[s].id
  <2>1. a \in Attempt /\ Exists(a) /\ lease[s] \in Lease /\ attempt[a].token = lease[s].token
    BY <1>4, LeaseFields DEF Deliver, Claimant, LeasesFit
  <2>2. attempt[a].version \in Nat /\ attempt[a].version + 1 \in Nat /\ attempt[a].token \in Nat
    BY <2>1, RowFields DEF Row, Lease
  <2>3. \/ Replies(s, a, attempt[a].token, attempt[a].version)
        \/ Replies(s, a, attempt[a].token, attempt[a].version + 1)
    BY <1>4 DEF Deliver
  <2>4. call[s] = None /\ call' = call
    BY <1>4 DEF Deliver
  <2> HIDE DEF a
  <2> QED
    BY <2>1, <2>2, <2>3, <2>4
<1>5. CASE lease' = lease
  BY <1>5 DEF TypeOK
<1>6. CASE \E s \in Session, a \in Attempt : Claim(s, a) \/ ClaimAgain(s, a)
  BY <1>1, <1>2, <1>3, <1>6
<1>7. CASE \E s \in Session : Deliver(s)
  BY <1>1, <1>4, <1>7
<1>8. \/ lease' = lease
      \/ \E s \in Session, a \in Attempt : Claim(s, a) \/ ClaimAgain(s, a)
      \/ \E s \in Session : Deliver(s)
  BY DEF Next, CallerStep, SessionStep, vars, CheckGenerate, CheckApply, CheckVerify, CheckClose,
         Generate, RequestAction, Close, Reopen, TryPatch, ForeseeTree, CompareTree, GiveUp,
         ReleaseClaim, CheckResult, ReportResult, Expire, EditCheckout
<1> QED
  BY <1>5, <1>6, <1>7, <1>8

\* A call that begins fits what is there, and nothing else changes.
LEMMA CheckFits ==
  ASSUME TypeOK, LeasesFit, NEW p \in Process,
         \/ CheckGenerate(p) \/ \E a \in Attempt : CheckApply(p, a) \/ CheckVerify(p, a)
         \/ \E reason \in {"already_fixed", "wont_fix", "false_positive"} : CheckClose(p, reason)
         \/ p \in Session /\ \E result \in Results : CheckResult(p, result)
  PROVE  /\ \A q \in Process \ {p} : call'[q] = call[q]
         /\ call' \in [Process -> Maybe(Call)]
         /\ CallFits(p)' /\ checkout' = checkout
<1>1. UNCHANGED <<attempt, lease, checkout>>
  BY DEF CheckGenerate, CheckApply, CheckVerify, CheckClose, CheckResult
<1>2. checkout \in Tree /\ generates + 1 \in Nat
  BY DEF TypeOK
<1>4. ASSUME NEW c \in Call, Begins(p, c)
      PROVE  /\ call'[p] = c /\ \A q \in Process \ {p} : call'[q] = call[q]
             /\ call' \in [Process -> Maybe(Call)]
  BY <1>4, BeginsCall
<1>5. /\ {"generate", "apply", "verify", "close"} \cup Results \subseteq Action \cup State \cup {"close"}
      /\ None \in Maybe(Attempt) /\ None \in Maybe(Tree) /\ checkout \in Maybe(Tree)
      /\ \A a \in Attempt : a \in Maybe(Attempt)
  BY <1>2 DEF Action, State, Results, Maybe
<1>6. ASSUME CheckGenerate(p)
      PROVE  /\ \A q \in Process \ {p} : call'[q] = call[q]
             /\ call' \in [Process -> Maybe(Call)] /\ CallFits(p)'
  <2> DEFINE n == NewCall("generate", None, checkout, 0)
             c == [n EXCEPT !.at = generates + 1]
  <2>1. /\ n \in Call /\ n.kind = "generate" /\ n.tree = checkout /\ n.reads = 0
        /\ ~n.edited
    BY <1>5 DEF NewCall, Call, Action, State
  <2>2. Begins(p, c)
    BY <1>6 DEF CheckGenerate
  <2> HIDE DEF n
  <2>3. /\ c \in Call /\ c.kind = "generate" /\ c.tree = checkout /\ c.reads = 0
        /\ ~c.edited
    BY <1>2, <2>1 DEF Call
  <2> HIDE DEF c
  <2> QED
    BY <1>1, <1>2, <1>4, <2>2, <2>3 DEF CallFits, Results
<1>7. ASSUME NEW a \in Attempt, CheckApply(p, a)
      PROVE  /\ \A q \in Process \ {p} : call'[q] = call[q]
             /\ call' \in [Process -> Maybe(Call)] /\ CallFits(p)'
  <2> DEFINE c == NewCall("apply", a, None, 2)
  <2>1. c \in Call /\ c.kind = "apply" /\ c.id = a /\ c.reads = 2 /\ ~c.edited
    BY <1>5 DEF NewCall, Call, Action, State
  <2>2. Begins(p, c) /\ checkout = attempt[a].base /\ Exists(a)
    BY <1>7 DEF CheckApply
  <2> HIDE DEF c
  <2> QED
    BY <1>1, <1>4, <2>1, <2>2 DEF CallFits, ApplyFits, Results, Exists
<1>8. ASSUME NEW a \in Attempt, CheckVerify(p, a)
      PROVE  /\ \A q \in Process \ {p} : call'[q] = call[q]
             /\ call' \in [Process -> Maybe(Call)] /\ CallFits(p)'
  <2> DEFINE c == NewCall("verify", a, None, 0)
  <2>1. c \in Call /\ c.kind = "verify" /\ c.id = a /\ c.reads = 0 /\ ~c.edited
    BY <1>5 DEF NewCall, Call, Action, State
  <2>2. Begins(p, c) /\ Exists(a)
    BY <1>8 DEF CheckVerify
  <2> HIDE DEF c
  <2> QED
    BY <1>1, <1>4, <2>1, <2>2 DEF CallFits, Results, Exists
<1>9. ASSUME NEW reason, CheckClose(p, reason)
      PROVE  /\ \A q \in Process \ {p} : call'[q] = call[q]
             /\ call' \in [Process -> Maybe(Call)] /\ CallFits(p)'
  <2> DEFINE c == NewCall("close", None, None, 0)
  <2>1. c \in Call /\ c.kind = "close" /\ c.reads = 0 /\ ~c.edited
    BY <1>5 DEF NewCall, Call, Action, State
  <2>2. Begins(p, c)
    BY <1>9 DEF CheckClose
  <2> HIDE DEF c
  <2> QED
    BY <1>4, <2>1, <2>2 DEF CallFits, Results
<1>10. ASSUME p \in Session, NEW result \in Results, CheckResult(p, result)
       PROVE  /\ \A q \in Process \ {p} : call'[q] = call[q]
              /\ call' \in [Process -> Maybe(Call)] /\ CallFits(p)'
  <2> DEFINE a == lease[p].id
             n == IF result = "applied" THEN 2 ELSE 0
  <2>1. lease[p] # None /\ a \in Attempt /\ Exists(a)
    BY <1>10, LeaseFields DEF CheckResult, LeasesFit
  <2>2. attempt[a] \in Row
    BY <2>1, RowFields
  <2> PICK tree \in Reported(p, result) : Begins(p, NewCall(result, a, tree, n))
    BY <1>10 DEF CheckResult
  <2> DEFINE c == NewCall(result, a, tree, n)
  <2>3. tree \in Maybe(Tree)
    BY <1>2, <2>2 DEF Reported, Maybe, Row
  <2>4. result = "applied" => tree = checkout /\ attempt[a].expected # None
    BY <1>10 DEF CheckResult, Reported
  <2>5. n \in 0..2 /\ (n # 0 => result = "applied")
    OBVIOUS
  <2> HIDE DEF n
  <2>6. /\ c \in Call /\ c.kind = result /\ c.id = a /\ c.tree = tree
        /\ c.reads = n /\ ~c.edited
    BY <1>5, <2>1, <2>3, <2>5 DEF NewCall, Call
  <2>7. Begins(p, c)
    OBVIOUS
  <2> HIDE DEF c
  <2>8. /\ call'[p] = c /\ \A q \in Process \ {p} : call'[q] = call[q]
        /\ call' \in [Process -> Maybe(Call)]
    BY <1>4, <2>6, <2>7
  <2>9. result = "applied" =>
          /\ c.tree \in Tree /\ attempt'[c.id].expected # None
          /\ checkout' = c.tree /\ c.reads # 0
    <3>1. n # 0 \/ result # "applied"
      BY DEF n
    <3> QED
      BY <1>1, <1>2, <2>4, <2>6, <3>1
  <2>10. CallFits(p)'
    <3>1. lease'[p] = lease[p] /\ attempt' = attempt
      BY <1>1
    <3>2. result \notin {"generate", "apply", "verify"}
      BY DEF Results
    <3> QED
      BY <1>10, <2>1, <2>5, <2>6, <2>8, <2>9, <3>1, <3>2 DEF CallFits, AppliedFits, Exists
  <2> QED
    BY <2>8, <2>10
<1> QED
  BY <1>1, <1>6, <1>7, <1>8, <1>9, <1>10

\* A call whose last read gave a tree.
LEMMA TreeIsRead ==
  ASSUME NEW c \in Call, NEW tree \in Maybe(Tree)
  PROVE  LET d == [c EXCEPT !.reads = 0, !.tree = tree]
         IN  /\ d \in Call /\ d.kind = c.kind /\ d.id = c.id /\ d.edited = c.edited
             /\ d.reads = 0 /\ d.tree = tree
<1> DEFINE e == [c EXCEPT !.reads = 0]
           d == [e EXCEPT !.tree = tree]
<1>1. /\ e \in Call /\ e.kind = c.kind /\ e.id = c.id /\ e.edited = c.edited
      /\ e.reads = 0
  BY DEF Call
<1> HIDE DEF e
<1>2. /\ d \in Call /\ d.kind = e.kind /\ d.id = e.id /\ d.edited = e.edited
      /\ d.reads = e.reads /\ d.tree = tree
  BY <1>1 DEF Call
<1>3. [c EXCEPT !.reads = 0, !.tree = tree] = d
  BY Zenon DEF e
<1> HIDE DEF d
<1> QED
  BY <1>1, <1>2, <1>3

\* The further reads of a check.
LEMMA ReadFits ==
  ASSUME TypeOK, CallsFit, NEW p \in Process,
         TryPatch(p) \/ ForeseeTree(p) \/ CompareTree(p)
  PROVE  /\ \A q \in Process \ {p} : call'[q] = call[q]
         /\ call' \in [Process -> Maybe(Call)]
         /\ CallFits(p)' /\ checkout' = checkout
<1> DEFINE c == call[p]
<1>1. UNCHANGED <<attempt, lease, checkout>> /\ checkout \in Tree /\ c # None
  BY DEF TryPatch, ForeseeTree, CompareTree, TypeOK, Checking
<1>2. c \in Call /\ CallFits(p)
  BY <1>1, CallFields DEF CallsFit
<1>3. ASSUME NEW d \in Call, call' = [call EXCEPT ![p] = d]
      PROVE  /\ \A q \in Process \ {p} : call'[q] = call[q]
             /\ call' \in [Process -> Maybe(Call)] /\ call'[p] = d
  BY <1>3 DEF TypeOK, Process, Maybe
<1>4. CASE TryPatch(p)
  <2> DEFINE d == [c EXCEPT !.reads = 1]
  <2>1. call' = [call EXCEPT ![p] = d]
    BY <1>4 DEF TryPatch
  <2>2. c.kind \in {"apply", "applied"} /\ c.reads = 2
    BY <1>4 DEF TryPatch, Checking
  <2>3. /\ d \in Call /\ d.kind = c.kind /\ d.id = c.id /\ d.edited = c.edited
        /\ d.reads = 1 /\ d.tree = c.tree
    BY <1>2 DEF Call
  <2> HIDE DEF d
  <2>4. /\ call'[p] = d /\ \A q \in Process \ {p} : call'[q] = call[q]
        /\ call' \in [Process -> Maybe(Call)]
    BY <1>3, <2>1, <2>3
  <2>5. CASE c.kind = "apply"
    BY <1>1, <1>2, <2>2, <2>3, <2>4, <2>5 DEF CallFits, ApplyFits, Exists, Results
  <2>6. CASE c.kind = "applied"
    BY <1>1, <1>2, <2>2, <2>3, <2>4, <2>6 DEF CallFits, AppliedFits, Exists, Results
  <2> QED
    BY <2>2, <2>5, <2>6
<1>5. CASE ForeseeTree(p)
  <2> DEFINE tree == checkout \cup {c.id}
             d == [c EXCEPT !.reads = 0, !.tree = tree]
  <2>1. call' = [call EXCEPT ![p] = d]
    BY <1>5 DEF ForeseeTree
  <2>2. c.kind = "apply" /\ c.reads = 1
    BY <1>5 DEF ForeseeTree, Checking
  <2>3. c.id \in Attempt
    BY <1>2, <2>2 DEF CallFits
  <2>4. tree \in Tree /\ tree \in Maybe(Tree) /\ c.id \in tree
    BY <1>1, <2>3 DEF Tree, Maybe
  <2>5. ~c.edited => tree = Patched(c.id)
    BY <1>2, <2>2 DEF CallFits, ApplyFits, Patched
  <2> HIDE DEF tree
  <2>6. /\ d \in Call /\ d.kind = c.kind /\ d.id = c.id /\ d.edited = c.edited
        /\ d.reads = 0 /\ d.tree = tree
    BY <1>2, <2>4, TreeIsRead
  <2> HIDE DEF d
  <2>7. /\ call'[p] = d /\ \A q \in Process \ {p} : call'[q] = call[q]
        /\ call' \in [Process -> Maybe(Call)]
    BY <1>3, <2>1, <2>6
  <2> QED
    BY <1>1, <1>2, <2>2, <2>3, <2>4, <2>5, <2>6, <2>7
       DEF CallFits, ApplyFits, Exists, Results, Patched
<1>6. CASE CompareTree(p)
  <2> DEFINE d == [c EXCEPT !.reads = 0]
  <2>1. call' = [call EXCEPT ![p] = d]
    BY <1>6 DEF CompareTree
  <2>2. c.kind = "applied" /\ c.reads = 1 /\ checkout = attempt[c.id].expected
    BY <1>6 DEF CompareTree, Checking
  <2>3. /\ d \in Call /\ d.kind = c.kind /\ d.id = c.id /\ d.edited = c.edited
        /\ d.reads = 0 /\ d.tree = c.tree
    BY <1>2 DEF Call
  <2> HIDE DEF d
  <2>4. /\ call'[p] = d /\ \A q \in Process \ {p} : call'[q] = call[q]
        /\ call' \in [Process -> Maybe(Call)]
    BY <1>3, <2>1, <2>3
  <2> QED
    BY <1>1, <1>2, <2>2, <2>3, <2>4 DEF CallFits, AppliedFits, Exists, Results
<1> QED
  BY <1>1, <1>4, <1>5, <1>6

\* A check during which the checkout is edited.
LEMMA EditFits ==
  ASSUME TypeOK, CallsFit, EditCheckout
  PROVE  /\ call' \in [Process -> Maybe(Call)]
         /\ \A p \in Process :
                \/ call'[p] = call[p] /\ (call[p] = None \/ call[p].reads = 0)
                \/ CallFits(p)'
<1>1. UNCHANGED <<attempt, lease>>
  BY DEF EditCheckout
<1>2. call' = [p \in Process |-> IF call[p] # None /\ call[p].reads # 0
                               THEN [call[p] EXCEPT !.edited = TRUE] ELSE call[p]]
  BY DEF EditCheckout, Process
<1>3. ASSUME NEW p \in Process, call[p] # None, call[p].reads # 0
      PROVE  call'[p] \in Call /\ CallFits(p)'
  <2> DEFINE c == call[p]
             d == [c EXCEPT !.edited = TRUE]
  <2>1. c \in Call /\ CallFits(p)
    BY <1>3, CallFields DEF CallsFit
  <2>2. /\ d \in Call /\ d.kind = c.kind /\ d.id = c.id /\ d.edited = TRUE
        /\ d.reads = c.reads /\ d.tree = c.tree
    BY <2>1 DEF Call
  <2> HIDE DEF d
  <2>3. call'[p] = d
    BY <1>2, <1>3 DEF d
  <2>4. d.kind \in {"apply", "applied"} /\ d.reads # 0
    BY <1>3, <2>1, <2>2 DEF CallFits
  <2> QED
    BY <1>1, <2>1, <2>2, <2>3, <2>4 DEF CallFits, ApplyFits, AppliedFits, Exists, Results
<1>4. \A p \in Process : call[p] \in Maybe(Call)
  BY DEF TypeOK, Process
<1>5. \A p \in Process : call'[p] \in Maybe(Call)
  BY <1>2, <1>3, <1>4 DEF Maybe
<1> QED
  BY <1>2, <1>3, <1>5

-----------------------------------------------------------------------------
(* Every step. *)

\* The steps that move an attempt or close the finding.
Moves(p) ==
    \/ p \in Caller /\ (Generate(p) \/ RequestAction(p) \/ Close(p))
    \/ p \in Session /\ ReportResult(p)

LEMMA QuietSteps ==
  ASSUME TypeOK, LeasesFit, [Next]_vars, \A p \in Process : ~Moves(p)
  PROVE  RowsKeep /\ triage' \in {triage, "open"} /\ disturbed' = disturbed
<1>0. disturbed' = disturbed
  BY DEF Moves, Process, Next, CallerStep, SessionStep, vars, CheckGenerate, CheckApply, CheckVerify,
         CheckClose, Reopen, TryPatch, ForeseeTree, CompareTree, GiveUp, Claim, ClaimAgain, Deliver,
         ReleaseClaim, CheckResult, Expire, EditCheckout
<1>1. CASE \E s \in Session, a \in Attempt : Claim(s, a)
  BY <1>0, <1>1, ClaimRow DEF Claim
<1>2. CASE \E s \in Session : Deliver(s)
  BY <1>0, <1>2, DeliverRow DEF Deliver
<1>3. CASE \E s \in Session : ReleaseClaim(s)
  BY <1>0, <1>3, ReleaseRow DEF ReleaseClaim
<1>4. CASE \E a \in Attempt : Expire(a)
  BY <1>0, <1>4, ExpireRow DEF Expire
<1>5. CASE attempt' = attempt /\ triage' \in {triage, "open"}
  BY <1>0, <1>5, SameRows
<1>6. \/ \E s \in Session, a \in Attempt : Claim(s, a)
      \/ \E s \in Session : Deliver(s)
      \/ \E s \in Session : ReleaseClaim(s)
      \/ \E a \in Attempt : Expire(a)
      \/ attempt' = attempt /\ triage' \in {triage, "open"}
  BY DEF Moves, Process, Next, CallerStep, SessionStep, vars, CheckGenerate, CheckApply, CheckVerify,
         CheckClose, Reopen, TryPatch, ForeseeTree, CompareTree, GiveUp, ClaimAgain, CheckResult,
         EditCheckout
<1> QED
  BY <1>1, <1>2, <1>3, <1>4, <1>5, <1>6

\* The record of what was edited during a check only grows.
LEMMA DisturbedStep ==
  ASSUME TypeOK, CallsFit, [Next]_vars
  PROVE  disturbed \subseteq disturbed' /\ disturbed' \subseteq Attempt \X {"apply", "applied"}
<1>1. ASSUME NEW p \in Process, call[p] # None, Records(p), AnswersAction(p) \/ Under(p, call[p].kind)
      PROVE  disturbed \subseteq disturbed' /\ disturbed' \subseteq Attempt \X {"apply", "applied"}
  <2>1. call[p] \in Call /\ CallFits(p)
    BY <1>1, CallFields DEF CallsFit
  <2>2. call[p].edited => call[p].kind \in {"apply", "applied"} /\ call[p].id \in Attempt
    BY <2>1 DEF CallFits, Results
  <2> QED
    BY <1>1, <2>2 DEF Records, TypeOK
<1>2. ASSUME NEW c \in Caller, RequestAction(c)
      PROVE  Records(c) /\ call[c] # None /\ Under(c, call[c].kind)
  BY <1>2 DEF RequestAction, Under, Checking
<1>3. ASSUME NEW s \in Session, ReportResult(s)
      PROVE  Records(s) /\ call[s] # None /\ AnswersAction(s)
  BY <1>3 DEF ReportResult
<1>4. \/ disturbed' = disturbed
      \/ \E c \in Caller : RequestAction(c)
      \/ \E s \in Session : ReportResult(s)
  BY DEF Next, CallerStep, SessionStep, vars, CheckGenerate, CheckApply, CheckVerify,
         CheckClose, Generate, Close, Reopen, TryPatch, ForeseeTree, CompareTree, GiveUp, Claim,
         ClaimAgain, Deliver, ReleaseClaim, CheckResult, Expire, EditCheckout
<1> QED
  BY <1>1, <1>2, <1>3, <1>4 DEF Process, TypeOK

\* Rows stay, and so do a base and a tree that is foreseen.
RowsGrow ==
    \A b \in Attempt : Exists(b) =>
        /\ Exists(b)'
        /\ attempt'[b].base = attempt[b].base
        /\ attempt[b].expected # None => attempt'[b].expected = attempt[b].expected

\* Rows change in these ways only.
LEMMA RowsStep ==
  ASSUME IInv, [Next]_vars
  PROVE  /\ attempt' \in [Attempt -> Maybe(Row)]
         /\ \A b \in Attempt : Exists(b)' => LegalRow(attempt'[b])
         /\ RowsGrow /\ Foreseen' /\ ClosedIsQuiet' /\ AppliedIsExpected'
<1>0. TypeOK /\ Foreseen /\ LeasesFit /\ CallsFit /\ ClosedIsQuiet /\ AppliedIsExpected
  BY DEF IInv
<1>1. CASE \A p \in Process : ~Moves(p)
  <2>1. RowsKeep /\ triage' \in {triage, "open"} /\ disturbed' = disturbed
    BY <1>0, <1>1, QuietSteps
  <2>2. RowsGrow /\ \A b \in Attempt : Exists(b)' => LegalRow(attempt'[b])
    BY <2>1 DEF RowsKeep, RowsGrow
  <2>3. \A b \in Attempt : Exists(b) => Patched(b)' = Patched(b)
    BY <2>1 DEF RowsKeep, Patched
  <2>4. Foreseen'
    BY <1>0, <2>1, <2>3 DEF RowsKeep, Foreseen
  <2>5. ClosedIsQuiet'
    BY <1>0, <2>1 DEF RowsKeep, ClosedIsQuiet, Live
  <2>6. AppliedIsExpected'
    BY <1>0, <2>1 DEF RowsKeep, AppliedIsExpected
  <2> QED
    BY <2>1, <2>2, <2>4, <2>5, <2>6 DEF RowsKeep
<1>2. ASSUME NEW c \in Caller, Generate(c)
      PROVE  /\ attempt' \in [Attempt -> Maybe(Row)]
             /\ \A b \in Attempt : Exists(b)' => LegalRow(attempt'[b])
             /\ RowsGrow /\ Foreseen' /\ ClosedIsQuiet' /\ AppliedIsExpected'
  <2>1. /\ triage = "open"
        /\ attempt' \in [Attempt -> Maybe(Row)]
        /\ \A b \in Attempt : ~Exists(b) /\ Exists(b)' =>
               LegalRow(attempt'[b]) /\ attempt'[b].state = "requested" /\ attempt'[b].expected = None
        /\ \A b \in Attempt : Exists(b) =>
               /\ attempt'[b] # None /\ LegalRow(attempt'[b])
               /\ attempt'[b].base = attempt[b].base
               /\ attempt'[b].expected = attempt[b].expected
               /\ attempt'[b].applied = attempt[b].applied
               /\ \/ /\ attempt'[b].state = attempt[b].state
                     /\ attempt'[b].pending = attempt[b].pending
                  \/ attempt'[b].state = "superseded"
    BY <1>0, <1>2, GenerateRows
  <2>2. triage' = "open" /\ disturbed' = disturbed
    BY <1>2, <2>1 DEF Generate
  <2>3. RowsGrow
    BY <2>1 DEF RowsGrow, Exists
  <2>4. \A b \in Attempt : Exists(b) => Patched(b)' = Patched(b)
    BY <2>1 DEF Patched
  <2>5. Foreseen'
    BY <1>0, <2>1, <2>2, <2>4 DEF Foreseen, Exists
  <2>6. ClosedIsQuiet'
    BY <2>2 DEF ClosedIsQuiet
  <2>7. AppliedIsExpected'
    BY <1>0, <2>1, <2>2 DEF AppliedIsExpected, Exists
  <2> QED
    BY <2>1, <2>3, <2>5, <2>6, <2>7
<1>3. ASSUME NEW c \in Caller, RequestAction(c)
      PROVE  /\ attempt' \in [Attempt -> Maybe(Row)]
             /\ \A b \in Attempt : Exists(b)' => LegalRow(attempt'[b])
             /\ RowsGrow /\ Foreseen' /\ ClosedIsQuiet' /\ AppliedIsExpected'
  <2> PICK a \in Attempt :
         /\ Exists(a)
         /\ attempt' \in [Attempt -> Maybe(Row)]
         /\ attempt'[a] # None /\ LegalRow(attempt'[a])
         /\ attempt'[a].state = attempt[a].state /\ attempt'[a].base = attempt[a].base
         /\ attempt'[a].applied = attempt[a].applied
         /\ \/ /\ attempt'[a].expected = attempt[a].expected
               /\ attempt[a].state = "applied"
            \/ /\ attempt[a].state = "generated" /\ attempt[a].expected = None
               /\ attempt'[a].pending = "apply"
               /\ a \in attempt'[a].expected
               /\ <<a, "apply">> \notin disturbed' => attempt'[a].expected = Patched(a)
         /\ \A b \in Attempt \ {a} : attempt'[b] = attempt[b]
    BY <1>0, <1>3, RequestRow
  <2>0. disturbed \subseteq disturbed'
    BY <1>0, DisturbedStep
  <2>1. triage' = triage
    BY <1>3 DEF RequestAction
  <2>2. \A b \in Attempt : Exists(b)' <=> Exists(b)
    BY DEF Exists
  <2>3. \A b \in Attempt : Exists(b)' => LegalRow(attempt'[b])
    BY <1>0, <2>2 DEF TypeOK
  <2>4. RowsGrow
    BY <2>2 DEF RowsGrow
  <2>5. \A b \in Attempt : Patched(b)' = Patched(b)
    BY DEF Patched
  <2>6. Foreseen'
    <3> SUFFICES ASSUME NEW b \in Attempt, Exists(b)'
                 PROVE  /\ attempt'[b].expected # None =>
                            /\ b \in attempt'[b].expected
                            /\ <<b, "apply">> \notin disturbed' => attempt'[b].expected = Patched(b)
                        /\ \/ attempt'[b].state = "requested"
                           \/ attempt'[b].state = "generated" /\ attempt'[b].pending = None
                           => attempt'[b].expected = None
      BY <2>5 DEF Foreseen
    <3>1. None # "apply"
      BY DEF Action
    <3>2. CASE b # a
      BY <1>0, <2>0, <2>2, <3>2 DEF Foreseen
    <3>3. CASE b = a
      BY <1>0, <2>0, <2>2, <3>1, <3>3 DEF Foreseen
    <3> QED
      BY <3>2, <3>3
  <2>7. ClosedIsQuiet'
    BY <1>0, <2>1, <2>2 DEF ClosedIsQuiet, Live
  <2>8. AppliedIsExpected'
    BY <1>0, <2>0, <2>2 DEF AppliedIsExpected
  <2> QED
    BY <2>3, <2>4, <2>6, <2>7, <2>8
<1>4. ASSUME NEW c \in Caller, Close(c)
      PROVE  /\ attempt' \in [Attempt -> Maybe(Row)]
             /\ \A b \in Attempt : Exists(b)' => LegalRow(attempt'[b])
             /\ RowsGrow /\ Foreseen' /\ ClosedIsQuiet' /\ AppliedIsExpected'
  <2>1. attempt' = attempt /\ disturbed' = disturbed /\ \A a \in Attempt : ~Live(a)
    BY <1>4 DEF Close, MayClose
  <2> QED
    BY <1>0, <2>1 DEF TypeOK, Exists, RowsGrow, Foreseen, Patched, ClosedIsQuiet, Live, AppliedIsExpected
<1>5. ASSUME NEW s \in Session, ReportResult(s)
      PROVE  /\ attempt' \in [Attempt -> Maybe(Row)]
             /\ \A b \in Attempt : Exists(b)' => LegalRow(attempt'[b])
             /\ RowsGrow /\ Foreseen' /\ ClosedIsQuiet' /\ AppliedIsExpected'
  <2> PICK a \in Attempt :
         /\ Live(a)
         /\ attempt' \in [Attempt -> Maybe(Row)]
         /\ attempt'[a] # None /\ LegalRow(attempt'[a])
         /\ attempt'[a].base = attempt[a].base
         /\ attempt'[a].expected = attempt[a].expected
         /\ attempt'[a].state \in Results
         /\ attempt'[a].state = "generated" => attempt[a].state = "requested"
         /\ attempt'[a].state = "applied" =>
                /\ attempt[a].expected # None
                /\ <<a, "applied">> \notin disturbed' => attempt'[a].applied = attempt[a].expected
         /\ \A b \in Attempt \ {a} : attempt'[b] = attempt[b]
    BY <1>0, <1>5, ReportRow
  <2>0. disturbed \subseteq disturbed'
    BY <1>0, DisturbedStep
  <2>1. triage' = triage
    BY <1>5 DEF ReportResult
  <2>2. \A b \in Attempt : Exists(b)' <=> Exists(b)
    BY DEF Exists, Live
  <2>3. \A b \in Attempt : Exists(b)' => LegalRow(attempt'[b])
    BY <1>0, <2>2 DEF TypeOK
  <2>4. RowsGrow
    BY <2>2 DEF RowsGrow
  <2>5. \A b \in Attempt : Patched(b)' = Patched(b)
    BY DEF Patched
  <2>6. Foreseen'
    BY <1>0, <2>0, <2>2, <2>5 DEF Foreseen, Results
  <2>7. ClosedIsQuiet'
    BY <1>0, <2>1, <2>2 DEF ClosedIsQuiet, Live
  <2>8. AppliedIsExpected'
    BY <1>0, <2>0, <2>2 DEF AppliedIsExpected, Foreseen, Patched, Live
  <2> QED
    BY <2>3, <2>4, <2>6, <2>7, <2>8
<1> QED
  BY <1>1, <1>2, <1>3, <1>4, <1>5 DEF Moves

\* Calls begin, read once more, stay or end.
LEMMA CallStep ==
  ASSUME TypeOK, LeasesFit, CallsFit, [Next]_vars
  PROVE  /\ call' \in [Process -> Maybe(Call)]
         /\ \A p \in Process :
                \/ /\ call'[p] = call[p]
                   /\ checkout' = checkout \/ call[p] = None \/ call[p].reads = 0
                \/ call'[p] = None
                \/ CallFits(p)'
<1> DEFINE Good == /\ call' \in [Process -> Maybe(Call)]
                   /\ \A p \in Process :
                        \/ /\ call'[p] = call[p]
                           /\ checkout' = checkout \/ call[p] = None \/ call[p].reads = 0
                        \/ call'[p] = None
                        \/ CallFits(p)'
           Checks(p) ==
             \/ CheckGenerate(p) \/ \E a \in Attempt : CheckApply(p, a) \/ CheckVerify(p, a)
             \/ \E reason \in {"already_fixed", "wont_fix", "false_positive"} : CheckClose(p, reason)
             \/ p \in Session /\ \E result \in Results : CheckResult(p, result)
<1>1. ASSUME NEW p \in Process, Checks(p) \/ TryPatch(p) \/ ForeseeTree(p) \/ CompareTree(p)
      PROVE  Good
  BY <1>1, CheckFits, ReadFits
<1>2. ASSUME NEW p \in Process, Ends(p), checkout' = checkout
      PROVE  Good
  BY <1>2, EndsCall
<1>3. ASSUME call' = call, checkout' = checkout
      PROVE  Good
  BY <1>3 DEF TypeOK, Process
<1>4. EditCheckout => Good
  BY EditFits
<1>5. ASSUME NEW c \in Caller, CallerStep(c)
      PROVE  \/ Checks(c) \/ TryPatch(c) \/ ForeseeTree(c)
             \/ checkout' = checkout /\ (Ends(c) \/ call' = call)
  BY <1>5 DEF CallerStep, Generate, RequestAction, Close, Reopen, GiveUp
<1>6. ASSUME NEW s \in Session, SessionStep(s)
      PROVE  \/ Checks(s) \/ TryPatch(s) \/ CompareTree(s)
             \/ checkout' = checkout /\ (Ends(s) \/ call' = call)
  BY <1>6 DEF SessionStep, Claim, ClaimAgain, Deliver, ReleaseClaim, ReportResult, GiveUp, Results
<1>7. ASSUME ~\E c \in Caller : CallerStep(c), ~\E s \in Session : SessionStep(s), ~EditCheckout
      PROVE  call' = call /\ checkout' = checkout
  BY <1>7 DEF Next, vars, Expire
<1> HIDE DEF Good, Checks
<1>8. Good
  BY <1>1, <1>2, <1>3, <1>4, <1>5, <1>6, <1>7 DEF Process
<1> QED
  BY <1>8 DEF Good

LEMMA StepIInv == IInv /\ [Next]_vars => IInv'
<1> SUFFICES ASSUME IInv, [Next]_vars PROVE IInv'
  OBVIOUS
<1>0. TypeOK /\ Foreseen /\ LeasesFit /\ CallsFit
  BY DEF IInv
<1>1. /\ attempt' \in [Attempt -> Maybe(Row)]
      /\ \A b \in Attempt : Exists(b)' => LegalRow(attempt'[b])
      /\ RowsGrow /\ Foreseen' /\ ClosedIsQuiet' /\ AppliedIsExpected'
  BY RowsStep
<1>2. /\ lease' \in [Session -> Maybe(Lease)]
      /\ \A s \in Session :
             \/ lease'[s] = lease[s]
             \/ /\ call[s] = None /\ call' = call
                /\ lease'[s] # None /\ lease'[s].id \in Attempt /\ Exists(lease'[s].id)
  BY <1>0, LeaseStep
<1>3. /\ call' \in [Process -> Maybe(Call)]
      /\ \A p \in Process :
             \/ /\ call'[p] = call[p]
                /\ checkout' = checkout \/ call[p] = None \/ call[p].reads = 0
             \/ call'[p] = None
             \/ CallFits(p)'
  BY <1>0, CallStep
<1>4. LeasesFit'
  <2>1. \A b \in Attempt : Exists(b) => Exists(b)'
    BY <1>1 DEF RowsGrow
  <2>2. \A s \in Session : lease[s] # None => lease[s].id \in Attempt
    BY <1>0, LeaseFields
  <2> QED
    BY <1>0, <1>2, <2>1, <2>2 DEF LeasesFit
<1>5. CallsFit'
  <2> SUFFICES ASSUME NEW p \in Process, call'[p] # None PROVE CallFits(p)'
    BY DEF CallsFit
  <2>1. ASSUME call'[p] = call[p], checkout' = checkout \/ call[p].reads = 0
        PROVE  CallFits(p)'
    <3> DEFINE c == call[p]
    <3>1. CallFits(p) /\ c # None
      BY <1>0, <2>1 DEF CallsFit
    <3>2. p \in Session => lease'[p] = lease[p]
      BY <1>2, <3>1
    <3>3. c.id \in Attempt /\ Exists(c.id) =>
            /\ attempt'[c.id] # None /\ attempt'[c.id].base = attempt[c.id].base
            /\ attempt[c.id].expected # None => attempt'[c.id].expected = attempt[c.id].expected
      BY <1>1 DEF RowsGrow, Exists
    <3>4. c.kind = "apply" => ApplyFits(c)'
      BY <2>1, <3>1, <3>3 DEF CallFits, ApplyFits, Patched
    <3>5. c.kind = "applied" => AppliedFits(c)'
      <4>1. c.kind = "applied" => c.id \in Attempt /\ Exists(c.id)
        BY <3>1 DEF CallFits, Results
      <4> QED
        BY <2>1, <3>1, <3>3, <4>1 DEF CallFits, AppliedFits
    <3>6. /\ c.kind = "generate" => c.tree \in Tree
          /\ c.kind \in {"apply", "verify"} => c.id \in Attempt /\ attempt'[c.id] # None
          /\ c.reads # 0 \/ c.edited => c.kind \in {"apply", "applied"}
      BY <3>1, <3>3 DEF CallFits
    <3>7. c.kind \in Results =>
            /\ p \in Session /\ lease'[p] # None /\ c.id = lease'[p].id
            /\ c.id \in Attempt /\ attempt'[c.id] # None
      BY <3>1, <3>2, <3>3 DEF CallFits
    <3> QED
      BY <2>1, <3>4, <3>5, <3>6, <3>7 DEF CallFits, ApplyFits, AppliedFits, Patched, Exists
  <2> QED
    BY <1>3, <2>1
<1>6. triage' \in {"open", "closed"}
  <2>1. triage' \in {triage, "open", "closed"}
    BY DEF Next, CallerStep, SessionStep, vars, CheckGenerate, CheckApply, CheckVerify,
       CheckClose, Generate, RequestAction, Close, Reopen, TryPatch, ForeseeTree, CompareTree,
       GiveUp, Claim, ClaimAgain, Deliver, ReleaseClaim, CheckResult, ReportResult, Expire,
       EditCheckout
  <2> QED
    BY <1>0, <2>1 DEF TypeOK
<1>7. checkout' \in Tree
  <2>1. \/ checkout' = checkout
        \/ \E a \in Attempt : checkout' = checkout \ {a} \/ checkout' = checkout \cup {a}
    BY DEF Next, CallerStep, SessionStep, vars, CheckGenerate, CheckApply, CheckVerify,
       CheckClose, Generate, RequestAction, Close, Reopen, TryPatch, ForeseeTree, CompareTree,
       GiveUp, Claim, ClaimAgain, Deliver, ReleaseClaim, CheckResult, ReportResult, Expire,
       EditCheckout
  <2> QED
    BY <1>0, <2>1 DEF TypeOK, Tree
<1>8. generates' \in Nat /\ claims' \in Nat /\ edits' \in Nat
  <2>1. /\ generates' \in {generates, generates + 1} /\ claims' \in {claims, claims + 1}
        /\ edits' \in {edits, edits + 1}
    BY DEF Next, CallerStep, SessionStep, vars, CheckGenerate, CheckApply, CheckVerify,
       CheckClose, Generate, RequestAction, Close, Reopen, TryPatch, ForeseeTree, CompareTree,
       GiveUp, Claim, ClaimAgain, Deliver, ReleaseClaim, CheckResult, ReportResult, Expire,
       EditCheckout
  <2> QED
    BY <1>0, <2>1 DEF TypeOK
<1>9. TypeOK'
  <2>1. disturbed' \subseteq Attempt \X {"apply", "applied"}
    BY <1>0, DisturbedStep
  <2> QED
    BY <1>1, <1>2, <1>3, <1>6, <1>7, <1>8, <2>1 DEF TypeOK, Process
<1> QED
  BY <1>1, <1>4, <1>5, <1>9 DEF IInv

\* The inductive invariant.
THEOREM Inductive == Spec => []IInv
<1> QED
  BY InitIInv, StepIInv, PTL DEF Spec

-----------------------------------------------------------------------------
\* Every variable keeps its type, and every row stays legal.
THEOREM TypeCorrect == Spec => []TypeOK
<1>1. IInv => TypeOK
  BY DEF IInv
<1> QED
  BY <1>1, Inductive, PTL

\* No live attempt is left behind a closed finding.
THEOREM ClosureIsQuiet == Spec => []ClosedIsQuiet
<1>1. IInv => ClosedIsQuiet
  BY DEF IInv
<1> QED
  BY <1>1, Inductive, PTL

\* An applied attempt has the tree that was foreseen, its base and its own patch,
\* unless the checkout was edited between the reads of a check.
THEOREM AppliedIsForeseen == Spec => []AppliedIsExpected
<1>1. IInv => AppliedIsExpected
  BY DEF IInv
<1> QED
  BY <1>1, Inductive, PTL

\* An attempt moves by the result of the chat that has claimed it, or is
\* superseded; and only while it is live.
LEMMA StatesMove ==
  ASSUME IInv, [Next]_vars, NEW a \in Attempt, Exists(a)
  PROVE  \/ attempt'[a].state = attempt[a].state /\ attempt'[a].applied = attempt[a].applied
         \/ Live(a) /\ attempt'[a].state = "superseded"
         \/ Live(a) /\ \E s \in Session :
                call'[s] # call[s] /\ attempt[a].session = s /\ attempt[a].fresh
<1>0. TypeOK /\ Foreseen /\ LeasesFit /\ CallsFit
  BY DEF IInv
<1>1. CASE \A p \in Process : ~Moves(p)
  BY <1>0, <1>1, QuietSteps DEF RowsKeep
<1>2. CASE \E c \in Caller : Generate(c)
  BY <1>0, <1>2, GenerateRows
<1>3. CASE \E c \in Caller : RequestAction(c)
  BY <1>0, <1>3, RequestRow
<1>4. CASE \E c \in Caller : Close(c)
  BY <1>4 DEF Close
<1>5. ASSUME NEW s \in Session, ReportResult(s)
      PROVE  \/ attempt'[a].state = attempt[a].state /\ attempt'[a].applied = attempt[a].applied
             \/ Live(a) /\ call'[s] # call[s] /\ attempt[a].session = s /\ attempt[a].fresh
  <2>1. call[s] # None /\ call'[s] = None
    BY <1>0, <1>5, EndsCall DEF ReportResult, Process
  <2> PICK b \in Attempt :
         /\ Live(b) /\ attempt[b].session = s /\ attempt[b].fresh
         /\ \A q \in Attempt \ {b} : attempt'[q] = attempt[q]
    BY <1>0, <1>5, ReportRow
  <2> QED
    BY <2>1
<1> QED
  BY <1>1, <1>2, <1>3, <1>4, <1>5 DEF Moves

\* An attempt that is over stays what it is.
THEOREM FinalIsFinal == Spec => FinalStaysFinal
<1> DEFINE Now == \A a \in Attempt : Exists(a) /\ ~Live(a) =>
                    /\ attempt'[a].state = attempt[a].state
                    /\ attempt'[a].applied = attempt[a].applied
<1>1. IInv /\ [Next]_vars => [Now]_vars
  BY StatesMove
<1> HIDE DEF Now
<1>2. [][Now]_vars => FinalStaysFinal
  BY PTL DEF Now, FinalStaysFinal
<1> QED
  BY <1>1, <1>2, Inductive, PTL DEF Spec

\* Results are those of the chat that was given the action last.
THEOREM ResultsAreClaimed == Spec => ResultFromClaimant
<1> DEFINE Now == \A a \in Attempt :
                    Live(a) /\ attempt'[a].state \notin {attempt[a].state, "superseded"} =>
                    \E s \in Session : call'[s] # call[s] /\ attempt[a].session = s /\ attempt[a].fresh
<1>1. IInv /\ [Next]_vars => [Now]_vars
  BY StatesMove DEF Live
<1> HIDE DEF Now
<1>2. [][Now]_vars => ResultFromClaimant
  BY PTL DEF Now, ResultFromClaimant
<1> QED
  BY <1>1, <1>2, Inductive, PTL DEF Spec
=============================================================================
