---------------------------- MODULE Remediation ----------------------------
(***************************************************************************)
(* The remediation attempts of one finding of a published scan, and its    *)
(* triage.  The dashboard of every window requests actions and closes the  *)
(* finding; a chat claims a requested action, is delivered its context,    *)
(* works on the checkout and reports a result.                             *)
(*                                                                         *)
(* Every call is a check that reads the row and the checkout without a     *)
(* transaction, then one immediate transaction that decides on the row as  *)
(* it is by then.  The check of an apply request and that of an applied    *)
(* result read the checkout three times; every read is a step of its own,  *)
(* and so is the transaction.  Calls that only read the row in their       *)
(* transaction are one step.  A reply may be lost.                         *)
(*                                                                         *)
(* Abstractions.  A tree is the set of patches in it, an attempt its own   *)
(* patch; a digest is the tree it is taken of.  A foreign edit makes or     *)
(* takes back the change of any patch, also of one that has no attempt yet; *)
(* a digest of files that were read before and after an edit is one of a    *)
(* tree that was there for just that read.  The revision of the checkout    *)
(* stays that of the scan, and a patch file that of its digest.  A claim    *)
(* token is the version the claim gave the row.  Time is a flag that a      *)
(* claim is not expired; a time read before the transaction is one read in  *)
(* it when the expiry comes later, for every change of the row changes its  *)
(* version.                                                                *)
(***************************************************************************)
EXTENDS Naturals, FiniteSets

CONSTANTS
    Caller,         \* windows, each with one dashboard action under way
    Session,        \* chats
    Attempt,        \* request ids
    None,
    MaxGenerates,   \* bound on generate requests
    MaxClaims,      \* bound on claims
    MaxEdits,       \* bound on edits of the checkout
    MaxCalls        \* bound on the calls under way at once

Maybe(S) == {None} \cup S
Tree == SUBSET Attempt
State == {"requested", "generated", "applied", "verified", "failed", "superseded"}
Action == {"generate", "apply", "verify"}

ASSUME NoneIsNothing ==
    /\ None \notin Session \cup Action \cup Nat
    /\ \A T \in Tree : None # T
    /\ None \notin Attempt

ASSUME BoundAssumption == MaxGenerates \in Nat

Row == [state : State, version : Nat, created : Nat, pending : Maybe(Action),
        base : Tree, expected : Maybe(Tree), applied : Maybe(Tree),
        session : Maybe(Session), token : Maybe(Nat), delivered : BOOLEAN, fresh : BOOLEAN]
Call == [kind : Action \cup State \cup {"close"}, id : Maybe(Attempt), tree : Maybe(Tree), at : Nat,
         reads : 0..2, edited : BOOLEAN]
Lease == [id : Attempt, token : Nat, version : Nat]

ASSUME NoneIsNoRecord == None \notin Row \cup Call \cup Lease

VARIABLES
    attempt,    \* finding_remediation_attempts, a row for every request id
    triage,     \* the status of finding_triage
    checkout,   \* the tree of the target
    call,       \* what the check of a call under way has read, and how many reads it has left
    lease,      \* the last reply of a claim or delivery that reached a chat
    generates, claims, edits,
    disturbed   \* history: the recorded checks during which the checkout was edited

vars == <<attempt, triage, checkout, call, lease, generates, claims, edits, disturbed>>

Exists(a) == attempt[a] # None

\* The newest row by created_at.
Newest(a) == Exists(a) /\ \A b \in Attempt : Exists(b) => attempt[b].created <= attempt[a].created

LiveStates == {"requested", "generated", "applied"}
Live(a) == Exists(a) /\ attempt[a].state \in LiveStates

\* A row nobody works on.
Unclaimed(r) == [r EXCEPT !.session = None, !.token = None, !.delivered = FALSE, !.fresh = FALSE]

\* An update of a row: every one counts its version up.
Write(a, r) == attempt' = [attempt EXCEPT ![a] = [r EXCEPT !.version = attempt[a].version + 1]]

Ends(p) == call' = [call EXCEPT ![p] = None]
Begins(p, c) ==
    /\ call[p] = None
    /\ Cardinality({q \in Caller \cup Session : call[q] # None}) < MaxCalls
    /\ call' = [call EXCEPT ![p] = c]
\* A check that has that many reads of the checkout to go.
Checking(p, kind, n) == call[p] # None /\ call[p].kind = kind /\ call[p].reads = n
\* A check that has passed.
Under(p, kind) == Checking(p, kind, 0)
NewCall(kind, a, tree, n) ==
    [kind |-> kind, id |-> a, tree |-> tree, at |-> 0, reads |-> n, edited |-> FALSE]
\* The outcome of a check is recorded in its attempt.
Records(p) ==
    disturbed' = disturbed \cup (IF call[p].edited THEN {<<call[p].id, call[p].kind>>} ELSE {})

-----------------------------------------------------------------------------
\* An attempt whose patch is there; a version only tells updates apart.
GeneratedBefore(a) ==
    [state |-> "generated", version |-> 1, created |-> 1, pending |-> None,
     base |-> {}, expected |-> None, applied |-> None,
     session |-> None, token |-> None, delivered |-> FALSE, fresh |-> FALSE]

\* The finding has no attempt yet; or it has one with a patch, and then no
\* other is requested (a bound).
Init ==
    /\ \/ /\ attempt = [a \in Attempt |-> None]
          /\ generates = 0
       \/ \E before \in Attempt :
          /\ attempt = [a \in Attempt |-> IF a = before THEN GeneratedBefore(a) ELSE None]
          /\ generates = MaxGenerates
    /\ checkout = {}
    /\ triage = "open"
    /\ call = [p \in Caller \cup Session |-> None]
    /\ lease = [s \in Session |-> None]
    /\ claims = 0 /\ edits = 0
    /\ disturbed = {}

-----------------------------------------------------------------------------
(* request_finding_remediation. *)

\* The checkout is captured as the base, then the time is taken.
CheckGenerate(c) ==
    /\ generates < MaxGenerates
    /\ generates' = generates + 1
    /\ Begins(c, [NewCall("generate", None, checkout, 0) EXCEPT !.at = generates + 1])
    /\ UNCHANGED <<attempt, triage, checkout, lease, claims, edits, disturbed>>

\* The first read for an apply: the checkout is the base.
CheckApply(c, a) ==
    /\ Exists(a)
    /\ attempt[a].state # "requested"
    /\ checkout = attempt[a].base
    /\ Begins(c, NewCall("apply", a, None, 2))
    /\ UNCHANGED <<attempt, triage, checkout, lease, generates, claims, edits, disturbed>>

\* The second read, git apply --check: the patch can be applied, or taken back
\* when the result is that it was applied.
TryPatch(p) ==
    /\ Checking(p, "apply", 2) \/ Checking(p, "applied", 2)
    /\ (call[p].id \in checkout) = (call[p].kind = "applied")
    /\ call' = [call EXCEPT ![p].reads = 1]
    /\ UNCHANGED <<attempt, triage, checkout, lease, generates, claims, edits, disturbed>>

\* The third read for an apply: the patch is applied to a copy of the checkout.
ForeseeTree(c) ==
    /\ Checking(c, "apply", 1)
    /\ call[c].id \notin checkout
    /\ call' = [call EXCEPT ![c] = [@ EXCEPT !.reads = 0, !.tree = checkout \cup {call[c].id}]]
    /\ UNCHANGED <<attempt, triage, checkout, lease, generates, claims, edits, disturbed>>

\* The checkout is the applied tree.
CheckVerify(c, a) ==
    /\ Exists(a)
    /\ checkout = attempt[a].applied
    /\ Begins(c, NewCall("verify", a, None, 0))
    /\ UNCHANGED <<attempt, triage, checkout, lease, generates, claims, edits, disturbed>>

GeneratesWhenClosed == \A a \in Attempt : Newest(a) => attempt[a].state # "requested"
\* A finding that is closed, or whose newest attempt still waits for its patch,
\* takes no new attempt.
MayGenerate ==
    /\ triage = "open"
    /\ \A a \in Attempt : Newest(a) => attempt[a].state # "requested"

KeepsPendingAction(r) == [r EXCEPT !.state = "superseded"]
\* A superseded attempt loses its pending action, and keeps its claim.
Superseded(r) == [r EXCEPT !.state = "superseded", !.pending = None]

\* The newest attempt, when it has a patch, is superseded by the new one.
Generate(c) ==
    /\ Under(c, "generate")
    /\ MayGenerate
    /\ \E new \in {a \in Attempt : ~Exists(a)} :
        attempt' = [a \in Attempt |->
            CASE a = new ->
                    [state |-> "requested", version |-> 1, created |-> call[c].at,
                     pending |-> "generate", base |-> call[c].tree,
                     expected |-> None, applied |-> None,
                     session |-> None, token |-> None, delivered |-> FALSE, fresh |-> FALSE]
              [] Newest(a) /\ attempt[a].state \in {"generated", "applied"} ->
                    [Superseded(attempt[a]) EXCEPT !.version = attempt[a].version + 1]
              [] OTHER -> attempt[a]]
    /\ Ends(c)
    /\ UNCHANGED <<triage, checkout, lease, generates, claims, edits, disturbed>>

RequiredState(action) == IF action = "apply" THEN "generated" ELSE "applied"

MayRequest(a, action) ==
    /\ triage = "open"
    /\ attempt[a].state = RequiredState(action)
    /\ attempt[a].pending = None

RequestAction(c) ==
    /\ Under(c, "apply") \/ Under(c, "verify")
    /\ LET a == call[c].id
           action == call[c].kind
       IN  /\ MayRequest(a, action)
           /\ Write(a, [attempt[a] EXCEPT !.pending = action,
                            !.expected = IF action = "apply" THEN call[c].tree ELSE @])
    /\ Records(c)
    /\ Ends(c)
    /\ UNCHANGED <<triage, checkout, lease, generates, claims, edits>>

-----------------------------------------------------------------------------
(* set_finding_triage. *)

\* Before a finding is closed as already fixed, the checkout is that of its
\* verified attempt.
CheckClose(c, reason) ==
    /\ reason = "already_fixed" =>
        \A a \in Attempt : Newest(a) /\ attempt[a].state = "verified" => checkout = attempt[a].applied
    /\ Begins(c, NewCall("close", None, None, 0))
    /\ UNCHANGED <<attempt, triage, checkout, lease, generates, claims, edits, disturbed>>

\* A finding with a live attempt stays open.
MayClose == \A a \in Attempt : ~Live(a)

Close(c) ==
    /\ Under(c, "close")
    /\ MayClose
    /\ triage' = "closed"
    /\ Ends(c)
    /\ UNCHANGED <<attempt, checkout, lease, generates, claims, edits, disturbed>>

Reopen(c) ==
    /\ call[c] = None
    /\ triage' = "open"
    /\ UNCHANGED <<attempt, checkout, call, lease, generates, claims, edits, disturbed>>

-----------------------------------------------------------------------------
(* The tools of the chats. *)

\* The reply of a call that gave the row this version reaches the chat, or not.
Replies(s, a, token, version) ==
    \/ lease' = [lease EXCEPT ![s] = [id |-> a, token |-> token, version |-> version]]
    \/ UNCHANGED lease

\* claim_remediation: an action nobody works on, or whose claim has expired.
Claim(s, a) ==
    /\ call[s] = None
    /\ claims < MaxClaims
    /\ Exists(a)
    /\ attempt[a].pending # None
    /\ attempt[a].token = None \/ ~attempt[a].fresh
    /\ claims' = claims + 1
    /\ LET next == attempt[a].version + 1
       IN  /\ Write(a, [attempt[a] EXCEPT !.session = s, !.token = next,
                            !.delivered = FALSE, !.fresh = TRUE])
           /\ Replies(s, a, next, next)
    /\ UNCHANGED <<triage, checkout, call, generates, edits, disturbed>>

\* The same chat claims again: it gets the claim it has.
ClaimAgain(s, a) ==
    /\ call[s] = None
    /\ Exists(a)
    /\ attempt[a].pending # None
    /\ attempt[a].token # None
    /\ attempt[a].session = s
    /\ attempt[a].fresh
    /\ Replies(s, a, attempt[a].token, attempt[a].version)
    /\ UNCHANGED <<attempt, triage, checkout, call, generates, claims, edits, disturbed>>

AnyClaimant(s) == lease[s] # None
\* _require_remediation_claim but for the version: the chat holds the claim.
Claimant(s) ==
    /\ lease[s] # None
    /\ LET r == attempt[lease[s].id]
       IN  r.session = s /\ r.token = lease[s].token /\ r.fresh

\* get_remediation_context: the first one delivers the claim and starts the
\* time of the worker, a retry of it only reads.
Deliver(s) ==
    /\ call[s] = None
    /\ Claimant(s)
    /\ LET a == lease[s].id
           r == attempt[a]
       IN  IF r.delivered
           THEN /\ r.version \in {lease[s].version, lease[s].version + 1}
                /\ Replies(s, a, r.token, r.version)
                /\ UNCHANGED attempt
           ELSE /\ r.version = lease[s].version
                /\ Write(a, [r EXCEPT !.delivered = TRUE])
                /\ Replies(s, a, r.token, r.version + 1)
    /\ UNCHANGED <<triage, checkout, call, generates, claims, edits, disturbed>>

\* release_remediation: before the delivery only.
ReleaseClaim(s) ==
    /\ call[s] = None
    /\ Claimant(s)
    /\ LET a == lease[s].id
       IN  /\ ~attempt[a].delivered
           /\ attempt[a].version = lease[s].version
           /\ Write(a, Unclaimed(attempt[a]))
    /\ UNCHANGED <<triage, checkout, call, lease, generates, claims, edits, disturbed>>

\* The digest that comes with a result: that of the checkout with an applied
\* one, none or that of the base with the others.
Reported(s, result) ==
    IF result = "applied" THEN {checkout} ELSE {None, attempt[lease[s].id].base}

\* set_finding_remediation compares the checkout with the digests of the row.
\* A digest may come with every result; only that of an applied one is compared,
\* and with the first read.
CheckResult(s, result) ==
    /\ lease[s] # None
    /\ LET r == attempt[lease[s].id]
       IN  /\ result = "generated" => checkout = r.base
           /\ result = "applied" => r.expected # None
           /\ result = "verified" => checkout = r.applied
    /\ \E tree \in Reported(s, result) :
            Begins(s, NewCall(result, lease[s].id, tree, IF result = "applied" THEN 2 ELSE 0))
    /\ UNCHANGED <<attempt, triage, checkout, lease, generates, claims, edits, disturbed>>

ComparesNothing(s) ==
    /\ Checking(s, "applied", 1)
    /\ call' = [call EXCEPT ![s].reads = 0]
    /\ UNCHANGED <<attempt, triage, checkout, lease, generates, claims, edits, disturbed>>
\* The third read for an applied result: the checkout is the tree that was
\* foreseen.
CompareTree(s) ==
    /\ Checking(s, "applied", 1)
    /\ checkout = attempt[call[s].id].expected
    /\ call' = [call EXCEPT ![s].reads = 0]
    /\ UNCHANGED <<attempt, triage, checkout, lease, generates, claims, edits, disturbed>>

Result(action) ==
    CASE action = "generate" -> {"generated", "failed"}
      [] action = "apply" -> {"applied", "failed"}
      [] action = "verify" -> {"verified", "failed"}
      [] OTHER -> {}

\* The result is one of the pending action.
AnswersAction(s) == call[s].kind \in Result(attempt[call[s].id].pending)

ReportResult(s) ==
    /\ call[s] # None
    /\ call[s].reads = 0
    /\ Claimant(s)
    /\ AnswersAction(s)
    /\ LET a == call[s].id
           r == attempt[a]
       IN  /\ r.delivered
           /\ r.version = lease[s].version
           /\ Write(a, Unclaimed([r EXCEPT !.state = call[s].kind, !.pending = None,
                            !.applied = IF call[s].tree = None THEN @ ELSE call[s].tree]))
    /\ Records(s)
    /\ Ends(s)
    /\ UNCHANGED <<triage, checkout, lease, generates, claims, edits>>

-----------------------------------------------------------------------------
\* The transaction of a call refuses what its check let pass, or the process
\* dies between the two.
GiveUp(p) ==
    /\ call[p] # None
    /\ Ends(p)
    /\ UNCHANGED <<attempt, triage, checkout, lease, generates, claims, edits, disturbed>>

\* A claim expires, or a worker takes too long.
Expire(a) ==
    /\ Exists(a)
    /\ attempt[a].fresh
    /\ attempt' = [attempt EXCEPT ![a].fresh = FALSE]
    /\ UNCHANGED <<triage, checkout, call, lease, generates, claims, edits, disturbed>>

\* The worker applies or takes back a patch, or somebody edits the checkout.
\* Checks that have read it and will read it again see another tree.
EditCheckout ==
    /\ edits < MaxEdits
    /\ edits' = edits + 1
    /\ \E a \in Attempt : checkout' = IF a \in checkout THEN checkout \ {a} ELSE checkout \cup {a}
    /\ call' = [p \in Caller \cup Session |->
            IF call[p] # None /\ call[p].reads # 0 THEN [call[p] EXCEPT !.edited = TRUE] ELSE call[p]]
    /\ UNCHANGED <<attempt, triage, lease, generates, claims, disturbed>>

CallerStep(c) ==
    \/ CheckGenerate(c) \/ Generate(c) \/ RequestAction(c)
    \/ \E a \in Attempt : CheckApply(c, a) \/ CheckVerify(c, a)
    \/ \E reason \in {"already_fixed", "wont_fix", "false_positive"} : CheckClose(c, reason)
    \/ Close(c) \/ Reopen(c) \/ TryPatch(c) \/ ForeseeTree(c) \/ GiveUp(c)

SessionStep(s) ==
    \/ \E a \in Attempt : Claim(s, a) \/ ClaimAgain(s, a)
    \/ Deliver(s) \/ ReleaseClaim(s)
    \/ \E result \in {"generated", "applied", "verified", "failed"} : CheckResult(s, result)
    \/ TryPatch(s) \/ CompareTree(s) \/ ReportResult(s) \/ GiveUp(s)

Next ==
    \/ \E c \in Caller : CallerStep(c)
    \/ \E s \in Session : SessionStep(s)
    \/ \E a \in Attempt : Expire(a)
    \/ EditCheckout

Spec == Init /\ [][Next]_vars

-----------------------------------------------------------------------------
(* Correctness. *)

\* What a row may hold: the action fits the state, a claim is whole.
LegalRow(r) ==
    /\ r.pending = "generate" <=> r.state = "requested"
    /\ r.pending = "apply" => r.state = "generated"
    /\ r.pending = "verify" => r.state = "applied"
    /\ r.session = None <=> r.token = None
    /\ r.delivered \/ r.fresh => r.token # None

\* The type invariant of every variable.
TypeOK ==
    /\ attempt \in [Attempt -> Maybe(Row)]
    /\ \A a \in Attempt : Exists(a) => LegalRow(attempt[a])
    /\ triage \in {"open", "closed"}
    /\ checkout \in Tree
    /\ call \in [Caller \cup Session -> Maybe(Call)]
    /\ lease \in [Session -> Maybe(Lease)]
    /\ generates \in Nat /\ claims \in Nat /\ edits \in Nat
    /\ disturbed \subseteq Attempt \X {"apply", "applied"}

\* A closed finding has no attempt that a worker or the dashboard could still
\* move: the requests, results and closings of several processes, each decided on
\* a check that may be out of date, never leave a live attempt behind a closed
\* finding.
ClosedIsQuiet == triage = "closed" => \A a \in Attempt : ~Live(a)

\* An attempt that counts as applied has the tree that was foreseen when the
\* apply was requested, which is its base and exactly its own patch: through
\* retries, takeovers, replies that come late and whatever is edited between the
\* calls.  No lock holds the checkout during a check, whose reads are compared
\* with different digests; so the two exceptions are checks during which it was
\* edited, of the apply request and of the result.  The foreseen tree has the
\* patch without exception.
AppliedIsExpected ==
    \A a \in Attempt : Exists(a) /\ attempt[a].state = "applied" =>
        /\ a \in attempt[a].expected
        /\ <<a, "apply">> \notin disturbed => attempt[a].expected = attempt[a].base \cup {a}
        /\ <<a, "applied">> \notin disturbed => attempt[a].applied = attempt[a].expected

\* One attempt of a finding is live at a time.  It holds when a single window
\* requests; with two, a request may take its time before another one and its
\* transaction after it, and ORDER BY created_at then misses the newer row.
OneLiveAttempt == \A a, b \in Attempt : Live(a) /\ Live(b) => a = b

\* An attempt that is verified, failed or superseded stays what it is, whatever
\* a worker that was delivered its context reports afterwards.
FinalStaysFinal ==
    [][\A a \in Attempt : Exists(a) /\ ~Live(a) =>
        /\ attempt'[a].state = attempt[a].state
        /\ attempt'[a].applied = attempt[a].applied]_vars

\* A result is recorded by the chat that was given the action last: a worker
\* whose claim expired and went to another chat reports nothing.
ResultFromClaimant ==
    [][\A a \in Attempt : Live(a) /\ attempt'[a].state \notin {attempt[a].state, "superseded"} =>
        \E s \in Session : call'[s] # call[s] /\ attempt[a].session = s /\ attempt[a].fresh]_vars
=============================================================================
