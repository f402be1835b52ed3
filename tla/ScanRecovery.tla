----------------------------- MODULE ScanRecovery -----------------------------
(***************************************************************************)
(* The handoff of a running scan from the chat that owns it to another one. *)
(* A window creates a recovery request and hands a chat its id and version; *)
(* the chat claims the request for a limited time, and delivers the claim,  *)
(* which moves the ownership of the scan, or releases it.  A chat that dies *)
(* with a claim is overtaken once its time is over.                         *)
(*                                                                          *)
(* A call reads the clock, waits for the database, and then runs in one     *)
(* immediate transaction: what it knows of the time is as old as that wait. *)
(* A reply may be lost; the chat then repeats the call with the version and *)
(* the token it still has.                                                  *)
(*                                                                          *)
(* A claim token (a fresh UUID) is the version its claim produced, which no  *)
(* other claim of that request has.  Time is counted in units of which a    *)
(* claim lasts Lease (RECOVERY_CLAIM_SECONDS).                              *)
(***************************************************************************)
EXTENDS Integers, Absent

CONSTANTS
    Session,        \* chats
    FirstOwner,     \* the chat that started the scan
    Lease,          \* how long a claim, and a delivery, counts as fresh
    MaxRequests,    \* bound on recovery requests
    MaxVersion,     \* bound on the version of a request
    MaxClock        \* bound on the clock

Request == 1..MaxRequests
Token == 1..MaxVersion
Maybe(S) == {None} \cup S

Row == [status : {"pending", "claimed", "delivered", "canceled"}, version : 1..MaxVersion,
        session : Maybe(Session), token : Maybe(Token),
        claimedAt : Maybe(Nat), deliveredAt : Maybe(Nat)]
Ticket == [request : Request, version : 1..MaxVersion, token : Maybe(Token)]
Call == [op : {"claim", "deliver", "release"}, args : Ticket, now : Nat]

ASSUME OwnerAssumption == FirstOwner \in Session
ASSUME BoundAssumption ==
    /\ Lease \in Nat \ {0} /\ MaxRequests \in Nat /\ MaxClock \in Nat
    /\ MaxVersion \in Nat \ {0}
ASSUME NoneAssumption == None \notin Session \cup Nat \cup Row \cup Ticket \cup Call

VARIABLES
    running,        \* the scan runs
    owner,          \* its owner_session_hash
    request,        \* the rows of scan_recovery_requests of this scan
    clock,          \* the time
    ticket,         \* what a chat knows of a request: id, version and token
    call            \* the call a chat has under way, with the time it read

vars == <<running, owner, request, clock, ticket, call>>

Init ==
    /\ running = TRUE
    /\ owner = FirstOwner
    /\ request = [i \in Request |-> None]
    /\ clock = 0
    /\ ticket = [s \in Session |-> None]
    /\ call = [s \in Session |-> None]

-----------------------------------------------------------------------------
(* Reads of a row. *)

IsOpen(i) == request[i] # None /\ request[i].status \in {"pending", "claimed"}

\* A time that is less than a lease before now (or after it).
IsFresh(at, now) == at # None /\ now - at < Lease

\* The row is the claim of chat s that the call names by version and token.
Holds(s, i, c) ==
    /\ request[i].status = "claimed"
    /\ request[i].version = c.args.version
    /\ request[i].session = s
    /\ request[i].token = c.args.token

\* A claim that was made already and is still fresh is only told again.
RepeatsClaim(s, i, c) ==
    /\ request[i].status = "claimed"
    /\ request[i].version \in {c.args.version, c.args.version + 1}
    /\ request[i].session = s
    /\ IsFresh(request[i].claimedAt, c.now)

TakesAnyClaim(s, i, c) ==
    /\ request[i].version = c.args.version
    /\ IsOpen(i)
\* A pending request, or one whose claim is over, may be claimed.
MayClaim(s, i, c) ==
    /\ request[i].version = c.args.version
    /\ IsOpen(i)
    /\ request[i].status = "claimed" => ~IsFresh(request[i].claimedAt, c.now)

RepeatsDelivery(s, i, c) ==
    /\ request[i].status = "delivered"
    /\ request[i].version = c.args.version + 1
    /\ request[i].session = s
    /\ request[i].token = c.args.token
    /\ IsFresh(request[i].deliveredAt, c.now)

DeliversAgain(s, i, c) ==
    \/ Holds(s, i, c) /\ IsFresh(request[i].claimedAt, c.now)
    \/ RepeatsDelivery(s, i, c)
\* A fresh claim may be delivered; the transaction is rolled back when the scan
\* does not run any more.
MayDeliver(s, i, c) == Holds(s, i, c) /\ IsFresh(request[i].claimedAt, c.now)

-----------------------------------------------------------------------------
(* The dashboard. *)

\* Resume: an open request is reused; the prompt tells a chat its version.
Resume(s) ==
    /\ running
    /\ call[s] = None
    /\ \E i \in Request :
        /\ \/ /\ IsOpen(i)
              /\ UNCHANGED request
           \/ /\ \A j \in Request : ~IsOpen(j)
              /\ request[i] = None
              /\ \A j \in 1..(i - 1) : request[j] # None
              /\ request' = [request EXCEPT ![i] =
                    [status |-> "pending", version |-> 1, session |-> None, token |-> None,
                     claimedAt |-> None, deliveredAt |-> None]]
        /\ ticket' = [ticket EXCEPT ![s] =
                [request |-> i, version |-> request'[i].version, token |-> None]]
    /\ UNCHANGED <<running, owner, clock, call>>

Canceled(row) == [row EXCEPT !.status = "canceled", !.session = None, !.token = None,
                             !.claimedAt = None, !.version = @ + 1]

\* Every request but a delivered one can be canceled, a canceled one again.
Cancel(i) ==
    /\ request[i] # None
    /\ request[i].status # "delivered"
    /\ request[i].version < MaxVersion
    /\ request' = [request EXCEPT ![i] = Canceled(@)]
    /\ UNCHANGED <<running, owner, clock, ticket, call>>

-----------------------------------------------------------------------------
(* The chats. *)

\* A call reads the clock before its transaction begins.
Begin(s, op) ==
    /\ call[s] = None
    /\ ticket[s] # None
    /\ op # "claim" => ticket[s].token # None
    /\ call' = [call EXCEPT ![s] = [op |-> op, args |-> ticket[s], now |-> clock]]
    /\ UNCHANGED <<running, owner, request, clock, ticket>>

\* The call of s is op on request i, which exists.
Runs(s, op, i) ==
    /\ call[s] # None /\ call[s].op = op /\ call[s].args.request = i
    /\ request[i] # None

\* The call ends, and its reply reaches the chat or is lost.
Reply(s, news) ==
    /\ call' = [call EXCEPT ![s] = None]
    /\ \/ ticket' = [ticket EXCEPT ![s] = news]
       \/ UNCHANGED ticket

Claim(s, i) ==
    /\ Runs(s, "claim", i)
    /\ MayClaim(s, i, call[s])
    /\ request[i].version < MaxVersion
    /\ LET next == request[i].version + 1 IN
        /\ request' = [request EXCEPT ![i] =
            [status |-> "claimed", version |-> next, session |-> s, token |-> next,
             claimedAt |-> call[s].now, deliveredAt |-> None]]
        /\ Reply(s, [request |-> i, version |-> next, token |-> next])
    /\ UNCHANGED <<running, owner, clock>>

ClaimAgain(s, i) ==
    /\ Runs(s, "claim", i)
    /\ RepeatsClaim(s, i, call[s])
    /\ Reply(s, [request |-> i, version |-> request[i].version, token |-> request[i].token])
    /\ UNCHANGED <<running, owner, request, clock>>

Delivered(row, now) ==
    [row EXCEPT !.status = "delivered", !.deliveredAt = now, !.version = @ + 1]

\* Delivery and transfer of ownership are one transaction.
Deliver(s, i) ==
    /\ Runs(s, "deliver", i)
    /\ MayDeliver(s, i, call[s])
    /\ running
    /\ request[i].version < MaxVersion
    /\ request' = [request EXCEPT ![i] = Delivered(@, call[s].now)]
    /\ owner' = s
    /\ Reply(s, None)
    /\ UNCHANGED <<running, clock>>

DeliverAgain(s, i) ==
    /\ Runs(s, "deliver", i)
    /\ RepeatsDelivery(s, i, call[s])
    /\ Reply(s, None)
    /\ UNCHANGED <<running, owner, request, clock>>

Released(row) == [row EXCEPT !.status = "pending", !.session = None, !.token = None,
                             !.claimedAt = None, !.version = @ + 1]

\* A claim may be released after its time, as long as nobody took it.
ReleaseClaim(s, i) ==
    /\ Runs(s, "release", i)
    /\ Holds(s, i, call[s])
    /\ request[i].version < MaxVersion
    /\ request' = [request EXCEPT ![i] = Released(@)]
    /\ Reply(s, None)
    /\ UNCHANGED <<running, owner, clock>>

\* A call that is refused, or whose process dies, changes nothing.
EndWithoutEffect(s) ==
    /\ call[s] # None
    /\ call' = [call EXCEPT ![s] = None]
    /\ UNCHANGED <<running, owner, request, clock, ticket>>

-----------------------------------------------------------------------------
\* The scan is completed, failed or canceled.
EndScan ==
    /\ running
    /\ running' = FALSE
    /\ UNCHANGED <<owner, request, clock, ticket, call>>

Tick ==
    /\ clock < MaxClock
    /\ clock' = clock + 1
    /\ UNCHANGED <<running, owner, request, ticket, call>>

Next ==
    \/ \E s \in Session : Resume(s)
    \/ \E i \in Request : Cancel(i)
    \/ \E s \in Session, op \in {"claim", "deliver", "release"} : Begin(s, op)
    \/ \E s \in Session, i \in Request : Claim(s, i)
    \/ \E s \in Session, i \in Request : ClaimAgain(s, i)
    \/ \E s \in Session, i \in Request : Deliver(s, i)
    \/ \E s \in Session, i \in Request : DeliverAgain(s, i)
    \/ \E s \in Session, i \in Request : ReleaseClaim(s, i)
    \/ \E s \in Session : EndWithoutEffect(s)
    \/ EndScan
    \/ Tick

Spec == Init /\ [][Next]_vars

-----------------------------------------------------------------------------
\* A row names a claim whole or not at all.
IsWhole(row) ==
    /\ row.status \in {"claimed", "delivered"} <=> row.session # None
    /\ row.session = None <=> row.token = None
    /\ row.status = "delivered" <=> row.deliveredAt # None
    /\ row.status = "claimed" => row.claimedAt # None

\* The type invariant of every variable; every row is whole, though the table has
\* no constraint that asks for it.
TypeOK ==
    /\ running \in BOOLEAN
    /\ owner \in Session
    /\ request \in [Request -> Maybe(Row)]
    /\ \A i \in Request : request[i] # None => IsWhole(request[i])
    /\ clock \in 0..MaxClock
    /\ ticket \in [Session -> Maybe(Ticket)]
    /\ call \in [Session -> Maybe(Call)]

\* The owner of the scan is the chat of the handoff delivered last, whatever is
\* repeated, canceled or overtaken: a retried delivery never takes the scan back
\* from a chat that recovered it later, and no delivery is recorded whose
\* transfer was rolled back.
OwnerIsLastHandoff ==
    \/ owner = FirstOwner /\ \A i \in Request : request[i] = None \/ request[i].status # "delivered"
    \/ \E i \in Request :
        /\ request[i] # None /\ request[i].status = "delivered" /\ request[i].session = owner
        /\ \A j \in Request : j > i => request[j] = None \/ request[j].status # "delivered"

\* The version a chat was told identifies its claim: as long as the request has
\* that version, it is claimed by that chat under that token, so that comparing
\* versions is enough to tell a claim from what came after it.
VersionIdentifiesClaim ==
    \A s \in Session : ticket[s] # None /\ ticket[s].token # None =>
        LET row == request[ticket[s].request] IN
        row.version = ticket[s].version =>
            row.status = "claimed" /\ row.session = s /\ row.token = ticket[s].token

\* No other chat takes a claim whose time is not over, though it compares it with
\* a time it read before it waited for the database.
ClaimsAreExclusive ==
    [][\A i \in Request, s \in Session :
        request[i] # None /\ request[i].status = "claimed" /\ request[i].session = s
            /\ clock - request[i].claimedAt < Lease
        => request'[i].status \in {"pending", "canceled"} \/ request'[i].session = s]_vars
=============================================================================
