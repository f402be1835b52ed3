--------------------------- MODULE FindingTracking ---------------------------
(***************************************************************************)
(* The handoff of one finding of a sealed scan to a chat that tracks it.  A *)
(* window creates a request, a chat claims it for a limited time and then   *)
(* asks for its context, which delivers the request.  A delivered request   *)
(* may be asked for again, by the chat it was delivered to.                 *)
(*                                                                          *)
(* A context call checks the sealed files, reads the clock, delivers in an  *)
(* immediate transaction, and checks the sealed files again before it       *)
(* answers: it may fail after the delivery, and so may its reply be lost.   *)
(*                                                                          *)
(* As in ScanRecovery a claim token is the version its claim produced, and  *)
(* a claim lasts Lease units of time.  The scan is complete and its sealed  *)
(* files may be damaged and restored by their users.                        *)
(***************************************************************************)
EXTENDS Integers, Absent

CONSTANTS
    Session,        \* chats
    Lease,          \* how long a claim counts as fresh
    MaxRequests,    \* bound on tracking requests of the finding
    MaxVersion,     \* bound on the version of a request
    MaxClock,       \* bound on the clock
    MaxDamages      \* bound on damages of the sealed files

Request == 1..MaxRequests
Version == 1..MaxVersion
Maybe(S) == {None} \cup S

Row == [status : {"pending", "claimed", "delivered"}, version : Version,
        session : Maybe(Session), token : Maybe(Version), claimedAt : Maybe(Nat)]
Ticket == [request : Request, version : Version, token : Maybe(Version)]
Call == [step : {"check", "clock", "claim", "deliver", "recheck"}, args : Ticket, now : Nat]

ASSUME TrackingBoundAssumption ==
    /\ Lease \in Nat \ {0} /\ MaxRequests \in Nat /\ MaxClock \in Nat /\ MaxDamages \in Nat
    /\ MaxVersion \in Nat \ {0}
ASSUME TrackingNoneAssumption == None \notin Session \cup Nat \cup Row \cup Ticket \cup Call

VARIABLES
    request,        \* the rows of finding_tracking_requests of the finding
    sealed,         \* the sealed files are what the database pins
    damages,        \* how often they were damaged
    clock,          \* the time
    ticket,         \* what a chat knows of a request
    call,           \* the call a chat has under way
    received        \* the requests whose context a chat got

trackingVars == <<request, sealed, damages, clock, ticket, call, received>>

TrackingInit ==
    /\ request = [i \in Request |-> None]
    /\ sealed = TRUE
    /\ damages = 0
    /\ clock = 0
    /\ ticket = [s \in Session |-> None]
    /\ call = [s \in Session |-> None]
    /\ received = [s \in Session |-> {}]

IsOpen(i) == request[i] # None /\ request[i].status \in {"pending", "claimed"}
IsFresh(at, now) == at # None /\ now - at < Lease

-----------------------------------------------------------------------------
\* Track: an open request is told again, otherwise one is created; a prompt
\* hands it to a chat.  The seal is checked first.
Track(s) ==
    /\ sealed
    /\ call[s] = None
    /\ \E i \in Request :
        /\ \/ /\ IsOpen(i)
              /\ UNCHANGED request
           \/ /\ \A j \in Request : ~IsOpen(j)
              /\ request[i] = None
              /\ \A j \in 1..(i - 1) : request[j] # None
              /\ request' = [request EXCEPT ![i] =
                    [status |-> "pending", version |-> 1, session |-> None, token |-> None,
                     claimedAt |-> None]]
        /\ ticket' = [ticket EXCEPT ![s] =
                [request |-> i, version |-> request'[i].version, token |-> None]]
    /\ UNCHANGED <<sealed, damages, clock, call, received>>

\* The call of s is at that step, on request i.
At(s, step, i) ==
    /\ call[s] # None /\ call[s].step = step /\ call[s].args.request = i
    /\ request[i] # None

Steps(s, step) == call' = [call EXCEPT ![s].step = step]
Ends(s) == call' = [call EXCEPT ![s] = None]

\* The chat learns what it is told, or the reply is lost.
Told(s, i, row) ==
    \/ ticket' = [ticket EXCEPT ![s] = [request |-> i, version |-> row.version, token |-> row.token]]
    \/ UNCHANGED ticket

-----------------------------------------------------------------------------
(* claim_tracking. *)

BeginClaim(s) ==
    /\ call[s] = None
    /\ ticket[s] # None
    /\ call' = [call EXCEPT ![s] = [step |-> "claim", args |-> ticket[s], now |-> clock]]
    /\ UNCHANGED <<request, sealed, damages, clock, ticket, received>>

\* A fresh claim of the chat is told again, at the version before it or at its own.
RepeatsClaim(s, i, c) ==
    /\ request[i].status = "claimed"
    /\ request[i].version \in {c.args.version, c.args.version + 1}
    /\ request[i].session = s
    /\ IsFresh(request[i].claimedAt, c.now)

MayClaim(s, i, c) ==
    /\ request[i].version = c.args.version
    /\ IsOpen(i)
    /\ request[i].status = "claimed" => ~IsFresh(request[i].claimedAt, c.now)

Claimed(row, s, now) ==
    [row EXCEPT !.status = "claimed", !.version = row.version + 1, !.session = s,
                !.token = row.version + 1, !.claimedAt = now]

Claim(s, i) ==
    /\ At(s, "claim", i)
    /\ MayClaim(s, i, call[s])
    /\ request[i].version < MaxVersion
    /\ request' = [request EXCEPT ![i] = Claimed(request[i], s, call[s].now)]
    /\ Told(s, i, request'[i])
    /\ Ends(s)
    /\ UNCHANGED <<sealed, damages, clock, received>>

ClaimAgain(s, i) ==
    /\ At(s, "claim", i)
    /\ RepeatsClaim(s, i, call[s])
    /\ Told(s, i, request[i])
    /\ Ends(s)
    /\ UNCHANGED <<request, sealed, damages, clock, received>>

-----------------------------------------------------------------------------
(* get_tracking_context. *)

BeginContext(s) ==
    /\ call[s] = None
    /\ ticket[s] # None /\ ticket[s].token # None
    /\ call' = [call EXCEPT ![s] = [step |-> "check", args |-> ticket[s], now |-> 0]]
    /\ UNCHANGED <<request, sealed, damages, clock, ticket, received>>

CheckSeal(s) ==
    /\ call[s] # None /\ call[s].step = "check"
    /\ sealed
    /\ Steps(s, "clock")
    /\ UNCHANGED <<request, sealed, damages, clock, ticket, received>>

ReadClock(s) ==
    /\ call[s] # None /\ call[s].step = "clock"
    /\ call' = [call EXCEPT ![s].step = "deliver", ![s].now = clock]
    /\ UNCHANGED <<request, sealed, damages, clock, ticket, received>>

\* The claim that was delivered is the one the call names, by the version before
\* the delivery or the one after it.
RepeatsWhileFresh(s, i, c) ==
    /\ request[i].version \in {c.args.version, c.args.version + 1}
    /\ request[i].session = s
    /\ request[i].token = c.args.token
    /\ IsFresh(request[i].claimedAt, c.now)
RepeatsForAnyone(s, i, c) == c.args.version <= request[i].version
RepeatsDelivery(s, i, c) ==
    /\ request[i].version \in {c.args.version, c.args.version + 1}
    /\ request[i].session = s
    /\ request[i].token = c.args.token

\* A fresh claim may be delivered.
MayDeliver(s, i, c) ==
    /\ request[i].version = c.args.version
    /\ request[i].session = s
    /\ request[i].token = c.args.token
    /\ IsFresh(request[i].claimedAt, c.now)

Delivered(row) == [row EXCEPT !.status = "delivered", !.version = row.version + 1]

Deliver(s, i) ==
    /\ At(s, "deliver", i)
    /\ request[i].status = "claimed"
    /\ MayDeliver(s, i, call[s])
    /\ request[i].version < MaxVersion
    /\ request' = [request EXCEPT ![i] = Delivered(request[i])]
    /\ Steps(s, "recheck")
    /\ UNCHANGED <<sealed, damages, clock, ticket, received>>

DeliverAgain(s, i) ==
    /\ At(s, "deliver", i)
    /\ request[i].status = "delivered"
    /\ RepeatsDelivery(s, i, call[s])
    /\ Steps(s, "recheck")
    /\ UNCHANGED <<request, sealed, damages, clock, ticket, received>>

\* The context is told with the request as it is now, or the reply is lost.
TellContext(s, i) ==
    /\ At(s, "recheck", i)
    /\ sealed
    /\ \/ /\ received' = [received EXCEPT ![s] = @ \cup {i}]
          /\ ticket' = [ticket EXCEPT ![s] =
                [request |-> i, version |-> request[i].version, token |-> call[s].args.token]]
       \/ UNCHANGED <<received, ticket>>
    /\ Ends(s)
    /\ UNCHANGED <<request, sealed, damages, clock>>

\* A call that is refused at any step, or whose process dies, does nothing more.
EndCall(s) ==
    /\ call[s] # None
    /\ Ends(s)
    /\ UNCHANGED <<request, sealed, damages, clock, ticket, received>>

-----------------------------------------------------------------------------
Damage ==
    /\ sealed
    /\ damages < MaxDamages
    /\ sealed' = FALSE
    /\ damages' = damages + 1
    /\ UNCHANGED <<request, clock, ticket, call, received>>

Restore ==
    /\ ~sealed
    /\ sealed' = TRUE
    /\ UNCHANGED <<request, damages, clock, ticket, call, received>>

Tick ==
    /\ clock < MaxClock
    /\ clock' = clock + 1
    /\ UNCHANGED <<request, sealed, damages, ticket, call, received>>

TrackingNext ==
    \/ \E s \in Session :
        \/ Track(s) \/ BeginClaim(s) \/ BeginContext(s) \/ CheckSeal(s) \/ ReadClock(s) \/ EndCall(s)
        \/ \E i \in Request :
            \/ Claim(s, i) \/ ClaimAgain(s, i)
            \/ Deliver(s, i) \/ DeliverAgain(s, i) \/ TellContext(s, i)
    \/ Damage \/ Restore
    \/ Tick

TrackingSpec == TrackingInit /\ [][TrackingNext]_trackingVars

-----------------------------------------------------------------------------
\* The type invariant of every variable; a row names a claim whole or not at all.
TrackingTypeOK ==
    /\ request \in [Request -> Maybe(Row)]
    /\ \A i \in Request : request[i] # None =>
        /\ request[i].status = "pending" <=> request[i].session = None
        /\ request[i].session = None <=> request[i].token = None
        /\ request[i].session = None <=> request[i].claimedAt = None
    /\ sealed \in BOOLEAN
    /\ damages \in 0..MaxDamages
    /\ clock \in 0..MaxClock
    /\ ticket \in [Session -> Maybe(Ticket)]
    /\ call \in [Session -> Maybe(Call)]
    /\ received \in [Session -> SUBSET Request]

\* The context of a request reaches one chat, that of the delivery, though claims
\* expire and are taken over while a delivery is under way.
ContextGoesToOneChat ==
    \A s \in Session : \A i \in received[s] :
        request[i].status = "delivered" /\ request[i].session = s

\* A delivery whose answer failed or was lost is not lost: as long as its chat
\* was handed nothing else, what it knows is enough to get the context, at any
\* later time.
DeliveryIsRepeatable ==
    \A i \in Request : request[i] # None /\ request[i].status = "delivered" =>
        LET s == request[i].session IN
        ticket[s].request = i =>
            \/ RepeatsDelivery(s, i, [args |-> ticket[s], now |-> clock])
            \/ ticket[s].token = None
=============================================================================
