--------------------------- MODULE ChatAttestation ---------------------------
(***************************************************************************)
(* How a tool call proves which chat made it.  Before the host calls a tool *)
(* it runs a hook, which records the chat, the tool with its arguments, and *)
(* the nonce of the call; the server that receives the call consumes that   *)
(* record and runs the tool for the chat it names.  Hooks and servers are   *)
(* processes of their own that share only the database; each reads the      *)
(* clock, waits for the database, and runs in one immediate transaction.    *)
(*                                                                          *)
(* Servers may be of different versions.  One that opens the database        *)
(* brings it to its own version, or refuses it as too new, before the        *)
(* transaction it opened it for; a hook uses the database as it is.          *)
(*                                                                          *)
(* The host is not modelled: a server may get any request at any time, also *)
(* a call without a hook, or the same one twice.                            *)
(*                                                                          *)
(* Abstractions.  Act stands for a tool with the hash of its arguments; a   *)
(* tool runs in one transaction, or changes nothing.  Chats choose their    *)
(* nonces freely: they may use one again, or one another chat uses.  All    *)
(* versions share one history of migrations, of which the first makes the   *)
(* table of attestations and no other changes it.                           *)
(***************************************************************************)
EXTENDS Integers, Sequences

CONSTANTS
    Session,        \* chats
    Server,         \* server processes
    Nonce,          \* request nonces
    Act,            \* a tool with its arguments
    Latest,         \* the last migration that a server knows
    TTL,            \* how long an attestation lasts
    None,           \* nothing
    MaxHooks,       \* bound on attestations stored
    MaxClock        \* bound on the clock

ASSUME BoundAssumption == TTL \in Nat \ {0} /\ MaxHooks \in Nat /\ MaxClock \in Nat
ASSUME LatestAssumption == Latest \in [Server -> Nat \ {0}]

\* Attestations are numbered, for the properties only.
Id == 1..MaxHooks

Attestation == [id : Id, session : Session, act : Act, expires : Nat]
HookCall == [nonce : Nonce, act : Act, now : Nat]
Call == [nonce : Nonce, act : Act, now : Nat, stage : {"received", "connected"}]
        \cup [id : Id, session : Session, act : Act, stage : {"attested", "running"}]

ASSUME NoneAssumption == None \notin Attestation \cup HookCall \cup Call

VARIABLES
    attestation,    \* the rows of chat_attestations
    applied,        \* the rows of schema_migrations
    clock,          \* the time
    hook,           \* the hook a chat has under way
    server,         \* how far a server is in its handshake
    call,           \* the call a server has under way
    attested,       \* history: for whom and what the attestations were stored
    acted,          \* history: what was done for whom with each attestation
    late            \* history: acts of a server on a database that it does not know

history == <<attested, acted, late>>
vars == <<attestation, applied, clock, hook, server, call, history>>

\* Nobody has opened the database yet.
Init ==
    /\ attestation = [n \in Nonce |-> None]
    /\ applied = {}
    /\ clock = 0
    /\ hook = [s \in Session |-> None]
    /\ server = [p \in Server |-> "off"]
    /\ call = [p \in Server |-> None]
    /\ attested = <<>>
    /\ acted = [i \in Id |-> <<>>]
    /\ late = [p \in Server |-> 0]

-----------------------------------------------------------------------------
(* The hook. *)

BeginHook(s, n, a) ==
    /\ hook[s] = None
    /\ hook' = [hook EXCEPT ![s] = [nonce |-> n, act |-> a, now |-> clock]]
    /\ UNCHANGED <<attestation, applied, clock, server, call, history>>

\* What is left when expired records are deleted.
Purged(now) ==
    [n \in Nonce |-> IF attestation[n] # None /\ attestation[n].expires <= now
                     THEN None ELSE attestation[n]]

Expiry(now) == now + TTL

Replaces(rows, n) == TRUE
\* The nonce is the primary key.
MayInsert(rows, n) == rows[n] = None

\* Records the call; expired records go, unless the insertion fails.
StoreAttestation(s) ==
    /\ hook[s] # None
    /\ 1 \in applied
    /\ Len(attested) < MaxHooks
    /\ LET h == hook[s]
           rows == Purged(h.now) IN
        /\ MayInsert(rows, h.nonce)
        /\ attestation' = [rows EXCEPT ![h.nonce] =
                [id |-> Len(attested) + 1, session |-> s, act |-> h.act,
                 expires |-> Expiry(h.now)]]
        /\ attested' = Append(attested, [session |-> s, act |-> h.act])
    /\ hook' = [hook EXCEPT ![s] = None]
    /\ UNCHANGED <<applied, clock, server, call, acted, late>>

\* A hook that finds no table, or whose nonce is taken, or that dies, changes nothing.
EndHook(s) ==
    /\ hook[s] # None
    /\ hook' = [hook EXCEPT ![s] = None]
    /\ UNCHANGED <<attestation, applied, clock, server, call, history>>

-----------------------------------------------------------------------------
(* The server. *)

Knows(p) == 1..Latest[p]

\* The database is checked only when the server starts.
TrustsStart(p) == server[p] = "off" => applied \subseteq Knows(p)
\* No migration is there that the server does not know.
Opens(p) == applied \subseteq Knows(p)

\* Those that are missing are applied, in the transaction of the check.
Migrate(p) == applied' = applied \cup Knows(p)

\* A server of which the database is too new exits.
Start(p) ==
    /\ server[p] = "off"
    /\ Opens(p) /\ Migrate(p)
    /\ server' = [server EXCEPT ![p] = "started"]
    /\ UNCHANGED <<attestation, clock, hook, call, history>>

\* A second initialize is refused.
Initialize(p) ==
    /\ server[p] = "started"
    /\ server' = [server EXCEPT ![p] = "responded"]
    /\ UNCHANGED <<attestation, applied, clock, hook, call, history>>

NotifyInitialized(p) ==
    /\ server[p] = "responded"
    /\ server' = [server EXCEPT ![p] = "ready"]
    /\ UNCHANGED <<attestation, applied, clock, hook, call, history>>

\* Other tools and methods, and what has no nonce, are refused; so is every
\* call before the handshake is over.  Requests are handled one by one.
ReceiveCall(p, n, a) ==
    /\ server[p] = "ready" /\ call[p] = None
    /\ call' = [call EXCEPT ![p] = [nonce |-> n, act |-> a, now |-> clock, stage |-> "received"]]
    /\ UNCHANGED <<attestation, applied, clock, hook, server, history>>

At(p, stage) == call[p] # None /\ call[p].stage = stage

\* The database is opened once to consume the attestation and again by the tool.
Connect(p) ==
    /\ \/ At(p, "received") /\ call' = [call EXCEPT ![p].stage = "connected"]
       \/ At(p, "attested") /\ call' = [call EXCEPT ![p].stage = "running"]
    /\ Opens(p) /\ Migrate(p)
    /\ UNCHANGED <<attestation, clock, hook, server, history>>

IsAttested(c) ==
    /\ attestation[c.nonce] # None
    /\ attestation[c.nonce].expires > c.now
    /\ attestation[c.nonce].act = c.act

KeepsRow(n) == attestation
Consumed(n) == [attestation EXCEPT ![n] = None]

ConsumeAttestation(p) ==
    /\ At(p, "connected")
    /\ IsAttested(call[p])
    /\ attestation' = Consumed(call[p].nonce)
    /\ LET row == attestation[call[p].nonce] IN
       call' = [call EXCEPT ![p] = [id |-> row.id, session |-> row.session,
                                    act |-> call[p].act, stage |-> "attested"]]
    /\ UNCHANGED <<applied, clock, hook, server, history>>

\* The tool runs for the chat of the attestation.
RunTool(p) ==
    /\ At(p, "running")
    /\ LET c == call[p] IN
       acted' = [acted EXCEPT ![c.id] = Append(@, [session |-> c.session, act |-> c.act])]
    /\ late' = [late EXCEPT ![p] = IF applied \subseteq Knows(p) THEN @ ELSE @ + 1]
    /\ call' = [call EXCEPT ![p] = None]
    /\ UNCHANGED <<attestation, applied, clock, hook, server, attested>>

\* A call is answered with an error: it has no attestation (a record that does
\* not match is kept), the database has become too new, the arguments are not
\* those of the tool (which is checked last), or the tool refuses.
EndCall(p) ==
    /\ call[p] # None
    /\ call' = [call EXCEPT ![p] = None]
    /\ UNCHANGED <<attestation, applied, clock, hook, server, history>>

\* The chat ends, or the server dies; the host may start it again.
Stop(p) ==
    /\ server[p] # "off"
    /\ server' = [server EXCEPT ![p] = "off"]
    /\ call' = [call EXCEPT ![p] = None]
    /\ UNCHANGED <<attestation, applied, clock, hook, history>>

Tick ==
    /\ clock < MaxClock
    /\ clock' = clock + 1
    /\ UNCHANGED <<attestation, applied, hook, server, call, history>>

Next ==
    \/ \E s \in Session, n \in Nonce, a \in Act : BeginHook(s, n, a)
    \/ \E s \in Session : StoreAttestation(s) \/ EndHook(s)
    \/ \E p \in Server, n \in Nonce, a \in Act : ReceiveCall(p, n, a)
    \/ \E p \in Server :
        \/ Start(p) \/ Initialize(p) \/ NotifyInitialized(p)
        \/ Connect(p) \/ ConsumeAttestation(p) \/ RunTool(p)
        \/ EndCall(p) \/ Stop(p)
    \/ Tick

Spec == Init /\ [][Next]_vars

-----------------------------------------------------------------------------
\* The type invariant of every variable.  No attestation outlives its time.
TypeOK ==
    /\ attestation \in [Nonce -> Attestation \cup {None}]
    /\ \A n \in Nonce : attestation[n] # None => attestation[n].expires <= clock + TTL
    /\ applied \subseteq Nat
    /\ clock \in 0..MaxClock
    /\ hook \in [Session -> HookCall \cup {None}]
    /\ server \in [Server -> {"off", "started", "responded", "ready"}]
    /\ call \in [Server -> Call \cup {None}]
    /\ attested \in Seq([session : Session, act : Act]) /\ Len(attested) <= MaxHooks
    /\ acted \in [Id -> Seq([session : Session, act : Act])]
    /\ late \in [Server -> Nat]

\* With each attestation that a hook stored, one act is done at most, the one
\* it was stored for, for the chat it was stored for; however often the call is
\* repeated, whichever servers get it, and though another chat may use the same
\* nonce.  Nothing is done without one.
ActsAreAttested ==
    \A i \in Id :
        \/ acted[i] = <<>>
        \/ i <= Len(attested) /\ acted[i] = <<attested[i]>>

\* An attestation whose time is not over is there until its own call takes it:
\* the hook of another call neither deletes nor replaces it, though it deletes
\* what has expired at a time it read before its transaction.
AttestationStaysUsable ==
    [][\A n \in Nonce :
        /\ attestation[n] # None
        /\ attestation[n].expires > clock
        /\ attestation'[n] # attestation[n]
        => /\ attestation'[n] = None
           /\ \E p \in Server :
                /\ At(p, "connected") /\ call[p].nonce = n /\ call[p].act = attestation[n].act
                /\ At(p, "attested")' /\ call'[p].id = attestation[n].id]_vars

\* A server that finds its database upgraded stops: after the upgrade it does
\* one act at most, with the connection it had opened before, although its
\* handshake is over and it holds attestations of calls to come.
OldServersStop == \A p \in Server : late[p] <= 1
=============================================================================
