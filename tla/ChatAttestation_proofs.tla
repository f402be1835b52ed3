----------------------- MODULE ChatAttestation_proofs -----------------------
(***************************************************************************)
(* Proofs about ChatAttestation for every number of chats, servers,         *)
(* versions, nonces and attestations.                                       *)
(*                                                                          *)
(* ActsAreAttested is not inductive: between the hook and the act an        *)
(* attestation is first a row and then in the hands of one server.  Custody *)
(* says that it is in one place at most, and unused as long as it is in     *)
(* one.  OldServersStop needs that a server that has acted late holds no    *)
(* connection any more.                                                     *)
(***************************************************************************)
EXTENDS ChatAttestation, TLAPS

\* A call whose attestation is consumed and not used yet.
Held(c) == c # None /\ c.stage \in {"attested", "running"}

\* An attestation as it was stored, and not used.
Genuine(r, stored, done) ==
    /\ r.id \in 1..Len(stored)
    /\ stored[r.id] = [session |-> r.session, act |-> r.act]
    /\ done[r.id] = <<>>

Custody ==
    /\ \A n \in Nonce : attestation[n] # None => Genuine(attestation[n], attested, acted)
    /\ \A p \in Server : Held(call[p]) => Genuine(call[p], attested, acted)
    /\ \A m, n \in Nonce :
        /\ attestation[m] # None /\ attestation[n] # None
        /\ attestation[m].id = attestation[n].id
        => m = n
    /\ \A p, q \in Server :
        Held(call[p]) /\ Held(call[q]) /\ call[p].id = call[q].id => p = q
    /\ \A n \in Nonce, p \in Server :
        attestation[n] # None /\ Held(call[p]) => attestation[n].id # call[p].id

\* The time a hook has read is not ahead of the clock.
HooksAreOld == \A s \in Session : hook[s] # None => hook[s].now <= clock

LateAreClosed ==
    \A p \in Server :
        /\ late[p] <= 1
        /\ late[p] = 1 => ~Opens(p) /\ ~At(p, "running")

IInv ==
    /\ TypeOK
    /\ Custody
    /\ ActsAreAttested
    /\ HooksAreOld
    /\ LateAreClosed

USE BoundAssumption, LatestAssumption, NoneAssumption

Deed == [session : Session, act : Act]

-----------------------------------------------------------------------------
\* Initially nothing is stored.
LEMMA InitIInv == Init => IInv
  BY DEF Init, IInv, TypeOK, Custody, Held, ActsAreAttested, HooksAreOld, LateAreClosed, Id

\* The fields of a row, of a hook and of a call.
LEMMA RowFields ==
  ASSUME TypeOK, NEW n \in Nonce, attestation[n] # None
  PROVE  /\ attestation[n] \in Attestation
         /\ attestation[n].id \in Id /\ attestation[n].session \in Session
         /\ attestation[n].act \in Act /\ attestation[n].expires \in Nat
  BY DEF TypeOK, Attestation

LEMMA HookFields ==
  ASSUME TypeOK, NEW s \in Session, hook[s] # None
  PROVE  hook[s].nonce \in Nonce /\ hook[s].act \in Act /\ hook[s].now \in Nat
  BY DEF TypeOK, HookCall

LEMMA CallFields ==
  ASSUME TypeOK, NEW p \in Server, call[p] # None
  PROVE  /\ call[p] \in Call /\ call[p].act \in Act
         /\ call[p].stage \in {"received", "connected"} =>
                /\ call[p] = [nonce |-> call[p].nonce, act |-> call[p].act,
                              now |-> call[p].now, stage |-> call[p].stage]
                /\ call[p].nonce \in Nonce /\ call[p].now \in Nat
         /\ call[p].stage \in {"attested", "running"} =>
                /\ call[p] = [id |-> call[p].id, session |-> call[p].session,
                              act |-> call[p].act, stage |-> call[p].stage]
                /\ call[p].id \in Id /\ call[p].session \in Session
<1>1. call[p] \in Call
  BY DEF TypeOK
<1>2. CASE call[p] \in [nonce : Nonce, act : Act, now : Nat, stage : {"received", "connected"}]
  BY <1>1, <1>2
<1>3. CASE call[p] \in [id : Id, session : Session, act : Act, stage : {"attested", "running"}]
  BY <1>1, <1>3
<1> QED
  BY <1>1, <1>2, <1>3 DEF Call

-----------------------------------------------------------------------------
\* Where a call goes on, it keeps what it is made of.
LEMMA ConnectFields ==
  ASSUME TypeOK, NEW p \in Server, Connect(p)
  PROVE  /\ call[p] # None
         /\ \E stage \in {"connected", "running"} : call' = [call EXCEPT ![p].stage = stage]
         /\ call' \in [Server -> Call \cup {None}]
         /\ call'[p] # None
<1>1. CASE At(p, "received") /\ call' = [call EXCEPT ![p].stage = "connected"]
  <2>1. call[p] = [nonce |-> call[p].nonce, act |-> call[p].act, now |-> call[p].now,
                   stage |-> call[p].stage]
        /\ call[p].nonce \in Nonce /\ call[p].act \in Act /\ call[p].now \in Nat
    BY <1>1, CallFields DEF At
  <2> DEFINE c == [nonce |-> call[p].nonce, act |-> call[p].act, now |-> call[p].now,
                   stage |-> "connected"]
  <2>2. [call[p] EXCEPT !.stage = "connected"] = c
    BY <2>1
  <2>3. c \in Call
    BY <2>1 DEF Call
  <2>4. call' = [call EXCEPT ![p] = c]
    BY <1>1, <2>2
  <2> QED
    BY <1>1, <2>3, <2>4 DEF At, TypeOK
<1>2. CASE At(p, "attested") /\ call' = [call EXCEPT ![p].stage = "running"]
  <2>1. call[p] = [id |-> call[p].id, session |-> call[p].session, act |-> call[p].act,
                   stage |-> call[p].stage]
        /\ call[p].id \in Id /\ call[p].session \in Session /\ call[p].act \in Act
    BY <1>2, CallFields DEF At
  <2> DEFINE c == [id |-> call[p].id, session |-> call[p].session, act |-> call[p].act,
                   stage |-> "running"]
  <2>2. [call[p] EXCEPT !.stage = "running"] = c
    BY <2>1
  <2>3. c \in Call
    BY <2>1 DEF Call
  <2>4. call' = [call EXCEPT ![p] = c]
    BY <1>2, <2>2
  <2> QED
    BY <1>2, <2>3, <2>4 DEF At, TypeOK
<1> QED
  BY <1>1, <1>2 DEF Connect

\* What a purge leaves is what there was.
LEMMA PurgedRows ==
  ASSUME NEW now, NEW n \in Nonce
  PROVE  /\ Purged(now)[n] \in {None, attestation[n]}
         /\ Purged(now)[n] # attestation[n] => attestation[n] # None /\ attestation[n].expires <= now
  BY DEF Purged

\* Storing an attestation, row by row.
LEMMA StoreRows ==
  ASSUME TypeOK, HooksAreOld, NEW s \in Session, StoreAttestation(s)
  PROVE  LET h == hook[s]
             row == [id |-> Len(attested) + 1, session |-> s, act |-> h.act,
                     expires |-> h.now + TTL]
         IN  /\ row \in Attestation /\ row.expires <= clock + TTL
             /\ h.nonce \in Nonce
             /\ attestation' \in [Nonce -> Attestation \cup {None}]
             /\ attestation'[h.nonce] = row
             /\ attestation[h.nonce] # None => attestation[h.nonce].expires <= clock
             /\ \A n \in Nonce \ {h.nonce} :
                    /\ attestation'[n] \in {None, attestation[n]}
                    /\ attestation'[n] # attestation[n] => attestation[n].expires <= clock
<1> DEFINE h == hook[s]
           row == [id |-> Len(attested) + 1, session |-> s, act |-> h.act, expires |-> h.now + TTL]
           rows == Purged(h.now)
<1>1. h.nonce \in Nonce /\ h.act \in Act /\ h.now \in Nat /\ h.now <= clock /\ clock \in Nat
  <2>1. hook[s] # None
    BY DEF StoreAttestation
  <2>2. hook[s].nonce \in Nonce /\ hook[s].act \in Act /\ hook[s].now \in Nat
    BY <2>1, HookFields
  <2>3. hook[s].now <= clock
    BY <2>1 DEF HooksAreOld
  <2>4. clock \in Nat
    BY DEF TypeOK
  <2> QED
    BY <2>2, <2>3, <2>4
<1>2. Len(attested) + 1 \in Id
  BY DEF StoreAttestation, TypeOK, Id
<1>3. row \in Attestation /\ row.expires <= clock + TTL
  BY <1>1, <1>2 DEF Attestation
<1>4. rows \in [Nonce -> Attestation \cup {None}]
  BY DEF Purged, TypeOK
<1>5. attestation' = [rows EXCEPT ![h.nonce] = row] /\ rows[h.nonce] = None
  BY DEF StoreAttestation, MayInsert, Expiry
<1>6. \A n \in Nonce : attestation[n] # None => attestation[n].expires \in Nat
  BY RowFields
<1>7. \A n \in Nonce : rows[n] # attestation[n] =>
            rows[n] = None /\ attestation[n] # None /\ attestation[n].expires <= clock
  BY <1>1, <1>6, PurgedRows
<1> HIDE DEF rows, row, h
<1>8. attestation'[h.nonce] = row /\ \A n \in Nonce \ {h.nonce} : attestation'[n] = rows[n]
  BY <1>1, <1>4, <1>5
<1>9. attestation' \in [Nonce -> Attestation \cup {None}]
  BY <1>3, <1>4, <1>5
<1>10. attestation[h.nonce] # None => attestation[h.nonce].expires <= clock
  BY <1>1, <1>5, <1>7
<1>11. \A n \in Nonce \ {h.nonce} :
        /\ attestation'[n] \in {None, attestation[n]}
        /\ attestation'[n] # attestation[n] => attestation[n].expires <= clock
  BY <1>7, <1>8
<1> QED
  BY <1>1, <1>3, <1>8, <1>9, <1>10, <1>11 DEF row, h

\* Migrations are numbers.
LEMMA MigrateType ==
  ASSUME applied \subseteq Nat, NEW p \in Server, Migrate(p)
  PROVE  applied' \subseteq Nat
<1>1. Latest[p] \in Nat
  OBVIOUS
<1>2. Knows(p) \subseteq Nat
  BY <1>1 DEF Knows
<1> QED
  BY <1>2 DEF Migrate

\* Every step keeps the types.
LEMMA TypeStep == TypeOK /\ HooksAreOld /\ [Next]_vars => TypeOK'
<1> SUFFICES ASSUME TypeOK, HooksAreOld, [Next]_vars PROVE TypeOK'
  OBVIOUS
<1>1. ASSUME NEW s \in Session, NEW n \in Nonce, NEW a \in Act, BeginHook(s, n, a) PROVE TypeOK'
  <2>1. [nonce |-> n, act |-> a, now |-> clock] \in HookCall
    BY DEF HookCall, TypeOK
  <2> QED
    BY <1>1, <2>1 DEF BeginHook, TypeOK, history
<1>2. ASSUME NEW s \in Session, StoreAttestation(s) PROVE TypeOK'
  <2>1. /\ attestation' \in [Nonce -> Attestation \cup {None}]
        /\ \A n \in Nonce : attestation'[n] # None => attestation'[n].expires <= clock + TTL
    BY <1>2, StoreRows DEF TypeOK
  <2>2. [session |-> s, act |-> hook[s].act] \in [session : Session, act : Act]
    BY <1>2, HookFields DEF StoreAttestation
  <2>3. attested' \in Seq([session : Session, act : Act]) /\ Len(attested') <= MaxHooks
    BY <1>2, <2>2 DEF StoreAttestation, TypeOK
  <2> QED
    BY <1>2, <2>1, <2>3 DEF StoreAttestation, TypeOK
<1>3. ASSUME NEW s \in Session, EndHook(s) PROVE TypeOK'
  BY <1>3 DEF EndHook, TypeOK, history
<1>4. ASSUME NEW p \in Server, NEW n \in Nonce, NEW a \in Act, ReceiveCall(p, n, a) PROVE TypeOK'
  <2>1. [nonce |-> n, act |-> a, now |-> clock, stage |-> "received"] \in Call
    BY DEF Call, TypeOK
  <2> QED
    BY <1>4, <2>1 DEF ReceiveCall, TypeOK, history
<1>5. ASSUME NEW p \in Server, Start(p) PROVE TypeOK'
  <2>1. applied' \subseteq Nat
    BY <1>5, MigrateType DEF Start, TypeOK
  <2> QED
    BY <1>5, <2>1 DEF Start, TypeOK, history
<1>6. ASSUME NEW p \in Server, Initialize(p) \/ NotifyInitialized(p) PROVE TypeOK'
  BY <1>6 DEF Initialize, NotifyInitialized, TypeOK, history
<1>7. ASSUME NEW p \in Server, Connect(p) PROVE TypeOK'
  <2>1. call' \in [Server -> Call \cup {None}]
    BY <1>7, ConnectFields
  <2>2. applied' \subseteq Nat
    BY <1>7, MigrateType DEF Connect, TypeOK
  <2> QED
    BY <1>7, <2>1, <2>2 DEF Connect, TypeOK, history
<1>8. ASSUME NEW p \in Server, ConsumeAttestation(p) PROVE TypeOK'
  <2> DEFINE row == attestation[call[p].nonce]
             c == [id |-> row.id, session |-> row.session, act |-> call[p].act, stage |-> "attested"]
  <2>1. call[p].nonce \in Nonce /\ call[p].act \in Act
    BY <1>8, CallFields DEF ConsumeAttestation, At
  <2>2. c \in Call
    BY <1>8, <2>1, RowFields DEF ConsumeAttestation, IsAttested, Call
  <2>3. call' = [call EXCEPT ![p] = c]
    BY <1>8 DEF ConsumeAttestation
  <2> HIDE DEF c
  <2>4. call' \in [Server -> Call \cup {None}]
    BY <2>2, <2>3 DEF TypeOK
  <2>5. /\ attestation' \in [Nonce -> Attestation \cup {None}]
        /\ \A n \in Nonce : attestation'[n] # None => attestation'[n].expires <= clock + TTL
    BY <1>8, <2>1 DEF ConsumeAttestation, Consumed, TypeOK
  <2> QED
    BY <1>8, <2>4, <2>5 DEF ConsumeAttestation, TypeOK, history
<1>9. ASSUME NEW p \in Server, RunTool(p) PROVE TypeOK'
  <2>1. call[p].id \in Id /\ call[p].session \in Session /\ call[p].act \in Act
    BY <1>9, CallFields DEF RunTool, At
  <2>2. acted[call[p].id] \in Seq([session : Session, act : Act])
    BY <2>1 DEF TypeOK
  <2>3. Append(acted[call[p].id], [session |-> call[p].session, act |-> call[p].act])
            \in Seq([session : Session, act : Act])
    BY <2>1, <2>2
  <2>4. acted' \in [Id -> Seq([session : Session, act : Act])]
    BY <1>9, <2>3 DEF RunTool, TypeOK
  <2>5. late' \in [Server -> Nat]
    BY <1>9 DEF RunTool, TypeOK
  <2> QED
    BY <1>9, <2>4, <2>5 DEF RunTool, TypeOK
<1>10. ASSUME NEW p \in Server, EndCall(p) \/ Stop(p) PROVE TypeOK'
  BY <1>10 DEF EndCall, Stop, TypeOK, history
<1>11. CASE Tick
  <2>1. \A n \in Nonce : attestation[n] # None => attestation[n].expires \in Nat
    BY RowFields
  <2>2. \A n \in Nonce : attestation'[n] # None => attestation'[n].expires <= clock' + TTL
    <3>1. /\ clock \in Nat /\ clock' = clock + 1 /\ attestation' = attestation
          /\ TTL \in Nat
      BY <1>11 DEF Tick, TypeOK
    <3>2. \A n \in Nonce : attestation[n] # None => attestation[n].expires <= clock + TTL
      BY DEF TypeOK
    <3> QED
      BY <2>1, <3>1, <3>2
  <2>3. clock' \in 0..MaxClock
    BY <1>11 DEF Tick, TypeOK
  <2>4. UNCHANGED <<attestation, applied, hook, server, call, attested, acted, late>>
    BY <1>11 DEF Tick, history
  <2> QED
    BY <2>2, <2>3, <2>4 DEF TypeOK
<1>12. CASE UNCHANGED vars
  BY <1>12 DEF vars, TypeOK, history
<1> QED
  BY <1>1, <1>2, <1>3, <1>4, <1>5, <1>6, <1>7, <1>8, <1>9, <1>10, <1>11, <1>12 DEF Next

-----------------------------------------------------------------------------
\* The rows and the histories are as they were, and no call holds what it did not.
LEMMA CustodyKept ==
  ASSUME Custody, ActsAreAttested, UNCHANGED <<attestation, attested, acted>>,
         \A p \in Server : Held(call'[p]) =>
            /\ Held(call[p]) /\ call'[p].id = call[p].id
            /\ call'[p].session = call[p].session /\ call'[p].act = call[p].act
  PROVE  Custody' /\ ActsAreAttested'
<1>1. ActsAreAttested'
  BY DEF ActsAreAttested
<1>2. \A p \in Server : Held(call'[p]) => Genuine(call'[p], attested', acted')
  BY DEF Custody, Genuine
<1>3. Custody'
  BY <1>2 DEF Custody
<1> QED
  BY <1>1, <1>3

\* A hook puts a new attestation in one place, which nobody has used.
LEMMA StoreCustody ==
  ASSUME TypeOK, HooksAreOld, Custody, ActsAreAttested, NEW s \in Session, StoreAttestation(s)
  PROVE  Custody' /\ ActsAreAttested'
<1> DEFINE h == hook[s]
           k == Len(attested)
           row == [id |-> k + 1, session |-> s, act |-> h.act, expires |-> h.now + TTL]
           deed == [session |-> s, act |-> h.act]
<1>1. /\ h.nonce \in Nonce /\ attestation'[h.nonce] = row
      /\ \A n \in Nonce \ {h.nonce} : attestation'[n] \in {None, attestation[n]}
      /\ row \in Attestation
  BY StoreRows
<1>2. /\ attested' = Append(attested, deed) /\ UNCHANGED <<call, acted>>
      /\ k < MaxHooks
  BY DEF StoreAttestation
<1>3. /\ attested \in Seq(Deed) /\ deed \in Deed
  BY HookFields DEF StoreAttestation, TypeOK, Deed
<1>4. k \in Nat /\ Len(attested') = k + 1 /\ attested'[k + 1] = deed
  BY <1>2, <1>3
<1>5. \A i \in 1..k : attested'[i] = attested[i]
  BY <1>2, <1>3
<1>6. k + 1 \in Id /\ acted[k + 1] = <<>>
  <2>1. k + 1 \in Id /\ ~(k + 1 <= k)
    BY <1>2, <1>4 DEF Id
  <2> QED
    BY <2>1 DEF ActsAreAttested
<1>7. row.id = k + 1 /\ row.session = s /\ row.act = h.act
  OBVIOUS
<1> HIDE DEF row, deed, h, k
<1>8. Genuine(row, attested', acted')
  <2>1. k + 1 \in 1..Len(attested') /\ acted'[k + 1] = <<>>
    BY <1>2, <1>4, <1>6
  <2> QED
    BY <1>4, <1>7, <2>1 DEF Genuine, deed
<1>9. ASSUME NEW r, Genuine(r, attested, acted)
      PROVE  Genuine(r, attested', acted') /\ r.id # k + 1
  <2>1. r.id \in 1..k
    BY <1>9 DEF Genuine, k
  <2>2. r.id \in 1..Len(attested') /\ r.id # k + 1
    BY <1>4, <2>1
  <2>3. attested'[r.id] = attested[r.id] /\ acted'[r.id] = acted[r.id]
    BY <1>2, <1>5, <2>1
  <2> QED
    BY <1>9, <2>2, <2>3 DEF Genuine
<1>10. ActsAreAttested'
  <2> SUFFICES ASSUME NEW i \in Id, acted[i] # <<>>
               PROVE  i <= Len(attested') /\ acted[i] = <<attested'[i]>>
    BY <1>2 DEF ActsAreAttested
  <2>1. i <= k /\ acted[i] = <<attested[i]>> /\ i \in 1..k
    BY <1>4 DEF ActsAreAttested, Id, k
  <2> QED
    BY <1>4, <1>5, <2>1
<1>11. \A n \in Nonce : attestation[n] # None =>
            Genuine(attestation[n], attested', acted') /\ attestation[n].id # k + 1
  BY <1>9 DEF Custody
<1>12. \A p \in Server : Held(call'[p]) =>
            Genuine(call'[p], attested', acted') /\ call'[p].id # k + 1
  BY <1>2, <1>9 DEF Custody
<1>13. \A n \in Nonce : attestation'[n] # None =>
            \/ n = h.nonce /\ attestation'[n] = row
            \/ n # h.nonce /\ attestation'[n] = attestation[n]
  BY <1>1
<1>14. Custody'
  <2>1. \A n \in Nonce : attestation'[n] # None => Genuine(attestation'[n], attested', acted')
    BY <1>8, <1>11, <1>13
  <2>2. \A m, n \in Nonce :
            attestation'[m] # None /\ attestation'[n] # None
                /\ attestation'[m].id = attestation'[n].id => m = n
    BY <1>7, <1>11, <1>13 DEF Custody
  <2>3. \A n \in Nonce, p \in Server :
            attestation'[n] # None /\ Held(call'[p]) => attestation'[n].id # call'[p].id
    BY <1>2, <1>7, <1>12, <1>13 DEF Custody
  <2>4. \A p, q \in Server :
            Held(call'[p]) /\ Held(call'[q]) /\ call'[p].id = call'[q].id => p = q
    BY <1>2 DEF Custody
  <2> QED
    BY <1>12, <2>1, <2>2, <2>3, <2>4 DEF Custody
<1> QED
  BY <1>10, <1>14

\* A server takes an attestation out of its row.
LEMMA ConsumeCustody ==
  ASSUME TypeOK, Custody, ActsAreAttested, NEW p \in Server, ConsumeAttestation(p)
  PROVE  Custody' /\ ActsAreAttested'
<1> DEFINE n0 == call[p].nonce
           row == attestation[n0]
           c == [id |-> row.id, session |-> row.session, act |-> call[p].act, stage |-> "attested"]
<1>1. n0 \in Nonce /\ row # None /\ row.act = call[p].act
  BY CallFields DEF ConsumeAttestation, At, IsAttested
<1>2. /\ attestation' = [attestation EXCEPT ![n0] = None]
      /\ call' = [call EXCEPT ![p] = c]
      /\ UNCHANGED <<attested, acted>>
  BY DEF ConsumeAttestation, Consumed, history
<1>3. Genuine(row, attested, acted)
  BY <1>1 DEF Custody
<1>4. Genuine(c, attested, acted) /\ c.id = row.id
  <2>1. c.id = row.id /\ c.session = row.session /\ c.act = row.act
    BY <1>1
  <2> QED
    BY <1>3, <2>1 DEF Genuine
<1>5. ActsAreAttested'
  BY <1>2 DEF ActsAreAttested
<1> HIDE DEF c
<1>6. \A n \in Nonce : attestation'[n] # None => n # n0 /\ attestation'[n] = attestation[n]
  BY <1>1, <1>2 DEF TypeOK
<1>7. call'[p] = c /\ \A q \in Server \ {p} : call'[q] = call[q]
  BY <1>2 DEF TypeOK
<1> HIDE DEF n0
<1>8. \A n \in Nonce : attestation'[n] # None => attestation'[n].id # c.id
  BY <1>1, <1>4, <1>6 DEF Custody
<1>9. \A q \in Server \ {p} : Held(call'[q]) => call'[q].id # c.id
  BY <1>1, <1>4, <1>7 DEF Custody
<1>10. \A q \in Server : Held(call'[q]) => Genuine(call'[q], attested', acted')
  BY <1>2, <1>4, <1>7 DEF Custody
<1>11. \A q, r \in Server :
        Held(call'[q]) /\ Held(call'[r]) /\ call'[q].id = call'[r].id => q = r
  BY <1>7, <1>9 DEF Custody
<1>12. \A n \in Nonce, q \in Server :
        attestation'[n] # None /\ Held(call'[q]) => attestation'[n].id # call'[q].id
  BY <1>6, <1>7, <1>8 DEF Custody
<1>13. /\ \A n \in Nonce : attestation'[n] # None => Genuine(attestation'[n], attested', acted')
       /\ \A m, n \in Nonce :
            attestation'[m] # None /\ attestation'[n] # None
                /\ attestation'[m].id = attestation'[n].id => m = n
  BY <1>2, <1>6 DEF Custody
<1> QED
  BY <1>5, <1>10, <1>11, <1>12, <1>13 DEF Custody

\* A tool uses the attestation its server holds.
LEMMA RunCustody ==
  ASSUME TypeOK, Custody, ActsAreAttested, NEW p \in Server, RunTool(p)
  PROVE  Custody' /\ ActsAreAttested'
<1> DEFINE i0 == call[p].id
           deed == [session |-> call[p].session, act |-> call[p].act]
<1>1. Held(call[p]) /\ i0 \in Id
  BY CallFields DEF RunTool, At, Held
<1>2. i0 \in 1..Len(attested) /\ attested[i0] = deed /\ acted[i0] = <<>>
  BY <1>1 DEF Custody, Genuine
<1>3. /\ acted' = [acted EXCEPT ![i0] = Append(@, deed)]
      /\ call' = [call EXCEPT ![p] = None]
      /\ UNCHANGED <<attestation, attested>>
  BY DEF RunTool
<1> HIDE DEF i0, deed
<1>4. acted'[i0] = <<deed>>
  BY <1>1, <1>2, <1>3 DEF TypeOK
<1>5. \A i \in Id \ {i0} : acted'[i] = acted[i]
  BY <1>3 DEF TypeOK
<1>6. \A q \in Server : Held(call'[q]) => q # p /\ call'[q] = call[q]
  BY <1>3 DEF TypeOK, Held
<1>7. ActsAreAttested'
  <2>1. i0 <= Len(attested) /\ Len(attested) \in Nat
    BY <1>2 DEF TypeOK
  <2> QED
    BY <1>2, <1>3, <1>4, <1>5, <2>1 DEF ActsAreAttested
<1>8. ASSUME NEW r, Genuine(r, attested, acted), r.id # i0
      PROVE  Genuine(r, attested', acted')
  <2>1. r.id \in Id
    <3>1. r.id \in 1..Len(attested) /\ Len(attested) \in Nat /\ Len(attested) <= MaxHooks
      BY <1>8 DEF Genuine, TypeOK
    <3> QED
      BY <3>1 DEF Id
  <2> QED
    BY <1>3, <1>5, <1>8, <2>1 DEF Genuine
<1>9. \A n \in Nonce : attestation[n] # None => attestation[n].id # i0
  BY <1>1 DEF Custody, i0
<1>10. \A n \in Nonce : attestation'[n] # None => Genuine(attestation'[n], attested', acted')
  BY <1>3, <1>8, <1>9 DEF Custody
<1>11. \A q \in Server : Held(call'[q]) => call[q].id # i0
  BY <1>1, <1>6 DEF Custody, i0
<1>12. \A q \in Server : Held(call'[q]) => Genuine(call'[q], attested', acted')
  BY <1>6, <1>8, <1>11 DEF Custody
<1> QED
  BY <1>3, <1>6, <1>7, <1>10, <1>12 DEF Custody

\* A connection keeps whose call it is and what it holds.
LEMMA ConnectKeeps ==
  ASSUME TypeOK, NEW p \in Server, Connect(p)
  PROVE  \A q \in Server : Held(call'[q]) =>
            /\ Held(call[q]) /\ call'[q].id = call[q].id
            /\ call'[q].session = call[q].session /\ call'[q].act = call[q].act
<1>1. CASE At(p, "received") /\ call' = [call EXCEPT ![p].stage = "connected"]
  <2>1. call[p] = [nonce |-> call[p].nonce, act |-> call[p].act, now |-> call[p].now,
                   stage |-> call[p].stage]
    BY <1>1, CallFields DEF At
  <2>2. [call[p] EXCEPT !.stage = "connected"].stage = "connected"
    BY <2>1
  <2>3. ~Held(call'[p]) /\ \A q \in Server \ {p} : call'[q] = call[q]
    BY <1>1, <2>2 DEF Held, TypeOK
  <2> QED
    BY <2>3
<1>2. CASE At(p, "attested") /\ call' = [call EXCEPT ![p].stage = "running"]
  <2> DEFINE c == [id |-> call[p].id, session |-> call[p].session, act |-> call[p].act,
                   stage |-> "running"]
  <2>1. call[p] = [id |-> call[p].id, session |-> call[p].session, act |-> call[p].act,
                   stage |-> call[p].stage]
    BY <1>2, CallFields DEF At
  <2>2. [call[p] EXCEPT !.stage = "running"] = c
    BY <2>1
  <2>3. call'[p] = c /\ \A q \in Server \ {p} : call'[q] = call[q]
    BY <1>2, <2>2 DEF TypeOK
  <2>4. Held(call[p])
    BY <1>2 DEF At, Held
  <2> QED
    BY <2>3, <2>4
<1> QED
  BY <1>1, <1>2 DEF Connect

\* Every step keeps custody, and that acts are attested.
LEMMA CustodyStep ==
  TypeOK /\ HooksAreOld /\ Custody /\ ActsAreAttested /\ [Next]_vars => Custody' /\ ActsAreAttested'
<1> SUFFICES ASSUME TypeOK, HooksAreOld, Custody, ActsAreAttested, [Next]_vars
             PROVE  Custody' /\ ActsAreAttested'
  OBVIOUS
<1> DEFINE Kept == \A p \in Server : Held(call'[p]) =>
                /\ Held(call[p]) /\ call'[p].id = call[p].id
                /\ call'[p].session = call[p].session /\ call'[p].act = call[p].act
           Steady == UNCHANGED <<attestation, attested, acted>>
<1>1. Kept /\ Steady => Custody' /\ ActsAreAttested'
  BY CustodyKept
<1>2. ASSUME NEW s \in Session, NEW n \in Nonce, NEW a \in Act, BeginHook(s, n, a)
      PROVE  Kept /\ Steady
  BY <1>2 DEF BeginHook, history
<1>3. ASSUME NEW s \in Session, EndHook(s) PROVE Kept /\ Steady
  BY <1>3 DEF EndHook, history
<1>4. ASSUME NEW p \in Server, NEW n \in Nonce, NEW a \in Act, ReceiveCall(p, n, a)
      PROVE  Kept /\ Steady
  BY <1>4 DEF ReceiveCall, history, Held, TypeOK
<1>5. ASSUME NEW p \in Server, Start(p) \/ Initialize(p) \/ NotifyInitialized(p)
      PROVE  Kept /\ Steady
  BY <1>5 DEF Start, Initialize, NotifyInitialized, history
<1>6. ASSUME NEW p \in Server, Connect(p) PROVE Kept /\ Steady
  BY <1>6, ConnectKeeps DEF Connect, history
<1>7. ASSUME NEW p \in Server, EndCall(p) \/ Stop(p) PROVE Kept /\ Steady
  BY <1>7 DEF EndCall, Stop, history, Held, TypeOK
<1>8. CASE Tick \/ UNCHANGED vars
  BY <1>8, <1>1 DEF Tick, vars, history
<1> HIDE DEF Kept, Steady
<1> QED
  BY <1>1, <1>2, <1>3, <1>4, <1>5, <1>6, <1>7, <1>8, StoreCustody, ConsumeCustody, RunCustody
     DEF Next

\* The clock never goes back.
LEMMA HookStep == TypeOK /\ HooksAreOld /\ [Next]_vars => HooksAreOld'
<1> SUFFICES ASSUME TypeOK, HooksAreOld, [Next]_vars,
                    NEW s \in Session, hook'[s] # None
             PROVE  hook'[s].now <= clock'
  BY DEF HooksAreOld
<1>1. clock \in Nat /\ hook \in [Session -> HookCall \cup {None}]
  BY DEF TypeOK
<1>2. hook[s] # None => hook[s].now <= clock /\ hook[s].now \in Nat
  BY HookFields DEF HooksAreOld
<1>3. ASSUME NEW t \in Session, NEW n \in Nonce, NEW a \in Act, BeginHook(t, n, a)
      PROVE  hook'[s].now <= clock'
  <2>1. clock' = clock /\ hook' = [hook EXCEPT ![t] = [nonce |-> n, act |-> a, now |-> clock]]
    BY <1>3 DEF BeginHook
  <2> QED
    BY <1>1, <1>2, <2>1
<1>4. ASSUME NEW t \in Session, StoreAttestation(t) \/ EndHook(t) PROVE hook'[s].now <= clock'
  <2>1. clock' = clock /\ hook' = [hook EXCEPT ![t] = None]
    BY <1>4 DEF StoreAttestation, EndHook
  <2> QED
    BY <1>1, <1>2, <2>1
<1>5. CASE Tick
  <2>1. clock' = clock + 1 /\ hook' = hook
    BY <1>5 DEF Tick
  <2> QED
    BY <1>1, <1>2, <2>1
<1>6. CASE UNCHANGED <<hook, clock>>
  BY <1>2, <1>6
<1>7. ASSUME NEW p \in Server,
             \/ \E n \in Nonce, a \in Act : ReceiveCall(p, n, a)
             \/ Start(p) \/ Initialize(p) \/ NotifyInitialized(p) \/ Connect(p)
             \/ ConsumeAttestation(p) \/ RunTool(p) \/ EndCall(p) \/ Stop(p)
      PROVE  UNCHANGED <<hook, clock>>
  BY <1>7 DEF ReceiveCall, Start, Initialize, NotifyInitialized, Connect,
              ConsumeAttestation, RunTool, EndCall, Stop
<1>8. CASE UNCHANGED vars
  BY <1>6, <1>8 DEF vars
<1> QED
  BY <1>3, <1>4, <1>5, <1>6, <1>7, <1>8 DEF Next

-----------------------------------------------------------------------------
\* Migrations are only added, and a server that has acted late gets no connection.
LEMMA LateKept ==
  ASSUME LateAreClosed, late' = late, applied \subseteq applied',
         \A p \in Server : At(p, "running")' => At(p, "running") \/ Opens(p)
  PROVE  LateAreClosed'
<1>1. \A p \in Server : ~Opens(p) => ~Opens(p)'
  BY DEF Opens, Knows
<1> QED
  BY <1>1 DEF LateAreClosed

LEMMA LateStep == TypeOK /\ LateAreClosed /\ [Next]_vars => LateAreClosed'
<1> SUFFICES ASSUME TypeOK, LateAreClosed, [Next]_vars PROVE LateAreClosed'
  OBVIOUS
<1> DEFINE Kept == /\ late' = late
                   /\ applied \subseteq applied'
                   /\ \A p \in Server : At(p, "running")' => At(p, "running") \/ Opens(p)
<1>1. Kept => LateAreClosed'
  BY LateKept
<1>2. ASSUME NEW s \in Session, NEW n \in Nonce, NEW a \in Act, BeginHook(s, n, a) PROVE Kept
  BY <1>2 DEF BeginHook, At, history
<1>3. ASSUME NEW s \in Session, StoreAttestation(s) \/ EndHook(s) PROVE Kept
  BY <1>3 DEF StoreAttestation, EndHook, At, history
<1>4. ASSUME NEW p \in Server, NEW n \in Nonce, NEW a \in Act, ReceiveCall(p, n, a) PROVE Kept
  BY <1>4 DEF ReceiveCall, At, history, TypeOK
<1>5. ASSUME NEW p \in Server, Start(p) \/ Initialize(p) \/ NotifyInitialized(p) PROVE Kept
  BY <1>5 DEF Start, Initialize, NotifyInitialized, Migrate, At, history
<1>6. ASSUME NEW p \in Server, Connect(p) PROVE Kept
  <2>1. \A q \in Server \ {p} : call'[q] = call[q]
    BY <1>6 DEF Connect, TypeOK
  <2>2. Opens(p) /\ late' = late /\ applied \subseteq applied'
    BY <1>6 DEF Connect, Migrate, history
  <2> QED
    BY <2>1, <2>2 DEF At
<1>7. ASSUME NEW p \in Server, ConsumeAttestation(p) PROVE Kept
  <2> DEFINE row == attestation[call[p].nonce]
             c == [id |-> row.id, session |-> row.session, act |-> call[p].act, stage |-> "attested"]
  <2>1. call' = [call EXCEPT ![p] = c] /\ UNCHANGED <<applied, late>>
    BY <1>7 DEF ConsumeAttestation, history
  <2>2. c.stage # "running"
    OBVIOUS
  <2> HIDE DEF c
  <2> QED
    BY <2>1, <2>2 DEF At, TypeOK
<1>8. ASSUME NEW p \in Server, EndCall(p) \/ Stop(p) PROVE Kept
  BY <1>8 DEF EndCall, Stop, At, history, TypeOK
<1>9. CASE Tick \/ UNCHANGED vars
  BY <1>9, <1>1 DEF Tick, vars, At, history
<1>10. ASSUME NEW p \in Server, RunTool(p) PROVE LateAreClosed'
  <2>1. late[p] # 1 /\ late[p] <= 1 /\ late[p] \in Nat
    BY <1>10 DEF RunTool, LateAreClosed, TypeOK
  <2>2. late[p] = 0
    BY <2>1
  <2>3. /\ late' = [late EXCEPT ![p] = IF Opens(p) THEN @ ELSE @ + 1]
        /\ call' = [call EXCEPT ![p] = None]
        /\ applied' = applied
    BY <1>10 DEF RunTool, Opens
  <2>4. \A q \in Server : Opens(q)' = Opens(q)
    BY <2>3 DEF Opens, Knows
  <2>5. late'[p] <= 1 /\ (late'[p] = 1 => ~Opens(p)) /\ ~At(p, "running")'
    BY <2>2, <2>3 DEF TypeOK, At
  <2>6. \A q \in Server \ {p} : late'[q] = late[q] /\ call'[q] = call[q]
    BY <2>3 DEF TypeOK
  <2> QED
    BY <2>4, <2>5, <2>6 DEF LateAreClosed, At
<1> HIDE DEF Kept
<1> QED
  BY <1>1, <1>2, <1>3, <1>4, <1>5, <1>6, <1>7, <1>8, <1>9, <1>10 DEF Next

\* Every step keeps the inductive invariant.
LEMMA IInvStep == IInv /\ [Next]_vars => IInv'
  BY TypeStep, CustodyStep, HookStep, LateStep DEF IInv

LEMMA IInvAlways == Spec => []IInv
  BY InitIInv, IInvStep, PTL DEF Spec

-----------------------------------------------------------------------------
(* The theorems. *)

\* Rows, calls and histories keep their types; no attestation outlives its time.
THEOREM TypeCorrect == Spec => []TypeOK
<1>1. IInv => TypeOK
  BY DEF IInv
<1> QED
  BY IInvAlways, <1>1, PTL

\* At most one act is done with an attestation, the one it was stored for and
\* for the chat it was stored for (mcp_server.py, chat_attestation.py).
THEOREM EveryActIsAttested == Spec => []ActsAreAttested
<1>1. IInv => ActsAreAttested
  BY DEF IInv
<1> QED
  BY IInvAlways, <1>1, PTL

\* After an upgrade a server of the old version acts once more at most (db.py).
THEOREM OldServersActOnce == Spec => []OldServersStop
<1>1. IInv => OldServersStop
  BY DEF IInv, LateAreClosed, OldServersStop
<1> QED
  BY IInvAlways, <1>1, PTL

\* Until it expires only its own call removes an attestation: hooks purge by a
\* time they read before their transaction, which is not ahead of the clock.
THEOREM UsableUntilUsed == Spec => AttestationStaysUsable
<1> DEFINE Taken(n) ==
            /\ attestation'[n] = None
            /\ \E p \in Server :
                /\ At(p, "connected") /\ call[p].nonce = n /\ call[p].act = attestation[n].act
                /\ At(p, "attested")' /\ call'[p].id = attestation[n].id
<1>1. ASSUME IInv, [Next]_vars, NEW n \in Nonce,
             attestation[n] # None, attestation[n].expires > clock,
             attestation'[n] # attestation[n]
      PROVE  Taken(n)
  <2>1. attestation[n].expires \in Nat /\ clock \in Nat
    <3>1. TypeOK
      BY <1>1 DEF IInv
    <3>2. attestation[n].expires \in Nat
      BY <1>1, <3>1, RowFields
    <3>3. clock \in Nat
      BY <3>1 DEF TypeOK
    <3> QED
      BY <3>2, <3>3
  <2>2. ASSUME NEW s \in Session, StoreAttestation(s) PROVE FALSE
    <3>1. attestation[n].expires <= clock
      BY <1>1, <2>2, StoreRows DEF IInv
    <3> QED
      BY <1>1, <2>1, <3>1
  <2>3. ASSUME NEW p \in Server, ConsumeAttestation(p) PROVE Taken(n)
    <3> DEFINE row == attestation[call[p].nonce]
               c == [id |-> row.id, session |-> row.session, act |-> call[p].act,
                     stage |-> "attested"]
    <3>1. call[p].nonce \in Nonce
      BY <1>1, <2>3, CallFields DEF ConsumeAttestation, At, IInv
    <3>2. attestation' = [attestation EXCEPT ![call[p].nonce] = None]
      BY <2>3 DEF ConsumeAttestation, Consumed
    <3>3. call[p].nonce = n /\ attestation'[n] = None
      BY <1>1, <3>1, <3>2 DEF IInv, TypeOK
    <3>4. At(p, "connected") /\ call[p].act = attestation[n].act
      BY <2>3, <3>3 DEF ConsumeAttestation, IsAttested
    <3>5. call' = [call EXCEPT ![p] = c]
      BY <2>3 DEF ConsumeAttestation
    <3>6. c.stage = "attested" /\ c.id = attestation[n].id
      BY <3>3
    <3>7. c # None
      <4>1. c \in Call
        BY <1>1, <3>1, <3>3, <3>4, RowFields DEF IInv, Call
      <4> QED
        BY <4>1
    <3> HIDE DEF c
    <3>8. call'[p] = c
      BY <1>1, <3>5 DEF IInv, TypeOK
    <3> QED
      BY <3>3, <3>4, <3>6, <3>7, <3>8 DEF At
  <2>4. CASE attestation' = attestation
    BY <1>1, <2>4
  <2>5. ASSUME \/ \E s \in Session, m \in Nonce, a \in Act : BeginHook(s, m, a)
               \/ \E s \in Session : EndHook(s)
               \/ \E p \in Server, m \in Nonce, a \in Act : ReceiveCall(p, m, a)
               \/ \E p \in Server :
                    \/ Start(p) \/ Initialize(p) \/ NotifyInitialized(p) \/ Connect(p)
                    \/ RunTool(p) \/ EndCall(p) \/ Stop(p)
               \/ Tick
               \/ UNCHANGED vars
        PROVE  attestation' = attestation
    BY <2>5 DEF BeginHook, EndHook, ReceiveCall, Start, Initialize, NotifyInitialized,
                Connect, RunTool, EndCall, Stop, Tick, vars
  <2> HIDE DEF Taken
  <2> QED
    BY <1>1, <2>2, <2>3, <2>4, <2>5 DEF Next
<1>2. IInv /\ [Next]_vars => [\A n \in Nonce :
        /\ attestation[n] # None
        /\ attestation[n].expires > clock
        /\ attestation'[n] # attestation[n]
        => Taken(n)]_vars
  BY <1>1
<1> QED
  BY IInvAlways, <1>2, PTL DEF Spec, AttestationStaysUsable
=============================================================================
