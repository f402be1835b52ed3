-------------------------- MODULE Extension_proofs --------------------------
(***************************************************************************)
(* Proofs about the editor extension: the panel of one window, for every number*)
(* of scans, folders, requests and refreshes, and the integration that its  *)
(* windows install, for every number of windows and versions.               *)
(*                                                                          *)
(* That the page at rest is current needs the order in which refreshes start,*)
(* read and render, and which of them the action under way still owes.  That*)
(* the installations share one key, that a runtime stays and that a success *)
(* lasts needs the locks, and what each window has behind it at each of its *)
(* steps.                                                                   *)
(***************************************************************************)
EXTENDS SetupView, Integration, TLAPS

-----------------------------------------------------------------------------
(* The panel. *)

\* The time of a row's last change is that of a call that committed it then or
\* later, and at most one request of a scan is open.
RequestsOK ==
    /\ \A i \in Request : db.recovery[i] # None =>
        db.recovery[i].updated <= db.recovery[i].changed
    /\ \A i, j \in Request :
        IsOpen(i) /\ IsOpen(j) /\ db.recovery[i].scan = db.recovery[j].scan => i = j

\* The findings a refresh has read are of scans that are complete by now.
HalfwayIsComplete ==
    \A r \in Refresh : Active(r) /\ refresh[r].stage = "halfway" =>
        /\ refresh[r].read \in Projection({None})
        /\ \A s \in refresh[r].read.findings : db.status[s] = "complete"

\* An action has looked at the folders and names only tickets that were good.
JobOK ==
    job # None =>
        /\ job.reply \subseteq job.good
        /\ job.message # None => job.message.command \notin LocalCommand
        /\ job.stage \in {"asking", "calling", "copying"} =>
            /\ job.message # None
            /\ job.message.command \in SourceCommand => Home[job.message.scan] \in job.folders

\* The panel's own refresh is the end of an action.
OwnEndsAction == Active(Own) <=> job # None /\ job.stage = "refreshing"

\* The refreshes under way have numbers of their own, and the newest one has
\* rendered when nothing else has started since.
NumbersOK ==
    /\ order.rendered <= order.started /\ order.answered <= order.started
    /\ (\A r \in Refresh : ~Active(r)) => order.started = 0
    /\ \A r \in Refresh : Active(r) => refresh[r].number \in 1..order.started
    /\ \A q, r \in Refresh : Active(q) /\ Active(r) /\ refresh[q].number = refresh[r].number => q = r
    /\ order.rendered < order.started <=>
        \E r \in Refresh : Active(r) /\ refresh[r].number = order.started

\* The panel owes a refresh of its own to the action under way.
Owes == job # None /\ job.stage # "refreshing"
\* What a projection does not tell is told by the refresh that is owed.
Recent(d) == d = None \/ d.asOf = mine \/ Owes

\* As long as no refresh was overtaken, the newest one has read, received and
\* rendered what is current.
NewestIsCurrent ==
    ~order.overtaken =>
        /\ order.rendered = order.started /\ shown # None =>
            shown.roots = folders /\ Recent(shown.dashboard)
        /\ order.rendered < order.started /\ order.answered = order.started => Recent(dashboard)
        /\ \A r \in Refresh : Active(r) /\ refresh[r].number = order.started =>
            /\ refresh[r].stage = "halfway" => refresh[r].read.asOf = mine \/ Owes
            /\ refresh[r].stage = "rendering" =>
                refresh[r].roots = folders /\ order.answered = order.started

ViewIInv ==
    /\ ViewTypeOK
    /\ RequestsOK
    /\ HalfwayIsComplete
    /\ FindingsAreOfCompleteScans
    /\ JobOK
    /\ OwnEndsAction
    /\ NumbersOK
    /\ NewestIsCurrent


-----------------------------------------------------------------------------
(* The workbench. *)

\* What a message names.
LEMMA MessageFields ==
  ASSUME NEW m \in Message
  PROVE  /\ m.command \notin LocalCommand => m.scan \in Scan
         /\ m.command = "cancelRecovery" => m.request \in Request
         /\ m.command \in SourceCommand \cup VisibleCommand \cup LocalCommand
  BY DEF Message, LocalCommand, SourceCommand, VisibleCommand

\* None is nothing that is there.
LEMMA ViewedAreThere ==
  /\ \A x \in Request \cup Scan \cup RecoveryRow : x # None
  /\ \A x \in Dashboard \cup Page : x # None
  /\ \A x \in Message \cup JobState \cup RefreshState : x # None
  BY ViewNoneAssumption

\* What the row of a request consists of.
LEMMA RecoveryFields ==
  ASSUME db \in Workbench, NEW i \in Request, db.recovery[i] # None
  PROVE  /\ db.recovery[i] \in RecoveryRow /\ db.recovery[i].scan \in Scan
         /\ db.recovery[i].version \in 1..MaxVersion
         /\ db.recovery[i].status \in {"pending", "claimed", "canceled", "delivered"}
         /\ db.recovery[i].updated \in Nat /\ db.recovery[i].changed \in Nat
         /\ db.recovery[i].created \in Nat
  BY DEF Workbench, RecoveryRow

Clock == time \in [now : Nat, taken : SUBSET Nat]

LEMMA NowAtIs ==
  ASSUME Clock, NEW at \in Nat
  PROVE  NowAt(at) \in Nat /\ at <= NowAt(at)
<1>1. time.now \in Nat
  BY DEF Clock
<1> QED
  BY <1>1 DEF NowAt

\* The workbench changes in three ways: requests stay, or one is created for a scan
\* that has none open, or one moves on that is open or is being canceled.  Who moves
\* an open one on has begun after its last change.
Elsewise == db'.recovery = db.recovery
Asked == \E s \in Scan, i \in Request, at \in Nat :
    /\ OpenFor(s) = {} /\ db.recovery[i] = None
    /\ db' = [db EXCEPT !.recovery[i] = NewRequest(s, at, NowAt(at))]
Moved == \E i \in Request, to \in {"pending", "claimed", "canceled", "delivered"}, at \in Nat :
    /\ db.recovery[i] # None /\ db.recovery[i].status # "delivered"
    /\ to # "canceled" => IsOpen(i) /\ at > db.recovery[i].changed
    /\ Moves(i, to, at)

\* Completion is for ever, and the types are kept.
Kept == /\ db' \in Workbench
        /\ \A s \in Scan : db.status[s] = "complete" => db'.status[s] = "complete"

\* What a new request consists of, and what one becomes that moves on.
LEMMA NewRequestIs ==
  ASSUME Clock, NEW s \in Scan, NEW at \in Nat
  PROVE  LET row == NewRequest(s, at, NowAt(at)) IN
         /\ row \in RecoveryRow /\ row # None /\ row.scan = s /\ row.status = "pending"
         /\ row.updated = at /\ row.updated <= row.changed
<1>1. NowAt(at) \in Nat /\ at <= NowAt(at)
  BY NowAtIs
<1>2. NewRequest(s, at, NowAt(at)) \in RecoveryRow
  BY <1>1, ViewBoundAssumption DEF NewRequest, RecoveryRow
<1> QED
  BY <1>1, <1>2, ViewedAreThere DEF NewRequest

MovedRow(i, to, at) ==
    [scan |-> db.recovery[i].scan, status |-> to, version |-> db.recovery[i].version + 1,
     updated |-> at, changed |-> NowAt(at), created |-> db.recovery[i].created]

LEMMA MovedRowIs ==
  ASSUME db \in Workbench, Clock, NEW i \in Request, db.recovery[i] # None, NEW at \in Nat,
         NEW to \in {"pending", "claimed", "canceled", "delivered"}, Moves(i, to, at)
  PROVE  LET row == MovedRow(i, to, at) IN
         /\ row \in RecoveryRow /\ row # None /\ row.scan = db.recovery[i].scan
         /\ row.status = to /\ row.updated = at /\ row.updated <= row.changed
         /\ db' = [db EXCEPT !.recovery[i] = row]
<1>1. NowAt(at) \in Nat /\ at <= NowAt(at)
  BY NowAtIs
<1>2. /\ db.recovery[i].scan \in Scan /\ db.recovery[i].version + 1 \in 1..MaxVersion
      /\ db.recovery[i].created \in Nat
  BY RecoveryFields, ViewBoundAssumption DEF Moves
<1>3. MovedRow(i, to, at) \in RecoveryRow
  BY <1>1, <1>2 DEF MovedRow, RecoveryRow
<1>4. db' = [db EXCEPT !.recovery[i] = MovedRow(i, to, at)]
  BY DEF Moves, MovedRow
<1> QED
  BY <1>1, <1>3, <1>4, ViewedAreThere DEF MovedRow

\* One row is replaced.
LEMMA RowStep ==
  ASSUME db \in Workbench, NEW i \in Request, NEW row \in RecoveryRow,
         db' = [db EXCEPT !.recovery[i] = row]
  PROVE  /\ Kept /\ db'.recovery[i] = row
         /\ \A j \in Request \ {i} : db'.recovery[j] = db.recovery[j]
<1>1. db.recovery \in [Request -> {None} \cup RecoveryRow]
  BY DEF Workbench
<1> DEFINE rows == [db.recovery EXCEPT ![i] = row]
<1>2. /\ rows \in [Request -> {None} \cup RecoveryRow] /\ rows[i] = row
      /\ \A j \in Request \ {i} : rows[j] = db.recovery[j]
  BY <1>1
<1>3. db' = [db EXCEPT !.recovery = rows]
  OBVIOUS
<1> HIDE DEF rows
<1>4. db' \in Workbench /\ db'.recovery = rows /\ db'.status = db.status
  BY <1>2, <1>3 DEF Workbench
<1> QED
  BY <1>2, <1>4 DEF Kept

\* What a created request, and one that moves on, change.
LEMMA AskedIs ==
  ASSUME db \in Workbench, Clock, Asked
  PROVE  /\ Kept
         /\ \E s \in Scan, i \in Request :
            /\ OpenFor(s) = {} /\ db.recovery[i] = None
            /\ db'.recovery[i] # None /\ db'.recovery[i].scan = s
            /\ db'.recovery[i].updated <= db'.recovery[i].changed
            /\ \A j \in Request \ {i} : db'.recovery[j] = db.recovery[j]
<1>1. PICK s \in Scan, i \in Request, at \in Nat :
        /\ OpenFor(s) = {} /\ db.recovery[i] = None
        /\ db' = [db EXCEPT !.recovery[i] = NewRequest(s, at, NowAt(at))]
  BY DEF Asked
<1> DEFINE row == NewRequest(s, at, NowAt(at))
<1>2. row \in RecoveryRow /\ row # None /\ row.scan = s /\ row.updated <= row.changed
  BY NewRequestIs
<1>3. db' = [db EXCEPT !.recovery[i] = row]
  BY <1>1
<1> HIDE DEF row
<1>4. /\ Kept /\ db'.recovery[i] = row
      /\ \A j \in Request \ {i} : db'.recovery[j] = db.recovery[j]
  BY <1>2, <1>3, RowStep
<1> QED
  BY <1>1, <1>2, <1>4

LEMMA MovedIs ==
  ASSUME db \in Workbench, Clock, Moved
  PROVE  /\ Kept
         /\ \E i \in Request, to \in {"pending", "claimed", "canceled", "delivered"} :
            /\ db.recovery[i] # None /\ db.recovery[i].status # "delivered"
            /\ to # "canceled" =>
                IsOpen(i) /\ db'.recovery[i].updated > db.recovery[i].changed
            /\ db'.recovery[i] # None /\ db'.recovery[i].status = to
            /\ db'.recovery[i].scan = db.recovery[i].scan
            /\ db'.recovery[i].updated <= db'.recovery[i].changed
            /\ \A j \in Request \ {i} : db'.recovery[j] = db.recovery[j]
<1>1. PICK i \in Request, to \in {"pending", "claimed", "canceled", "delivered"}, at \in Nat :
        /\ db.recovery[i] # None /\ db.recovery[i].status # "delivered"
        /\ to # "canceled" => IsOpen(i) /\ at > db.recovery[i].changed
        /\ Moves(i, to, at)
  BY DEF Moved
<1> DEFINE row == MovedRow(i, to, at)
<1>2. /\ row \in RecoveryRow /\ row # None /\ row.scan = db.recovery[i].scan
      /\ row.status = to /\ row.updated = at /\ row.updated <= row.changed
      /\ db' = [db EXCEPT !.recovery[i] = row]
  BY <1>1, MovedRowIs
<1> HIDE DEF row
<1>3. /\ Kept /\ db'.recovery[i] = row
      /\ \A j \in Request \ {i} : db'.recovery[j] = db.recovery[j]
  BY <1>2, RowStep
<1> QED
  BY <1>1, <1>2, <1>3

\* Each transaction is one of these.
LEMMA CarriesSo ==
  ASSUME db \in Workbench, Clock, NEW m \in Message, NEW at, Carries(m, at),
         m.command \in RecoveryCommand => at \in Nat
  PROVE  Kept /\ (Elsewise \/ Asked \/ Moved)
<1>1. CASE UNCHANGED db
  BY <1>1 DEF Kept, Elsewise
<1>2. ASSUME NEW s \in Scan, at \in Nat, CreateRecovery(s, at) PROVE UNCHANGED db \/ Asked
  BY <1>2 DEF CreateRecovery, Creates, Asked
<1>3. ASSUME NEW i \in Request, at \in Nat, CancelRecovery(i, at) PROVE Moved
  BY <1>3 DEF CancelRecovery, Moved
<1>4. ASSUME NEW s \in Scan, RequestRemediation(s) PROVE Kept /\ Elsewise
  <2> DEFINE row == [version |-> db.remedy[s].version + 1, state |-> "pending"]
  <2>1. row \in Row
    BY <1>4, ViewBoundAssumption DEF RequestRemediation, Workbench, Row
  <2>2. db' = [db EXCEPT !.remedy[s] = row]
    BY <1>4 DEF RequestRemediation
  <2> QED
    BY <2>1, <2>2 DEF Workbench, Kept, Elsewise
<1>5. ASSUME NEW s \in Scan, NEW command, SetTriage(s, command) PROVE Kept /\ Elsewise
  <2>1. db' = [db EXCEPT !.closed = @ \cup {s}] \/ db' = [db EXCEPT !.closed = @ \ {s}]
    BY <1>5 DEF SetTriage
  <2> QED
    BY <2>1 DEF Workbench, Kept, Elsewise
<1>6. ASSUME NEW s \in Scan, CreateTracking(s) PROVE Kept /\ Elsewise
  <2> DEFINE row == [version |-> db.tracking[s].version + 1, state |-> "pending"]
  <2>1. CASE db.tracking[s].state # "pending"
    <3>1. row \in Row
      BY <1>6, <2>1, ViewBoundAssumption DEF CreateTracking, Workbench, Row
    <3>2. db' = [db EXCEPT !.tracking[s] = row]
      BY <1>6, <2>1 DEF CreateTracking
    <3> QED
      BY <3>1, <3>2 DEF Workbench, Kept, Elsewise
  <2>2. CASE db.tracking[s].state = "pending"
    BY <1>6, <2>2 DEF CreateTracking, Kept, Elsewise
  <2> QED
    BY <2>1, <2>2
<1>7. \/ at \in Nat /\ \E s \in Scan : CreateRecovery(s, at)
      \/ \E s \in Scan : \/ RequestRemediation(s) \/ SetTriage(s, m.command)
                         \/ CreateTracking(s)
      \/ at \in Nat /\ \E i \in Request : CancelRecovery(i, at)
      \/ UNCHANGED db
  BY MessageFields DEF Carries, SetTriage, LocalCommand, RecoveryCommand
<1> QED
  BY <1>1, <1>2, <1>3, <1>4, <1>5, <1>6, <1>7, AskedIs, MovedIs

LEMMA OthersDoSo ==
  ASSUME db \in Workbench, Clock,
         \/ \E s \in Scan : Completes(s) \/ Remedies(s)
         \/ \E i \in Request, at \in Nat : HandsOver(i, at)
  PROVE  Kept /\ (Elsewise \/ Asked \/ Moved)
<1>1. ASSUME NEW s \in Scan, Completes(s) PROVE Kept /\ Elsewise
  BY <1>1 DEF Completes, Workbench, Status, Kept, Elsewise
<1>2. ASSUME NEW s \in Scan, Remedies(s) PROVE Kept /\ Elsewise
  <2>1. PICK row \in WorksOn(db.remedy[s]) : db' = [db EXCEPT !.remedy[s] = row]
    BY <1>2 DEF Remedies
  <2>2. row \in Row
    BY <1>2, <2>1, ViewBoundAssumption DEF Remedies, WorksOn, Workbench, Row
  <2> QED
    BY <2>1, <2>2 DEF Workbench, Kept, Elsewise
<1>3. ASSUME NEW i \in Request, NEW at \in Nat, HandsOver(i, at) PROVE Moved
  BY <1>3 DEF HandsOver, Moved, IsOpen
<1> QED
  BY <1>1, <1>2, <1>3, MovedIs

\* At most one request of a scan is open: another is created only when none is, and
\* none opens again.
LEMMA RequestsStep ==
  ASSUME db \in Workbench, Clock, RequestsOK, UNCHANGED db \/ Elsewise \/ Asked \/ Moved
  PROVE  RequestsOK'
<1>1. CASE UNCHANGED db \/ Elsewise
  BY <1>1 DEF Elsewise, RequestsOK, IsOpen
<1>2. CASE Asked
  <2>1. PICK s \in Scan, i \in Request :
            /\ OpenFor(s) = {} /\ db.recovery[i] = None
            /\ db'.recovery[i] # None /\ db'.recovery[i].scan = s
            /\ db'.recovery[i].updated <= db'.recovery[i].changed
            /\ \A j \in Request \ {i} : db'.recovery[j] = db.recovery[j]
    BY <1>2, AskedIs
  <2>2. \A j \in Request : db'.recovery[j] # None =>
            db'.recovery[j].updated <= db'.recovery[j].changed
    BY <2>1 DEF RequestsOK
  <2>3. \A j \in Request \ {i} : IsOpen(j)' = IsOpen(j)
    BY <2>1 DEF IsOpen
  <2>4. \A j \in Request \ {i} : IsOpen(j) => db'.recovery[j].scan # s
    BY <2>1 DEF OpenFor
  <2>5. \A j, k \in Request :
            IsOpen(j)' /\ IsOpen(k)' /\ db'.recovery[j].scan = db'.recovery[k].scan => j = k
    BY <2>1, <2>3, <2>4 DEF RequestsOK
  <2> QED
    BY <2>2, <2>5 DEF RequestsOK
<1>3. CASE Moved
  <2>1. PICK i \in Request, to \in {"pending", "claimed", "canceled", "delivered"} :
            /\ db.recovery[i] # None
            /\ to # "canceled" => IsOpen(i)
            /\ db'.recovery[i] # None /\ db'.recovery[i].status = to
            /\ db'.recovery[i].scan = db.recovery[i].scan
            /\ db'.recovery[i].updated <= db'.recovery[i].changed
            /\ \A j \in Request \ {i} : db'.recovery[j] = db.recovery[j]
    BY <1>3, MovedIs
  <2>2. \A j \in Request : db'.recovery[j] # None =>
            db'.recovery[j].updated <= db'.recovery[j].changed
    BY <2>1 DEF RequestsOK
  <2>3. \A j \in Request : (IsOpen(j)' => IsOpen(j)) /\ (db'.recovery[j] # None => db'.recovery[j].scan = db.recovery[j].scan)
    BY <2>1 DEF IsOpen
  <2>4. \A j, k \in Request :
            IsOpen(j)' /\ IsOpen(k)' /\ db'.recovery[j].scan = db'.recovery[k].scan => j = k
    BY <2>3 DEF RequestsOK, IsOpen
  <2> QED
    BY <2>2, <2>4 DEF RequestsOK
<1> QED
  BY <1>1, <1>2, <1>3

\* An older request gets ahead of one that is open only when it is canceled once
\* more, or when the open one comes into being behind it.
GetsAhead(j, i) ==
    \/ /\ db.recovery[j] # None
       /\ db.recovery[j].status = "canceled" /\ db'.recovery[j].status = "canceled"
    \/ /\ db.recovery[i] = None /\ db.recovery[j] # None
       /\ db'.recovery[i].updated <= db.recovery[j].changed

LEMMA LatestStep ==
  ASSUME db \in Workbench, Clock, RequestsOK, Kept, UNCHANGED db \/ Elsewise \/ Asked \/ Moved,
         NEW i \in Request, NEW j \in Request,
         IsOpen(i)', IsLater(j, i)', ~(IsOpen(i) /\ IsLater(j, i))
  PROVE  GetsAhead(j, i)
<1>1. /\ db'.recovery[i] # None /\ db'.recovery[j] # None
      /\ db'.recovery[i].status \in {"pending", "claimed"}
      /\ db'.recovery[j].scan = db'.recovery[i].scan
      /\ db'.recovery[j].updated > db'.recovery[i].updated
  BY DEF IsOpen, IsLater
<1>2. db'.recovery[i].updated \in Nat /\ db'.recovery[j].updated \in Nat
  <2>1. db'.recovery \in [Request -> {None} \cup RecoveryRow]
    BY DEF Kept, Workbench
  <2>2. db'.recovery[i] \in RecoveryRow /\ db'.recovery[j] \in RecoveryRow
    BY <1>1, <2>1
  <2> QED
    BY <2>2 DEF RecoveryRow
<1>3. j # i
  BY <1>1, <1>2
<1>4. ~(db'.recovery[i] = db.recovery[i] /\ db'.recovery[j] = db.recovery[j])
  BY DEF IsOpen, IsLater
<1>5. CASE UNCHANGED db \/ Elsewise
  BY <1>4, <1>5 DEF Elsewise
<1>6. CASE Asked
  <2>1. PICK s \in Scan, k \in Request :
            /\ OpenFor(s) = {} /\ db.recovery[k] = None
            /\ db'.recovery[k].scan = s
            /\ \A l \in Request \ {k} : db'.recovery[l] = db.recovery[l]
    BY <1>6, AskedIs
  <2>2. CASE k = i
    <3>1. db'.recovery[j] = db.recovery[j] /\ db.recovery[j] # None /\ db.recovery[i] = None
      BY <1>1, <1>3, <2>1, <2>2
    <3>2. db.recovery[j].updated <= db.recovery[j].changed /\ db.recovery[j].changed \in Nat
      BY <3>1, RecoveryFields DEF RequestsOK
    <3> QED
      BY <1>1, <1>2, <3>1, <3>2 DEF GetsAhead
  <2>3. CASE k = j
    <3>1. db'.recovery[i] = db.recovery[i] /\ db.recovery[i].scan = s
      BY <1>1, <1>3, <2>1, <2>3
    <3>2. IsOpen(i)
      BY <1>1, <3>1 DEF IsOpen
    <3> QED
      BY <2>1, <3>1, <3>2 DEF OpenFor
  <2>4. CASE k # i /\ k # j
    BY <1>4, <2>1, <2>4
  <2> QED
    BY <2>2, <2>3, <2>4
<1>7. CASE Moved
  <2>1. PICK k \in Request, to \in {"pending", "claimed", "canceled", "delivered"} :
            /\ db.recovery[k] # None /\ db.recovery[k].status # "delivered"
            /\ to # "canceled" =>
                IsOpen(k) /\ db'.recovery[k].updated > db.recovery[k].changed
            /\ db'.recovery[k].status = to
            /\ db'.recovery[k].scan = db.recovery[k].scan
            /\ \A l \in Request \ {k} : db'.recovery[l] = db.recovery[l]
    BY <1>7, MovedIs
  <2>2. CASE k = i
    <3>1. /\ IsOpen(i) /\ db'.recovery[i].updated > db.recovery[i].changed
          /\ db'.recovery[j] = db.recovery[j] /\ db.recovery[i] # None
          /\ db'.recovery[i].scan = db.recovery[i].scan
      BY <1>1, <1>3, <2>1, <2>2
    <3>2. /\ db.recovery[i].updated <= db.recovery[i].changed
          /\ db.recovery[i].updated \in Nat /\ db.recovery[i].changed \in Nat
      BY <3>1, RecoveryFields DEF RequestsOK
    <3>3. db.recovery[j].updated > db.recovery[i].updated
      BY <1>1, <1>2, <3>1, <3>2
    <3>4. IsLater(j, i)
      BY <1>1, <3>1, <3>3 DEF IsLater
    <3> QED
      BY <3>1, <3>4
  <2>3. CASE k = j
    <3>1. db'.recovery[i] = db.recovery[i] /\ db.recovery[i].scan = db.recovery[j].scan
      BY <1>1, <1>3, <2>1, <2>3
    <3>2. IsOpen(i)
      BY <1>1, <3>1 DEF IsOpen
    <3>3. ~IsOpen(j)
      BY <1>3, <3>1, <3>2 DEF RequestsOK
    <3>4. db.recovery[j].status = "canceled"
      BY <2>1, <2>3, <3>3, RecoveryFields DEF IsOpen
    <3> QED
      BY <2>1, <2>3, <3>3, <3>4 DEF GetsAhead
  <2>4. CASE k # i /\ k # j
    BY <1>4, <2>1, <2>4
  <2> QED
    BY <2>2, <2>3, <2>4
<1> QED
  BY <1>5, <1>6, <1>7

-----------------------------------------------------------------------------
(* Refreshes. *)

RefreshTypes ==
    /\ refresh \in [Refresh -> {None} \cup RefreshState]
    /\ order \in [started : Nat, answered : Nat, rendered : Nat, overtaken : BOOLEAN]

\* What a refresh under way consists of.
LEMMA RefreshFields ==
  ASSUME RefreshTypes, NEW r \in Refresh, Active(r)
  PROVE  /\ refresh[r] \in RefreshState
         /\ refresh[r].stage \in {"inspecting", "halfway", "rendering"} /\ refresh[r].number \in Nat
         /\ refresh[r].roots \subseteq Folder
  BY DEF RefreshTypes, Active, RefreshState

\* A refresh that is replaced by another state of it.
LEMMA RefreshBecomes ==
  ASSUME RefreshTypes, NEW r \in Refresh, NEW st \in RefreshState,
         refresh' = [refresh EXCEPT ![r] = st]
  PROVE  /\ refresh' \in [Refresh -> {None} \cup RefreshState]
         /\ refresh'[r] = st /\ Active(r)'
         /\ \A q \in Refresh \ {r} : refresh'[q] = refresh[q] /\ (Active(q)' <=> Active(q))
<1>1. refresh'[r] = st /\ \A q \in Refresh \ {r} : refresh'[q] = refresh[q]
  BY DEF RefreshTypes
<1>2. st # None
  BY ViewedAreThere
<1> QED
  BY <1>1, <1>2 DEF RefreshTypes, Active

\* A refresh that starts is the newest one.
LEMMA StartStep ==
  ASSUME RefreshTypes, NumbersOK, NEW r \in Refresh, ~Active(r), Starts(r)
  PROVE  /\ RefreshTypes' /\ NumbersOK' /\ NewestIsCurrent'
         /\ \A q \in Refresh : Active(q)' <=> Active(q) \/ q = r
         /\ refresh'[r].stage = "inspecting"
         /\ \A q \in Refresh \ {r} : refresh'[q] = refresh[q]
<1> DEFINE n == order.started + 1
           st == Started(n)
<1>0. order.started \in Nat /\ order.answered \in Nat /\ order.rendered \in Nat
  BY DEF RefreshTypes
<1>1. st \in RefreshState /\ st.stage = "inspecting" /\ st.number = n
  BY <1>0 DEF Started, RefreshState
<1>2. /\ refresh' \in [Refresh -> {None} \cup RefreshState]
      /\ refresh'[r] = st /\ Active(r)'
      /\ \A q \in Refresh \ {r} : refresh'[q] = refresh[q] /\ (Active(q)' <=> Active(q))
  BY <1>1, RefreshBecomes DEF Starts
<1>3. CASE \A q \in Refresh : ~Active(q)
  <2>1. order' = [started |-> 1, answered |-> 0, rendered |-> 0, overtaken |-> FALSE]
    BY <1>3 DEF Starts, Order
  <2>2. order.started = 0 /\ st.number = 1
    BY <1>1, <1>3 DEF NumbersOK
  <2>3. /\ order'.started = 1 /\ order'.answered = 0 /\ order'.rendered = 0
        /\ order' \in [started : Nat, answered : Nat, rendered : Nat, overtaken : BOOLEAN]
    BY <2>1
  <2>4. RefreshTypes'
    BY <1>2, <2>3 DEF RefreshTypes
  <2>5. NumbersOK'
    BY <1>2, <1>3, <2>2, <2>3 DEF NumbersOK
  <2>6. NewestIsCurrent'
    BY <1>1, <1>2, <1>3, <2>2, <2>3 DEF NewestIsCurrent
  <2> QED
    BY <1>1, <1>2, <2>4, <2>5, <2>6
<1>4. CASE ~\A q \in Refresh : ~Active(q)
  <2>1. order' = [order EXCEPT !.started = n]
    BY <1>4 DEF Starts
  <2>2. /\ order'.started = n /\ order'.answered = order.answered /\ order'.rendered = order.rendered
        /\ order' \in [started : Nat, answered : Nat, rendered : Nat, overtaken : BOOLEAN]
    BY <1>0, <2>1 DEF RefreshTypes
  <2>3. RefreshTypes'
    BY <1>2, <2>2 DEF RefreshTypes
  <2>4. \A q \in Refresh : Active(q) => refresh[q].number \in 1..order.started
    BY DEF NumbersOK
  <2>5. NumbersOK'
    BY <1>0, <1>1, <1>2, <2>2, <2>4 DEF NumbersOK
  <2>6. NewestIsCurrent'
    BY <1>0, <1>1, <1>2, <2>2, <2>4 DEF NumbersOK, NewestIsCurrent
  <2> QED
    BY <1>1, <1>2, <2>3, <2>5, <2>6
<1> QED
  BY <1>3, <1>4

\* What a dashboard's process reads first is of the right type.
LEMMA ReadsTypes ==
  ASSUME db \in Workbench, mine \in Nat
  PROVE  Reads(1, None) \in Projection({None}) /\ Reads(1, None).asOf = mine
<1> DEFINE findings == {s \in Scan : HasFinding(s)}
           recovery == [s \in Scan |-> LatestOf(s)]
<1>1. \A s \in Scan : LatestOf(s) \in {None} \cup Told
  <2> TAKE s \in Scan
  <2> DEFINE latest == {i \in Request : /\ db.recovery[i] # None /\ db.recovery[i].scan = s
                                       /\ \A j \in Request : ~IsLater(j, i)}
             i == CHOOSE k \in latest : TRUE
             told == [id |-> i, scan |-> s, status |-> db.recovery[i].status,
                      version |-> db.recovery[i].version]
  <2>1. LatestOf(s) = IF latest = {} THEN None ELSE told
    BY DEF LatestOf
  <2>2. CASE latest # {}
    <3>1. i \in latest
      BY <2>2
    <3>2. i \in Request /\ db.recovery[i] # None
      BY <3>1
    <3> HIDE DEF i
    <3>3. /\ db.recovery[i].version \in 1..MaxVersion
          /\ db.recovery[i].status \in {"pending", "claimed", "canceled", "delivered"}
      BY <3>2, RecoveryFields
    <3>4. told \in Told
      BY <3>2, <3>3 DEF Told
    <3> QED
      BY <2>1, <2>2, <3>4
  <2> QED
    BY <2>1, <2>2
<1>2. recovery \in [Scan -> {None} \cup Told]
  BY <1>1
<1>3. db.remedy \in [Scan -> Row] /\ db.closed \subseteq Scan
  BY DEF Workbench
<1>4. Reads(1, None) = [asOf |-> mine, findings |-> findings, recovery |-> recovery,
                        remedy |-> db.remedy, closed |-> db.closed, status |-> None]
  BY DEF Reads
<1> HIDE DEF recovery
<1> QED
  BY <1>2, <1>3, <1>4 DEF Projection

\* What it adds last.
LEMMA ReadsTypesLast ==
  ASSUME db \in Workbench, NEW read \in Projection({None})
  PROVE  /\ Reads(2, read) \in Dashboard
         /\ Reads(2, read).asOf = read.asOf /\ Reads(2, read).findings = read.findings
         /\ Reads(2, read).status = db.status
<1>1. Reads(2, read) = [read EXCEPT !.status = db.status]
  BY DEF Reads
<1>2. db.status \in [Scan -> Status]
  BY DEF Workbench
<1> QED
  BY <1>1, <1>2 DEF Dashboard, Projection

\* The refresh reads.
LEMMA ReadStep ==
  ASSUME RefreshTypes, NumbersOK, NewestIsCurrent, db \in Workbench, mine \in Nat,
         NEW r \in Refresh, ReadFindings(r)
  PROVE  /\ RefreshTypes' /\ NumbersOK' /\ NewestIsCurrent'
         /\ \A q \in Refresh : Active(q)' <=> Active(q)
         /\ \A q \in Refresh \ {r} : refresh'[q] = refresh[q]
         /\ refresh'[r].read = Reads(1, None)
<1> DEFINE st == [refresh[r] EXCEPT !.stage = "halfway", !.read = Reads(1, None)]
<1>1. Reads(1, None) \in Projection({None}) /\ Reads(1, None).asOf = mine
  BY ReadsTypes
<1>2. refresh[r] \in RefreshState
  BY RefreshFields DEF ReadFindings
<1>3. /\ st \in RefreshState /\ st.stage = "halfway" /\ st.read = Reads(1, None)
      /\ st.number = refresh[r].number
  BY <1>1, <1>2 DEF RefreshState
<1>4. refresh' = [refresh EXCEPT ![r] = st]
  BY DEF ReadFindings
<1> HIDE DEF st
<1>5. /\ refresh' \in [Refresh -> {None} \cup RefreshState]
      /\ refresh'[r] = st /\ Active(r)' /\ Active(r)
      /\ \A q \in Refresh \ {r} : refresh'[q] = refresh[q] /\ (Active(q)' <=> Active(q))
  BY <1>3, <1>4, RefreshBecomes DEF ReadFindings
<1>6. order' = order /\ mine' = mine /\ job' = job /\ shown' = shown /\ folders' = folders
      /\ dashboard' = dashboard
  BY DEF ReadFindings
<1>7. RefreshTypes'
  BY <1>5, <1>6 DEF RefreshTypes
<1>8. NumbersOK'
  BY <1>3, <1>5, <1>6 DEF NumbersOK
<1>9. NewestIsCurrent'
  BY <1>1, <1>3, <1>5, <1>6 DEF NewestIsCurrent, Recent, Owes
<1> QED
  BY <1>3, <1>5, <1>7, <1>8, <1>9

\* A refresh receives the answer, or learns that there is none.
LEMMA ReceiveStep ==
  ASSUME RefreshTypes, NumbersOK, NewestIsCurrent, folders \subseteq Folder,
         NEW r \in Refresh, Active(r), NEW result, Receive(r, result),
         ~order.overtaken /\ refresh[r].number = order.started => Recent(result)
  PROVE  /\ RefreshTypes' /\ NumbersOK' /\ NewestIsCurrent'
         /\ \A q \in Refresh : Active(q)' <=> Active(q)
         /\ \A q \in Refresh \ {r} : refresh'[q] = refresh[q]
         /\ refresh'[r].stage = "rendering"
<1> DEFINE n == refresh[r].number
           st == [refresh[r] EXCEPT !.stage = "rendering", !.read = None, !.roots = folders]
<1>1. refresh[r] \in RefreshState
  BY RefreshFields
<1>2. st \in RefreshState /\ st.stage = "rendering" /\ st.number = n /\ st.roots = folders
  BY <1>1 DEF RefreshState
<1>3. refresh' = [refresh EXCEPT ![r] = st]
  BY DEF Receive
<1> HIDE DEF st
<1>4. /\ refresh' \in [Refresh -> {None} \cup RefreshState]
      /\ refresh'[r] = st /\ Active(r)'
      /\ \A q \in Refresh \ {r} : refresh'[q] = refresh[q] /\ (Active(q)' <=> Active(q))
  BY <1>2, <1>3, RefreshBecomes
<1>5. /\ mine' = mine /\ job' = job /\ shown' = shown /\ folders' = folders
      /\ dashboard' = result
  BY DEF Receive
<1>6. n \in Nat /\ order.started \in Nat /\ order.answered \in Nat /\ order.rendered \in Nat
  BY RefreshFields DEF RefreshTypes
<1>7. /\ order'.started = order.started /\ order'.rendered = order.rendered
      /\ order'.answered = IF order.answered < n THEN n ELSE order.answered
      /\ order'.overtaken = (order.overtaken \/ n < order.answered)
      /\ order' \in [started : Nat, answered : Nat, rendered : Nat, overtaken : BOOLEAN]
  BY <1>6 DEF Receive, RefreshTypes
<1>8. n <= order.started /\ order.answered <= order.started
  BY <1>6 DEF NumbersOK
<1>9. RefreshTypes'
  BY <1>4, <1>7 DEF RefreshTypes
<1>10. NumbersOK'
  BY <1>2, <1>4, <1>6, <1>7, <1>8 DEF NumbersOK
<1>11. NewestIsCurrent'
  <2> SUFFICES ASSUME ~order'.overtaken
               PROVE  NewestIsCurrent'
    BY DEF NewestIsCurrent
  <2>1. ~order.overtaken /\ order.answered <= n
    BY <1>6, <1>7 DEF RefreshTypes
  <2>2. order'.answered = n
    BY <1>6, <1>7, <2>1
  <2>3. (order.rendered = order.started /\ shown # None =>
            shown.roots = folders /\ Recent(shown.dashboard))'
    BY <1>5, <1>7, <2>1 DEF NewestIsCurrent, Recent, Owes
  <2>4. (order.rendered < order.started /\ order.answered = order.started => Recent(dashboard))'
    BY <1>5, <1>7, <2>1, <2>2 DEF Recent, Owes
  <2>5. ASSUME NEW q \in Refresh, Active(q)', refresh'[q].number = order'.started
        PROVE  (/\ refresh[q].stage = "halfway" => refresh[q].read.asOf = mine \/ Owes
                /\ refresh[q].stage = "rendering" =>
                      refresh[q].roots = folders /\ order.answered = order.started)'
    <3>1. CASE q = r
      BY <1>2, <1>4, <1>5, <1>7, <2>1, <2>2, <2>5, <3>1
    <3>2. CASE q # r
      <4>1. Active(q) /\ refresh'[q] = refresh[q] /\ refresh[q].number = order.started
        BY <1>4, <1>7, <2>5, <3>2
      <4>2. n < order.started
        BY <1>6, <1>8, <3>2, <4>1 DEF NumbersOK
      <4>3. refresh[q].stage # "rendering"
        BY <1>6, <2>1, <4>1, <4>2 DEF NewestIsCurrent
      <4> QED
        BY <1>5, <2>1, <4>1, <4>3 DEF NewestIsCurrent, Recent, Owes
    <3> QED
      BY <3>1, <3>2
  <2> QED
    BY <2>3, <2>4, <2>5 DEF NewestIsCurrent
<1> QED
  BY <1>2, <1>4, <1>9, <1>10, <1>11

\* A refresh that renders the page is over.
LEMMA RenderStep ==
  ASSUME RefreshTypes, NumbersOK, NewestIsCurrent, OwnEndsAction, NEW r \in Refresh, Render(r)
  PROVE  /\ RefreshTypes' /\ NumbersOK' /\ NewestIsCurrent'
         /\ \A q \in Refresh : Active(q)' <=> Active(q) /\ q # r
         /\ \A q \in Refresh \ {r} : refresh'[q] = refresh[q]
<1> DEFINE n == refresh[r].number
           late == order.overtaken \/ n < order.rendered
<1>1. Active(r) /\ refresh[r].stage = "rendering"
  BY DEF Render
<1>2. n \in Nat /\ order.started \in Nat /\ order.answered \in Nat /\ order.rendered \in Nat
  BY <1>1, RefreshFields DEF RefreshTypes
<1>3. /\ refresh' \in [Refresh -> {None} \cup RefreshState]
      /\ refresh'[r] = None
      /\ \A q \in Refresh \ {r} : refresh'[q] = refresh[q]
  BY DEF Render, RefreshTypes
<1>4. \A q \in Refresh : Active(q)' <=> Active(q) /\ q # r
  BY <1>3 DEF Active
<1>5. n <= order.started /\ order.answered <= order.started /\ order.rendered <= order.started
  BY <1>1, <1>2 DEF NumbersOK
<1>6. /\ mine' = mine /\ folders' = folders /\ dashboard' = dashboard
      /\ shown' = [dashboard |-> dashboard, roots |-> refresh[r].roots, scope |-> scope]
  BY DEF Render
<1>7. Owes' <=> Owes
  BY <1>1 DEF Render, OwnEndsAction, Owes, Active
<1>8. late \in BOOLEAN
  BY DEF RefreshTypes
<1>9. n = order.started /\ ~late =>
        shown'.roots = folders' /\ Recent(shown.dashboard)'
  <2> SUFFICES ASSUME n = order.started, ~late
               PROVE  refresh[r].roots = folders /\ Recent(dashboard)
    BY <1>6, <1>7 DEF Recent
  <2>1. order.rendered < order.started
    BY <1>1 DEF NumbersOK
  <2> QED
    BY <1>1, <2>1 DEF NewestIsCurrent
<1>10. ~late /\ order.rendered = order.started => FALSE
  BY <1>1, <1>2, <1>5 DEF NumbersOK
<1>11. CASE \A q \in Refresh \ {r} : ~Active(q)
  <2>1. order' = [started |-> 0, answered |-> 0, rendered |-> 0, overtaken |-> late]
    BY <1>11 DEF Render, Order
  <2>2. \A q \in Refresh : ~Active(q)'
    BY <1>4, <1>11
  <2>3. RefreshTypes'
    BY <1>3, <1>8, <2>1 DEF RefreshTypes
  <2>4. NumbersOK'
    BY <2>1, <2>2 DEF NumbersOK
  <2>5. ~late => n = order.started
    BY <1>1, <1>2, <1>5, <1>10, <1>11 DEF NumbersOK
  <2>6. order'.started = 0 /\ order'.rendered = 0 /\ order'.overtaken = late
    BY <2>1
  <2>7. ~late => shown'.roots = folders' /\ Recent(shown.dashboard)'
    BY <1>9, <2>5
  <2>8. NewestIsCurrent'
    <3> HIDE DEF late
    <3> QED
      BY <2>2, <2>6, <2>7 DEF NewestIsCurrent
  <2> QED
    BY <1>3, <1>4, <2>3, <2>4, <2>8
<1>12. CASE ~\A q \in Refresh \ {r} : ~Active(q)
  <2>1. order' = [order EXCEPT !.overtaken = late,
                               !.rendered = IF order.rendered < n THEN n ELSE order.rendered]
    BY <1>12 DEF Render
  <2>2. /\ order'.started = order.started /\ order'.answered = order.answered
        /\ order'.rendered = IF order.rendered < n THEN n ELSE order.rendered
        /\ order'.overtaken = late
        /\ order' \in [started : Nat, answered : Nat, rendered : Nat, overtaken : BOOLEAN]
    BY <1>2, <1>8, <2>1 DEF RefreshTypes
  <2>3. RefreshTypes'
    BY <1>3, <2>2 DEF RefreshTypes
  <2>4. \A q \in Refresh \ {r} : Active(q) => refresh[q].number # n
    BY <1>1 DEF NumbersOK
  <2>5. \E q \in Refresh : Active(q)'
    BY <1>4, <1>12
  <2>6. order'.rendered < order'.started <=>
            \E q \in Refresh : Active(q)' /\ refresh'[q].number = order'.started
    <3>1. CASE n = order.started
      BY <1>2, <1>3, <1>4, <1>5, <2>2, <2>4, <3>1
    <3>2. CASE n # order.started
      BY <1>2, <1>3, <1>4, <1>5, <2>2, <3>2 DEF NumbersOK
    <3> QED
      BY <3>1, <3>2
  <2>7. NumbersOK'
    BY <1>2, <1>3, <1>4, <1>5, <2>2, <2>5, <2>6 DEF NumbersOK
  <2>8. NewestIsCurrent'
    <3>1. CASE late
      BY <2>2, <3>1 DEF NewestIsCurrent
    <3>2. CASE ~late /\ n = order.started
      BY <1>2, <1>3, <1>4, <1>5, <1>9, <2>2, <2>4, <3>2 DEF NewestIsCurrent
    <3>3. CASE ~late /\ n # order.started
      <4>1. order.rendered < order.started /\ order'.rendered < order.started
        BY <1>2, <1>5, <1>10, <2>2, <3>3
      <4>2. (order.rendered < order.started /\ order.answered = order.started => Recent(dashboard))'
        BY <1>6, <1>7, <2>2, <3>3, <4>1 DEF NewestIsCurrent, Recent
      <4>3. ASSUME NEW q \in Refresh, Active(q)', refresh'[q].number = order'.started
            PROVE  (/\ refresh[q].stage = "halfway" => refresh[q].read.asOf = mine \/ Owes
                    /\ refresh[q].stage = "rendering" =>
                          refresh[q].roots = folders /\ order.answered = order.started)'
        <5>1. Active(q) /\ refresh'[q] = refresh[q] /\ refresh[q].number = order.started
          BY <1>3, <1>4, <2>2, <4>3
        <5> QED
          BY <1>6, <1>7, <2>2, <3>3, <5>1 DEF NewestIsCurrent, Recent
      <4> QED
        BY <1>2, <2>2, <4>1, <4>2, <4>3 DEF NewestIsCurrent
    <3> QED
      BY <3>1, <3>2, <3>3
  <2> QED
    BY <1>3, <1>4, <2>3, <2>7, <2>8
<1> QED
  BY <1>11, <1>12

\* A step that has nothing to do with refreshes, but may make one due.
LEMMA QuietStep ==
  ASSUME RefreshTypes, NumbersOK, NewestIsCurrent,
         UNCHANGED <<refresh, order, dashboard, shown, folders>>,
         Owes => Owes', mine' = mine \/ Owes'
  PROVE  RefreshTypes' /\ NumbersOK' /\ NewestIsCurrent'
<1>1. RefreshTypes' /\ NumbersOK' /\ \A r \in Refresh : Active(r)' <=> Active(r)
  BY DEF RefreshTypes, NumbersOK, Active
<1>2. Owes' \/ \A d : Recent(d) => mine' = mine /\ (d = None \/ d.asOf = mine')
  BY DEF Recent
<1>3. (Recent(shown.dashboard) => Recent(shown.dashboard)') /\ (Recent(dashboard) => Recent(dashboard)')
  BY <1>2 DEF Recent
<1> QED
  BY <1>1, <1>3 DEF NewestIsCurrent, Active

-----------------------------------------------------------------------------
(* Actions. *)

\* What prompts can name.
LEMMA TicketTypes ==
  ASSUME NEW d \in Workbench, NEW s \in Scan
  PROVE  Tickets(s, d) \subseteq Ticket
<1>1. RecoveryTickets(s, d) \subseteq Ticket
  <2> SUFFICES ASSUME NEW i \in Request, d.recovery[i] # None
               PROVE  [about |-> "recovery", id |-> i, version |-> d.recovery[i].version] \in Ticket
    BY DEF RecoveryTickets
  <2>1. d.recovery[i] \in RecoveryRow
    BY DEF Workbench
  <2>2. d.recovery[i].version \in 0..MaxVersion
    BY <2>1 DEF RecoveryRow
  <2> QED
    BY <2>2 DEF Ticket
<1>2. ASSUME NEW about \in {"remediation", "tracking"}, NEW row \in Row
      PROVE  RowTickets(about, s, row) \subseteq Ticket
  <2>1. row.version \in 0..MaxVersion
    BY <1>2 DEF Row
  <2>2. [about |-> about, id |-> s, version |-> row.version] \in Ticket
    BY <1>2, <2>1 DEF Ticket
  <2> QED
    BY <2>2 DEF RowTickets
<1>3. d.remedy[s] \in Row /\ d.tracking[s] \in Row
  BY DEF Workbench
<1> QED
  BY <1>1, <1>2, <1>3 DEF Tickets

\* A prompt names what is good by the result that it is made from.
LEMMA PromptIsGood ==
  ASSUME NEW m \in Message, NEW d
  PROVE  PromptOf(m, d) \subseteq Tickets(m.scan, d)
<1>1. \/ PromptOf(m, d) = {} \/ PromptOf(m, d) = RecoveryTickets(m.scan, d)
      \/ PromptOf(m, d) = RowTickets("remediation", m.scan, d.remedy[m.scan])
      \/ PromptOf(m, d) = RowTickets("tracking", m.scan, d.tracking[m.scan])
  BY MessageFields DEF PromptOf, LocalCommand, SourceCommand, VisibleCommand
<1> QED
  BY <1>1 DEF Tickets

JobTypes == job \in {None} \cup JobState

LEMMA JobFields ==
  ASSUME JobTypes, JobOK, job # None
  PROVE  /\ job \in JobState /\ job.message \in {None} \cup Message
         /\ job.stage \in {"asking", "calling", "copying", "notifying", "refreshing"}
         /\ job.reply \subseteq Ticket /\ job.good \subseteq Ticket /\ job.folders \subseteq Folder
         /\ job.at \in {None} \cup Nat
         /\ job.message # None => job.message \in Message /\ job.message.scan \in Scan
  BY MessageFields DEF JobTypes, JobState, JobOK

\* An action that ends, and one of which only a dialog is left.
LEMMA DoneTypes ==
  ASSUME NEW stage \in {"notifying", "refreshing"}, job' = Done(stage)
  PROVE  JobTypes' /\ JobOK' /\ job' # None /\ job'.stage = stage
<1>1. Done(stage) \in JobState
  BY DEF Done, JobState
<1>2. Done(stage) # None
  BY <1>1, ViewedAreThere
<1> QED
  BY <1>1, <1>2 DEF Done, JobTypes, JobOK

\* What others do may add to what is good.
LEMMA NotedTypes ==
  ASSUME JobTypes, JobOK, NEW d \in Workbench, job # None
  PROVE  /\ Noted(d) \in JobState /\ job.good \subseteq Noted(d).good
         /\ Noted(d).message = job.message /\ Noted(d).stage = job.stage
         /\ Noted(d).reply = job.reply /\ Noted(d).folders = job.folders
         /\ job.message # None => Tickets(job.message.scan, d) \subseteq Noted(d).good
<1>1. CASE job.message = None
  BY <1>1, JobFields DEF Noted
<1>2. CASE job.message # None
  <2>1. Tickets(job.message.scan, d) \subseteq Ticket
    BY <1>2, JobFields, TicketTypes
  <2>2. job \in JobState
    BY JobFields
  <2>3. Noted(d) = [job EXCEPT !.good = job.good \cup Tickets(job.message.scan, d)]
    BY <1>2 DEF Noted
  <2> HIDE DEF Noted
  <2> QED
    BY <2>1, <2>2, <2>3 DEF JobState
<1> QED
  BY <1>1, <1>2

\* The action's process has taken its time.
LEMMA WaitsTypes ==
  ASSUME JobTypes, JobOK, Clock, Waits
  PROVE  /\ JobTypes' /\ JobOK' /\ job' # None /\ job'.stage = job.stage /\ Clock'
<1>1. job # None /\ job \in JobState
  BY JobFields DEF Waits, JobAt
<1>2. NextTime \in Nat
  BY DEF Clock, NextTime
<1>3. job' = [job EXCEPT !.at = NextTime]
  BY DEF Waits
<1>4. /\ job' \in JobState /\ job'.stage = job.stage /\ job'.message = job.message
      /\ job'.reply = job.reply /\ job'.good = job.good /\ job'.folders = job.folders
  BY <1>1, <1>2, <1>3 DEF JobState
<1>5. job' # None
  BY <1>4, ViewedAreThere
<1>6. Clock'
  BY <1>2 DEF Waits, Clock
<1> QED
  BY <1>1, <1>4, <1>5, <1>6 DEF JobTypes, JobOK

\* An action that goes on: to another stage, as what it was.
LEMMA StageTypes ==
  ASSUME JobTypes, JobOK, job # None, NEW stage \in {"calling", "copying"},
         job.stage \in {"asking", "calling", "copying"}, job' = [job EXCEPT !.stage = stage]
  PROVE  JobTypes' /\ JobOK' /\ job' # None /\ job'.stage = stage
<1>1. job \in JobState
  BY JobFields
<1>2. /\ job' \in JobState /\ job'.stage = stage /\ job'.message = job.message
      /\ job'.reply = job.reply /\ job'.good = job.good /\ job'.folders = job.folders
  BY <1>1 DEF JobState
<1>3. job' # None
  BY <1>2, ViewedAreThere
<1> QED
  BY <1>2, <1>3 DEF JobTypes, JobOK

\* The action begins: with the folders that are open, among them that of the scan
\* if it needs its source.
LEMMA JobBegins ==
  ASSUME db \in Workbench, folders \subseteq Folder, NEW m \in Message,
         m.command \notin LocalCommand, InScope(m), NEW stage \in {"asking", "calling"},
         job' = Job(m, stage)
  PROVE  JobTypes' /\ JobOK' /\ job' # None /\ job'.stage = stage
<1>1. m.scan \in Scan
  BY MessageFields
<1>2. Tickets(m.scan, db) \subseteq Ticket
  BY <1>1, TicketTypes
<1>3. Job(m, stage) \in JobState
  BY <1>2 DEF Job, JobState
<1>4. Job(m, stage) # None
  BY <1>3, ViewedAreThere
<1>5. m.command \in SourceCommand => Home[m.scan] \in folders
  BY DEF InScope, SourceCommand, VisibleCommand
<1>6. m # None
  BY ViewedAreThere
<1> QED
  BY <1>3, <1>4, <1>5, <1>6 DEF Job, JobTypes, JobOK

\* The call commits.
LEMMA CommitTypes ==
  ASSUME JobTypes, JobOK, db' \in Workbench, Commit
  PROVE  JobTypes' /\ JobOK' /\ job' # None /\ job'.stage = "calling"
<1>1. job # None /\ job.stage = "calling" /\ job.message \in Message /\ job.message # None
  BY JobFields DEF Commit, CanCommit, JobAt, JobOK
<1>2. PromptOf(job.message, db') \subseteq Tickets(job.message.scan, db')
  BY <1>1, PromptIsGood
<1> DEFINE noted == Noted(db')
<1>3. /\ noted \in JobState /\ Tickets(job.message.scan, db') \subseteq noted.good
      /\ noted.message = job.message /\ noted.stage = job.stage
      /\ noted.folders = job.folders
  BY <1>1, NotedTypes
<1>4. job' = [noted EXCEPT !.process = "committed", !.at = None,
                           !.reply = PromptOf(job.message, db')]
  BY DEF Commit
<1> HIDE DEF noted
<1>5. noted.good \subseteq Ticket
  BY <1>3 DEF JobState
<1>6. /\ job' \in JobState /\ job'.reply = PromptOf(job.message, db') /\ job'.good = noted.good
      /\ job'.message = job.message /\ job'.stage = "calling" /\ job'.folders = job.folders
  BY <1>1, <1>2, <1>3, <1>4, <1>5 DEF JobState
<1>7. job' # None
  BY <1>6, ViewedAreThere
<1> QED
  BY <1>1, <1>2, <1>3, <1>6, <1>7 DEF JobTypes, JobOK

\* What a step of the action under way leaves: its refresh is under way, or it is
\* still owed, or nothing was done.
Continues ==
    /\ UNCHANGED <<dashboard, shown, folders>>
    /\ \/ ~Active(Own) /\ Starts(Own) /\ job' # None /\ job'.stage = "refreshing"
       \/ /\ ~Active(Own) /\ UNCHANGED <<refresh, order>>
          /\ job' # None /\ job'.stage # "refreshing"
       \/ UNCHANGED <<job, mine, refresh, order>>

LEMMA EndsContinues ==
  ASSUME OwnEndsAction, job = None \/ job.stage # "refreshing",
         UNCHANGED <<dashboard, shown, folders>>, Ends
  PROVE  JobTypes' /\ JobOK' /\ Continues
<1>1. JobTypes' /\ JobOK' /\ job' # None /\ job'.stage = "refreshing"
  BY DoneTypes DEF Ends
<1> QED
  BY <1>1 DEF OwnEndsAction, Continues, Ends

LEMMA NotifiesContinues ==
  ASSUME OwnEndsAction, job = None \/ job.stage # "refreshing",
         UNCHANGED <<dashboard, shown, folders>>, Notifies
  PROVE  JobTypes' /\ JobOK' /\ Continues
<1>1. JobTypes' /\ JobOK' /\ job' # None /\ job'.stage = "notifying"
  BY DoneTypes DEF Notifies
<1> QED
  BY <1>1 DEF OwnEndsAction, Continues, Notifies

LEMMA HandleContinues ==
  ASSUME ViewIInv, Handle
  PROVE  JobTypes' /\ JobOK' /\ Continues /\ scope' \in Scope
<1>0. /\ UNCHANGED <<db, mine, folders, dashboard, shown, clipboard, events>>
      /\ message \in Message /\ JobTypes /\ JobOK /\ OwnEndsAction
      /\ db \in Workbench /\ folders \subseteq Folder /\ scope \in Scope
  BY DEF Handle, ViewIInv, ViewTypeOK, JobTypes
<1>1. CASE job # None /\ UNCHANGED <<scope, job, refresh, order>>
  BY <1>0, <1>1 DEF Continues, JobTypes, JobOK
<1>2. CASE /\ job = None /\ message.command \in LocalCommand
           /\ scope' \in IF message.command = "selectRepositoryScope" THEN Scope ELSE {scope}
           /\ Ends \/ Notifies
  BY <1>0, <1>2, EndsContinues, NotifiesContinues
<1>3. CASE job = None /\ Notifies /\ UNCHANGED scope
  BY <1>0, <1>3, NotifiesContinues
<1>4. CASE job = None /\ (Ends \/ Notifies) /\ UNCHANGED scope
  BY <1>0, <1>4, EndsContinues, NotifiesContinues
<1>5. CASE /\ job = None /\ message.command \notin LocalCommand /\ InScope(message)
           /\ job' = Job(message, IF message.command = "closeTriage" THEN "asking" ELSE "calling")
           /\ UNCHANGED <<scope, refresh, order>>
  <2> DEFINE stage == IF message.command = "closeTriage" THEN "asking" ELSE "calling"
  <2>1. stage \in {"asking", "calling"}
    OBVIOUS
  <2>2. job' = Job(message, stage)
    BY <1>5
  <2>3. JobTypes' /\ JobOK' /\ job' # None /\ job'.stage = stage
    <3> HIDE DEF stage
    <3> QED
      BY <1>0, <1>5, <2>1, <2>2, JobBegins
  <2> QED
    BY <1>0, <1>5, <2>1, <2>3 DEF Continues, OwnEndsAction
<1> QED
  BY <1>1, <1>2, <1>3, <1>4, <1>5 DEF Handle

LEMMA JobContinues ==
  ASSUME ViewIInv, db' \in Workbench,
         Pick \/ Waits \/ Commit \/ Reply \/ CallFails \/ TimeOut \/ Copy \/ Dismiss
  PROVE  JobTypes' /\ JobOK' /\ Continues /\ clipboard' \in {None} \cup Ticket
<1>0. /\ JobTypes /\ JobOK /\ OwnEndsAction /\ clipboard \in {None} \cup Ticket /\ Clock
      /\ UNCHANGED <<dashboard, shown, folders>>
      /\ job # None /\ job.stage # "refreshing"
      /\ Copy \/ clipboard' = clipboard
  BY DEF ViewIInv, ViewTypeOK, JobTypes, Clock, Pick, Waits, Commit, CanCommit, Reply, CallFails,
         TimeOut, Copy, Dismiss, JobAt
<1>1. clipboard' \in {None} \cup Ticket
  <2>1. CASE Copy
    BY <1>0, <2>1, JobFields DEF Copy
  <2> QED
    BY <1>0, <2>1
<1>2. CASE Ends \/ Notifies
  BY <1>0, <1>1, <1>2, EndsContinues, NotifiesContinues
<1>3. ASSUME NEW stage \in {"calling", "copying"}, job.stage \in {"asking", "calling", "copying"},
             job' = [job EXCEPT !.stage = stage], UNCHANGED <<refresh, order>>
      PROVE  JobTypes' /\ JobOK' /\ Continues
  <2>1. JobTypes' /\ JobOK' /\ job' # None /\ job'.stage = stage
    BY <1>0, <1>3, StageTypes
  <2> QED
    BY <1>0, <1>3, <2>1 DEF OwnEndsAction, Continues
<1>4. CASE Pick
  BY <1>0, <1>1, <1>2, <1>3, <1>4 DEF Pick, JobAt
<1>5. CASE Commit
  <2>1. JobTypes' /\ JobOK' /\ job' # None /\ job'.stage = "calling"
    BY <1>0, <1>5, CommitTypes
  <2>2. UNCHANGED <<refresh, order>>
    BY <1>5 DEF Commit
  <2> QED
    BY <1>0, <1>1, <2>1, <2>2 DEF OwnEndsAction, Continues
<1>6. CASE Reply
  BY <1>0, <1>1, <1>2, <1>3, <1>6 DEF Reply, JobAt
<1>7. CASE CallFails \/ TimeOut \/ Copy \/ Dismiss
  BY <1>2, <1>7 DEF CallFails, TimeOut, Copy, Dismiss
<1>8. CASE Waits
  <2>1. JobTypes' /\ JobOK' /\ job' # None /\ job'.stage = job.stage
    BY <1>0, <1>8, WaitsTypes
  <2>2. UNCHANGED <<refresh, order>>
    BY <1>8 DEF Waits
  <2> QED
    BY <1>0, <1>1, <2>1, <2>2 DEF OwnEndsAction, Continues
<1> QED
  BY <1>4, <1>5, <1>6, <1>7, <1>8

\* Every step of the workbench is one of its transactions.
LEMMA DbSteps ==
  ASSUME ViewIInv, ViewNext \/ UNCHANGED viewVars
  PROVE  Kept /\ (UNCHANGED db \/ Elsewise \/ Asked \/ Moved)
<1>0. db \in Workbench /\ JobTypes /\ JobOK /\ Clock
  BY DEF ViewIInv, ViewTypeOK, JobTypes, Clock
<1>1. CASE UNCHANGED db
  BY <1>0, <1>1 DEF Kept
<1>2. CASE Elsewhere
  <2>1. \A at \in time.taken \cup {NextTime} : at \in Nat
    BY <1>0 DEF Clock, NextTime
  <2>2. \/ \E s \in Scan : Completes(s) \/ Remedies(s)
        \/ \E m \in Message : m.command \notin RecoveryCommand /\ Carries(m, None)
        \/ \E at \in Nat, i \in Request : HandsOver(i, at)
        \/ \E at \in Nat, m \in Message : Carries(m, at)
    BY <1>2, <2>1 DEF Elsewhere
  <2> QED
    BY <1>0, <2>2, CarriesSo, OthersDoSo
<1>3. CASE Commit
  <2>1. job # None /\ job.stage = "calling"
    BY <1>3 DEF Commit, CanCommit, JobAt
  <2>2. /\ job.message \in Message /\ Carries(job.message, job.at)
        /\ job.at \in {None} \cup Nat
        /\ job.message.command \in RecoveryCommand => job.at # None
    BY <1>0, <1>3, <2>1, JobFields DEF Commit, CanCommit, JobOK
  <2> QED
    BY <1>0, <2>2, CarriesSo
<1>4. ViewNext /\ ~Elsewhere /\ ~Commit => UNCHANGED db
  BY DEF ViewNext, TakesTime, ChangeFolders, Click, Handle, Pick, Waits, Reply, CallFails, TimeOut,
         Copy, Dismiss, ReadFindings, Answer, ReadFails, Receive, Render
<1> QED
  BY <1>1, <1>2, <1>3, <1>4 DEF viewVars

\* Times are numbers.
LEMMA ClockStep ==
  ASSUME ViewIInv, ViewNext \/ UNCHANGED viewVars
  PROVE  Clock'
<1>0. Clock /\ JobTypes /\ JobOK /\ NextTime \in Nat /\ db \in Workbench
  BY DEF ViewIInv, ViewTypeOK, Clock, NextTime, JobTypes
<1>1. ASSUME NEW at, db'.recovery # db.recovery => at \in Nat, Uses(at) PROVE Clock'
  <2>1. CASE db'.recovery = db.recovery
    BY <1>0, <1>1, <2>1 DEF Uses, Clock
  <2>2. CASE db'.recovery # db.recovery
    <3>1. NowAt(at) \in Nat
      BY <1>0, <1>1, <2>2, NowAtIs
    <3> QED
      BY <1>0, <1>1, <2>2, <3>1 DEF Uses, Clock
  <2> QED
    BY <2>1, <2>2
<1>2. CASE TakesTime
  BY <1>0, <1>2 DEF TakesTime, Clock
<1>3. CASE Elsewhere
  <2>1. \A at \in time.taken \cup {NextTime} : at \in Nat
    BY <1>0 DEF Clock
  <2>2. UNCHANGED time \/ \E at \in Nat : Uses(at)
    BY <1>3, <2>1 DEF Elsewhere
  <2> QED
    BY <1>0, <1>1, <2>2 DEF Clock
<1>4. CASE Waits
  BY <1>0, <1>4, WaitsTypes
<1>5. CASE Commit
  <2>1. job # None /\ job.stage = "calling" /\ Uses(job.at)
    BY <1>5 DEF Commit, CanCommit, JobAt
  <2>2. /\ job.message \in Message /\ Carries(job.message, job.at)
        /\ job.at \in {None} \cup Nat
        /\ job.message.command \in RecoveryCommand => job.at # None
    BY <1>0, <1>5, <2>1, JobFields DEF Commit, CanCommit, JobOK
  <2>3. job.message.command \notin RecoveryCommand => db'.recovery = db.recovery
    BY <1>0, <2>2 DEF Carries, RecoveryCommand, RequestRemediation, SetTriage, CreateTracking, Workbench
  <2> QED
    BY <1>1, <2>1, <2>2, <2>3
<1>6. ViewNext /\ ~TakesTime /\ ~Elsewhere /\ ~Waits /\ ~Commit => UNCHANGED time
  BY DEF ViewNext, ChangeFolders, Click, Handle, Pick, Reply, CallFails, TimeOut,
         Copy, Dismiss, ReadFindings, Answer, ReadFails, Receive, Render
<1>7. UNCHANGED time => Clock'
  BY <1>0 DEF Clock
<1> QED
  BY <1>2, <1>3, <1>4, <1>5, <1>6, <1>7 DEF viewVars

\* What holds of the refreshes, and what is read anew.
Fine == RefreshTypes /\ NumbersOK /\ NewestIsCurrent /\ OwnEndsAction
ReadsAnew ==
    \A q \in Refresh : Active(q)' /\ refresh'[q].stage = "halfway" =>
        \/ Active(q) /\ refresh'[q] = refresh[q]
        \/ refresh'[q].read = Reads(1, None) /\ UNCHANGED db

LEMMA ContinuesStep ==
  ASSUME Fine, Continues
  PROVE  Fine' /\ ReadsAnew
<1>1. CASE ~Active(Own) /\ Starts(Own) /\ job' # None /\ job'.stage = "refreshing"
  <2>1. Own \in Refresh
    BY DEF Refresh
  <2>2. /\ RefreshTypes' /\ NumbersOK' /\ NewestIsCurrent'
        /\ \A q \in Refresh : Active(q)' <=> Active(q) \/ q = Own
        /\ refresh'[Own].stage = "inspecting"
        /\ \A q \in Refresh \ {Own} : refresh'[q] = refresh[q]
    BY <1>1, <2>1, StartStep DEF Fine
  <2>3. OwnEndsAction'
    BY <1>1, <2>1, <2>2 DEF OwnEndsAction
  <2>4. ReadsAnew
    BY <2>2 DEF ReadsAnew
  <2> QED
    BY <2>2, <2>3, <2>4 DEF Fine
<1>2. CASE ~Active(Own) /\ UNCHANGED <<refresh, order>> /\ job' # None /\ job'.stage # "refreshing"
  <2>1. RefreshTypes' /\ NumbersOK' /\ NewestIsCurrent'
    BY <1>2, QuietStep DEF Fine, Continues, Owes
  <2> QED
    BY <1>2, <2>1 DEF Fine, OwnEndsAction, Active, ReadsAnew
<1>3. CASE UNCHANGED <<job, mine, refresh, order>>
  <2>1. RefreshTypes' /\ NumbersOK' /\ NewestIsCurrent'
    BY <1>3, QuietStep DEF Fine, Continues, Owes
  <2> QED
    BY <1>3, <2>1 DEF Fine, OwnEndsAction, Active, ReadsAnew
<1> QED
  BY <1>1, <1>2, <1>3 DEF Continues

\* What happens elsewhere adds to what is good, and a click changes nothing yet.
LEMMA ElsewhereStep ==
  ASSUME ViewIInv, db' \in Workbench, TakesTime \/ Elsewhere \/ Click \/ UNCHANGED viewVars
  PROVE  JobTypes' /\ JobOK' /\ (Fine => Fine' /\ ReadsAnew)
<1>0. /\ JobTypes /\ JobOK
      /\ UNCHANGED <<mine, folders, dashboard, scope, shown, refresh, clipboard, order>>
      /\ job' = job \/ job' = Noted(db')
  BY DEF ViewIInv, ViewTypeOK, JobTypes, TakesTime, Elsewhere, Click, viewVars
<1>1. /\ JobTypes' /\ JobOK' /\ (job' = None <=> job = None)
      /\ job # None => job'.stage = job.stage
  <2>1. CASE job' = job
    BY <1>0, <2>1 DEF JobTypes, JobOK
  <2>2. CASE job' = Noted(db') /\ job = None
    BY <2>2 DEF Noted, JobTypes, JobOK
  <2>3. CASE job' = Noted(db') /\ job # None
    <3>1. /\ job' \in JobState /\ job.good \subseteq job'.good
          /\ job'.message = job.message /\ job'.stage = job.stage
          /\ job'.reply = job.reply /\ job'.folders = job.folders
      BY <1>0, <2>3, NotedTypes
    <3>2. job' # None
      BY <3>1, ViewedAreThere
    <3> QED
      BY <1>0, <2>3, <3>1, <3>2 DEF JobTypes, JobOK
  <2> QED
    BY <1>0, <2>1, <2>2, <2>3
<1>2. ASSUME Fine PROVE Fine' /\ ReadsAnew
  <2>1. RefreshTypes' /\ NumbersOK' /\ NewestIsCurrent'
    BY <1>0, <1>1, <1>2, QuietStep DEF Fine, Owes
  <2> QED
    BY <1>0, <1>1, <1>2, <2>1 DEF Fine, OwnEndsAction, Active, ReadsAnew
<1> QED
  BY <1>1, <1>2

\* The folders change.
LEMMA FoldersStep ==
  ASSUME Fine, ChangeFolders
  PROVE  Fine' /\ ReadsAnew
<1>1. PICK r \in Refresh \ {Own} : ~Active(r) /\ Starts(r)
  BY DEF ChangeFolders
<1>2. /\ RefreshTypes' /\ NumbersOK' /\ NewestIsCurrent'
      /\ \A q \in Refresh : Active(q)' <=> Active(q) \/ q = r
      /\ refresh'[r].stage = "inspecting"
      /\ \A q \in Refresh \ {r} : refresh'[q] = refresh[q]
  BY <1>1, StartStep DEF Fine
<1>3. Own \in Refresh /\ job' = job
  BY DEF Refresh, ChangeFolders
<1>4. OwnEndsAction'
  BY <1>1, <1>2, <1>3 DEF Fine, OwnEndsAction
<1>5. ReadsAnew
  BY <1>2 DEF ReadsAnew
<1> QED
  BY <1>2, <1>4, <1>5 DEF Fine

\* A refresh reads, receives what it has read, or renders the page.
LEMMA RefreshStep ==
  ASSUME ViewIInv, NEW r \in Refresh,
         ReadFindings(r) \/ Answer(r) \/ ReadFails(r) \/ Render(r)
  PROVE  /\ Fine' /\ ReadsAnew /\ JobTypes' /\ JobOK'
         /\ dashboard' \in {None} \cup Dashboard /\ FindingsAreOfCompleteScans'
<1>0. /\ RefreshTypes /\ NumbersOK /\ NewestIsCurrent /\ OwnEndsAction /\ Own \in Refresh
      /\ db \in Workbench /\ mine \in Nat /\ folders \subseteq Folder
      /\ dashboard \in {None} \cup Dashboard /\ FindingsAreOfCompleteScans /\ JobTypes /\ JobOK
  BY DEF ViewIInv, ViewTypeOK, RefreshTypes, JobTypes, Refresh
<1>1. CASE ReadFindings(r)
  <2>1. UNCHANGED <<db, dashboard, job>>
    BY <1>1 DEF ReadFindings
  <2>2. /\ RefreshTypes' /\ NumbersOK' /\ NewestIsCurrent'
        /\ \A q \in Refresh : Active(q)' <=> Active(q)
        /\ \A q \in Refresh \ {r} : refresh'[q] = refresh[q]
        /\ refresh'[r].read = Reads(1, None)
    BY <1>0, <1>1, ReadStep
  <2>3. Fine' /\ ReadsAnew
    BY <1>0, <2>1, <2>2 DEF Fine, OwnEndsAction, ReadsAnew
  <2> QED
    BY <1>0, <2>1, <2>3 DEF JobTypes, JobOK, FindingsAreOfCompleteScans
<1>2. ASSUME NEW result \in {None} \cup Dashboard, Active(r), Receive(r, result),
             ~order.overtaken /\ refresh[r].number = order.started => Recent(result),
             result # None => \A s \in result.findings : result.status[s] = "complete"
      PROVE  /\ Fine' /\ ReadsAnew /\ JobTypes' /\ JobOK'
             /\ dashboard' \in {None} \cup Dashboard /\ FindingsAreOfCompleteScans'
  <2>1. job' = job /\ dashboard' = result
    BY <1>2 DEF Receive
  <2>2. /\ RefreshTypes' /\ NumbersOK' /\ NewestIsCurrent'
        /\ \A q \in Refresh : Active(q)' <=> Active(q)
        /\ \A q \in Refresh \ {r} : refresh'[q] = refresh[q]
        /\ refresh'[r].stage = "rendering"
    BY <1>0, <1>2, ReceiveStep
  <2>3. Fine' /\ ReadsAnew
    BY <1>0, <2>1, <2>2 DEF Fine, OwnEndsAction, ReadsAnew
  <2> QED
    BY <1>0, <1>2, <2>1, <2>3 DEF JobTypes, JobOK, FindingsAreOfCompleteScans
<1>3. CASE Answer(r)
  <2> DEFINE read == refresh[r].read
             result == Reads(2, read)
  <2>1. /\ Active(r) /\ Receive(r, result) /\ refresh[r].stage = "halfway"
        /\ read \in Projection({None}) /\ \A s \in read.findings : db.status[s] = "complete"
    BY <1>3 DEF Answer, ViewIInv, HalfwayIsComplete
  <2>2. /\ result \in Dashboard /\ result.asOf = read.asOf /\ result.findings = read.findings
        /\ result.status = db.status
    BY <1>0, <2>1, ReadsTypesLast
  <2> HIDE DEF result
  <2>3. ~order.overtaken /\ refresh[r].number = order.started => Recent(result)
    <3> SUFFICES ASSUME ~order.overtaken, refresh[r].number = order.started PROVE Recent(result)
      OBVIOUS
    <3>1. read.asOf = mine \/ Owes
      BY <1>0, <2>1 DEF NewestIsCurrent
    <3> QED
      BY <2>2, <3>1 DEF Recent
  <2> QED
    BY <1>2, <2>1, <2>2, <2>3
<1>4. CASE ReadFails(r)
  BY <1>2, <1>4 DEF ReadFails, Recent
<1>5. CASE Render(r)
  <2>1. /\ RefreshTypes' /\ NumbersOK' /\ NewestIsCurrent'
        /\ \A q \in Refresh : Active(q)' <=> Active(q) /\ q # r
        /\ \A q \in Refresh \ {r} : refresh'[q] = refresh[q]
    BY <1>0, <1>5, RenderStep
  <2>2. dashboard' = dashboard /\ Active(r) /\ job' = IF r = Own THEN None ELSE job
    BY <1>5 DEF Render
  <2>3. Fine' /\ ReadsAnew
    BY <1>0, <2>1, <2>2 DEF Fine, OwnEndsAction, ReadsAnew
  <2> QED
    BY <1>0, <2>2, <2>3 DEF JobTypes, JobOK, FindingsAreOfCompleteScans
<1> QED
  BY <1>1, <1>3, <1>4, <1>5

\* The variables that are not about refreshes keep their types.
LEMMA OtherTypes ==
  ASSUME ViewIInv, db' \in Workbench, ViewNext \/ UNCHANGED viewVars
  PROVE  /\ mine' \in Nat /\ folders' \subseteq Folder /\ scope' \in Scope
         /\ shown' \in {None} \cup Page /\ message' \in {None} \cup Message
         /\ clipboard' \in {None} \cup Ticket /\ events' \in 0..MaxEvents
<1>0. /\ mine \in Nat /\ folders \subseteq Folder /\ scope \in Scope
      /\ shown \in {None} \cup Page /\ message \in {None} \cup Message
      /\ clipboard \in {None} \cup Ticket /\ events \in 0..MaxEvents
      /\ dashboard \in {None} \cup Dashboard /\ RefreshTypes
  BY DEF ViewIInv, ViewTypeOK, RefreshTypes
<1>1. Happens => events' \in 0..MaxEvents
  BY <1>0, ViewBoundAssumption DEF Happens
<1>2. CASE TakesTime \/ Elsewhere \/ ChangeFolders \/ Click
  <2>1. /\ UNCHANGED <<mine, scope, shown, clipboard>> /\ Happens
        /\ folders' = folders \/ folders' \in SUBSET Folder
        /\ message' = message \/ message' \in Message
    BY <1>2 DEF TakesTime, Elsewhere, ChangeFolders, Click
  <2> QED
    BY <1>0, <1>1, <2>1
<1>3. CASE Handle
  <2>1. UNCHANGED <<mine, folders, shown, clipboard, events>> /\ message' = None
    BY <1>3 DEF Handle
  <2> QED
    BY <1>0, <1>3, <2>1, HandleContinues
<1>4. CASE Pick \/ Waits \/ Commit \/ Reply \/ CallFails \/ TimeOut \/ Copy \/ Dismiss
  <2>1. UNCHANGED <<folders, scope, shown, message, events>>
    BY <1>4 DEF Pick, Waits, Commit, Reply, CallFails, TimeOut, Copy, Dismiss
  <2>2. mine' = mine \/ mine' = mine + 1
    BY <1>4 DEF Pick, Waits, Commit, Reply, CallFails, TimeOut, Copy, Dismiss
  <2>3. clipboard' \in {None} \cup Ticket
    BY <1>4, JobContinues
  <2> QED
    BY <1>0, <2>1, <2>2, <2>3
<1>5. ASSUME NEW r \in Refresh, ReadFindings(r) \/ Answer(r) \/ ReadFails(r)
      PROVE  UNCHANGED <<mine, folders, scope, shown, message, clipboard, events>>
  BY <1>5 DEF ReadFindings, Answer, ReadFails, Receive
<1>6. ASSUME NEW r \in Refresh, Render(r)
      PROVE  /\ UNCHANGED <<mine, folders, scope, message, clipboard, events>>
             /\ shown' \in Page
  <2>1. refresh[r].roots \subseteq Folder
    BY <1>0, <1>6, RefreshFields DEF Render
  <2> QED
    BY <1>0, <1>6, <2>1 DEF Render, Page
<1>7. CASE UNCHANGED viewVars
  BY <1>0, <1>7 DEF viewVars
<1> QED
  BY <1>0, <1>2, <1>3, <1>4, <1>5, <1>6, <1>7 DEF ViewNext

\* What holds of the refreshes and of the action under way is kept by every step.
LEMMA FineStep ==
  ASSUME ViewIInv, db' \in Workbench, ViewNext \/ UNCHANGED viewVars
  PROVE  /\ Fine' /\ ReadsAnew /\ JobTypes' /\ JobOK'
         /\ dashboard' \in {None} \cup Dashboard /\ FindingsAreOfCompleteScans'
<1>0. /\ Fine /\ JobTypes /\ JobOK /\ dashboard \in {None} \cup Dashboard
      /\ FindingsAreOfCompleteScans
  BY DEF ViewIInv, ViewTypeOK, Fine, RefreshTypes, JobTypes
<1>1. CASE TakesTime \/ Elsewhere \/ Click \/ UNCHANGED viewVars
  <2>1. dashboard' = dashboard
    BY <1>1 DEF TakesTime, Elsewhere, Click, viewVars
  <2> QED
    BY <1>0, <1>1, <2>1, ElsewhereStep DEF FindingsAreOfCompleteScans
<1>2. CASE ChangeFolders
  <2>1. dashboard' = dashboard /\ job' = job
    BY <1>2 DEF ChangeFolders
  <2> QED
    BY <1>0, <1>2, <2>1, FoldersStep DEF FindingsAreOfCompleteScans, JobTypes, JobOK
<1>3. CASE Handle \/ Pick \/ Waits \/ Commit \/ Reply \/ CallFails \/ TimeOut \/ Copy \/ Dismiss
  <2>1. JobTypes' /\ JobOK' /\ Continues
    BY <1>3, HandleContinues, JobContinues
  <2>2. dashboard' = dashboard
    BY <2>1 DEF Continues
  <2> QED
    BY <1>0, <2>1, <2>2, ContinuesStep DEF FindingsAreOfCompleteScans
<1>4. ASSUME NEW r \in Refresh, ReadFindings(r) \/ Answer(r) \/ ReadFails(r) \/ Render(r)
      PROVE  /\ Fine' /\ ReadsAnew /\ JobTypes' /\ JobOK'
             /\ dashboard' \in {None} \cup Dashboard /\ FindingsAreOfCompleteScans'
  BY <1>4, RefreshStep
<1> QED
  BY <1>1, <1>2, <1>3, <1>4 DEF ViewNext

\* What a refresh has read stays true, since scans stay complete.
LEMMA HalfwayStep ==
  ASSUME ViewIInv, Kept, ReadsAnew
  PROVE  HalfwayIsComplete'
<1> SUFFICES ASSUME NEW r \in Refresh, Active(r)', refresh'[r].stage = "halfway"
             PROVE  /\ refresh'[r].read \in Projection({None})
                    /\ \A s \in refresh'[r].read.findings : db'.status[s] = "complete"
  BY DEF HalfwayIsComplete
<1>0. db \in Workbench /\ mine \in Nat
  BY DEF ViewIInv, ViewTypeOK
<1>1. CASE Active(r) /\ refresh'[r] = refresh[r]
  <2>1. /\ refresh[r].read \in Projection({None})
        /\ \A s \in refresh[r].read.findings : db.status[s] = "complete"
    BY <1>1 DEF ViewIInv, HalfwayIsComplete
  <2>2. refresh[r].read.findings \subseteq Scan
    BY <2>1 DEF Projection
  <2> QED
    BY <1>1, <2>1, <2>2 DEF Kept
<1>2. CASE refresh'[r].read = Reads(1, None) /\ UNCHANGED db
  <2>1. Reads(1, None).findings = {s \in Scan : HasFinding(s)}
    BY DEF Reads
  <2> QED
    BY <1>0, <1>2, <2>1, ReadsTypes DEF HasFinding
<1> QED
  BY <1>1, <1>2 DEF ReadsAnew

LEMMA ViewStep ==
  ASSUME ViewIInv, ViewNext \/ UNCHANGED viewVars
  PROVE  ViewIInv'
<1>1. Kept /\ (UNCHANGED db \/ Elsewise \/ Asked \/ Moved)
  BY DbSteps
<1>2. db' \in Workbench
  BY <1>1 DEF Kept
<1>3. /\ Fine' /\ ReadsAnew /\ JobTypes' /\ JobOK'
      /\ dashboard' \in {None} \cup Dashboard /\ FindingsAreOfCompleteScans'
  BY <1>2, FineStep
<1>4. /\ mine' \in Nat /\ folders' \subseteq Folder /\ scope' \in Scope
      /\ shown' \in {None} \cup Page /\ message' \in {None} \cup Message
      /\ clipboard' \in {None} \cup Ticket /\ events' \in 0..MaxEvents
  BY <1>2, OtherTypes
<1>5. ViewTypeOK'
  BY <1>2, <1>3, <1>4, ClockStep DEF ViewTypeOK, Fine, RefreshTypes, JobTypes, Clock
<1>6. RequestsOK'
  BY <1>1, RequestsStep DEF ViewIInv, ViewTypeOK, Clock
<1>7. HalfwayIsComplete'
  BY <1>1, <1>3, HalfwayStep
<1> QED
  BY <1>3, <1>5, <1>6, <1>7 DEF ViewIInv, Fine

\* The panel is opened.
LEMMA InitView == ViewInit => ViewIInv
<1> SUFFICES ASSUME ViewInit PROVE ViewIInv
  OBVIOUS
<1>1. PICK done \in SUBSET Scan, asked \in {None} \cup Scan :
        /\ asked \notin done
        /\ db = [status |-> [s \in Scan |-> IF s \in done THEN "complete" ELSE "running"],
                 recovery |-> [i \in Request |->
                    IF i = 1 /\ asked # None
                    THEN NewRequest(asked, 1, 1) ELSE None],
                 remedy |-> [s \in Scan |-> NoRow],
                 tracking |-> [s \in Scan |-> NoRow],
                 closed |-> {}]
  BY DEF ViewInit
<1> DEFINE row == NewRequest(asked, 1, 1)
<1>2. 1 \in Request /\ Own \in Refresh /\ 1 \in Refresh /\ Own # 1
  BY ViewBoundAssumption DEF Request, Refresh, Own
<1>3. asked # None => row \in RecoveryRow /\ row.updated <= row.changed
  BY ViewBoundAssumption DEF NewRequest, RecoveryRow
<1>4. asked # None => row # None
  BY <1>3, ViewedAreThere
<1>5. [version |-> 0, state |-> "none"] \in Row
  BY ViewBoundAssumption DEF Row
<1> DEFINE status == [s \in Scan |-> IF s \in done THEN "complete" ELSE "running"]
           recovery == [i \in Request |-> IF i = 1 /\ asked # None THEN row ELSE None]
<1>6. db \in Workbench
  <2>1. status \in [Scan -> Status]
    BY DEF Status
  <2>2. recovery \in [Request -> {None} \cup RecoveryRow]
    BY <1>3
  <2>4. [s \in Scan |-> NoRow] \in [Scan -> Row]
    BY <1>5 DEF NoRow
  <2>5. /\ db.status = status /\ db.recovery = recovery
        /\ db.remedy = [s \in Scan |-> NoRow] /\ db.tracking = [s \in Scan |-> NoRow]
        /\ db.closed = {}
    BY <1>1
  <2>6. db = [status |-> status, recovery |-> recovery,
              remedy |-> [s \in Scan |-> NoRow], tracking |-> [s \in Scan |-> NoRow],
              closed |-> {}]
    BY <1>1
  <2> HIDE DEF status, recovery
  <2> QED
    BY <2>1, <2>2, <2>4, <2>6 DEF Workbench
<1>7. RequestsOK
  <2>1. db.recovery = recovery
    BY <1>1
  <2>2. \A i \in Request : db.recovery[i] # None => i = 1 /\ db.recovery[i] = row /\ asked # None
    BY <2>1
  <2> QED
    BY <1>3, <2>2 DEF RequestsOK, IsOpen
<1>8. /\ \A r \in Refresh : Active(r) <=> r = 1
      /\ refresh[1].stage = "inspecting" /\ refresh[1].number = 1
      /\ refresh \in [Refresh -> {None} \cup RefreshState]
  <2>1. Started(1) \in RefreshState /\ Started(1).stage = "inspecting" /\ Started(1).number = 1
    BY DEF Started, RefreshState
  <2>2. Started(1) # None
    BY <2>1, ViewedAreThere
  <2> QED
    BY <1>2, <2>1, <2>2 DEF ViewInit, Active
<1>9. /\ order.started = 1 /\ order.answered = 0 /\ order.rendered = 0
      /\ order \in [started : Nat, answered : Nat, rendered : Nat, overtaken : BOOLEAN]
      /\ job = None /\ dashboard = None /\ shown = None /\ clipboard = None /\ message = None
      /\ mine = 0 /\ events = 0 /\ scope = "current" /\ folders \subseteq Folder
      /\ time \in [now : Nat, taken : SUBSET Nat]
  BY DEF ViewInit, Order
<1>10. ViewTypeOK
  BY <1>6, <1>8, <1>9, ViewBoundAssumption DEF ViewTypeOK, Scope
<1>11. HalfwayIsComplete /\ FindingsAreOfCompleteScans /\ JobOK /\ OwnEndsAction
  BY <1>2, <1>8, <1>9 DEF HalfwayIsComplete, FindingsAreOfCompleteScans, JobOK, OwnEndsAction
<1>12. NumbersOK /\ NewestIsCurrent
  BY <1>2, <1>8, <1>9 DEF NumbersOK, NewestIsCurrent
<1> QED
  BY <1>6, <1>7, <1>10, <1>11, <1>12 DEF ViewIInv

LEMMA ViewInvariance == ViewSpec => []ViewIInv
<1>1. ViewIInv /\ [ViewNext]_viewVars => ViewIInv'
  BY ViewStep
<1> QED
  BY <1>1, InitView, PTL DEF ViewSpec

-----------------------------------------------------------------------------
(* The theorems. *)

\* Every variable keeps its type.
THEOREM ViewTypeCorrect == ViewSpec => []ViewTypeOK
<1>1. ViewIInv => ViewTypeOK
  BY DEF ViewIInv
<1> QED
  BY <1>1, ViewInvariance, PTL

\* A finding is never projected next to a scan that still runs: the process of the
\* dashboard reads the findings first and the scans last, and scans stay complete.
THEOREM FindingsComplete == ViewSpec => []FindingsAreOfCompleteScans
<1>1. ViewIInv => FindingsAreOfCompleteScans
  BY DEF ViewIInv
<1> QED
  BY <1>1, ViewInvariance, PTL

\* The page at rest shows the open folders and a dashboard that was read after
\* everything this panel has done, unless refreshes overtook each other.
THEOREM PageIsCurrent == ViewSpec => []RestIsCurrent
<1>1. ViewIInv => RestIsCurrent
  <2> SUFFICES ASSUME ViewIInv, AtRest, ~order.overtaken
               PROVE  /\ shown.roots = folders
                      /\ shown.dashboard # None => shown.dashboard.asOf = mine
    BY DEF RestIsCurrent
  <2>1. order.started \in Nat /\ order.rendered \in Nat
    BY DEF ViewIInv, ViewTypeOK
  <2>2. order.started = 0 /\ order.rendered = order.started
    BY <2>1 DEF ViewIInv, NumbersOK, AtRest
  <2>3. shown # None /\ ~Owes
    BY DEF AtRest, Owes
  <2> QED
    BY <2>2, <2>3 DEF ViewIInv, NewestIsCurrent, Recent
<1> QED
  BY <1>1, ViewInvariance, PTL

\* The panel copies only what names a request that was open, with its version, since
\* the click, and of a repository that was open then.
THEOREM CopiesAreCurrent == ViewSpec => PromptsAreCurrent
<1> DEFINE P == clipboard' # clipboard =>
                /\ clipboard' \in job.good
                /\ job.message.command \in SourceCommand => Home[job.message.scan] \in job.folders
<1>1. ViewIInv /\ [ViewNext]_viewVars => [P]_viewVars
  <2> SUFFICES ASSUME ViewIInv, ViewNext, clipboard' # clipboard PROVE P
    OBVIOUS
  <2>1. Copy
    BY DEF ViewNext, TakesTime, Elsewhere, ChangeFolders, Click, Handle, Pick, Waits, Commit, Reply,
           CallFails, TimeOut, Dismiss, ReadFindings, Answer, ReadFails, Receive, Render
  <2> QED
    BY <2>1 DEF Copy, JobAt, ViewIInv, JobOK
<1> QED
  BY <1>1, ViewInvariance, PTL DEF ViewSpec, PromptsAreCurrent

\* While a request is open the dashboard tells that one of its scan.  An older one
\* gets ahead of it in two ways: somebody cancels it once more, or the call that
\* created the open one took its time before the last change of the older one was
\* committed.
THEOREM OpenIsShown == ViewSpec => OpenIsLatest
<1> DEFINE P == \A i, j \in Request :
                    IsOpen(i)' /\ IsLater(j, i)' /\ ~(IsOpen(i) /\ IsLater(j, i)) =>
                        GetsAhead(j, i)
<1>1. ViewIInv /\ [ViewNext]_viewVars => [P]_viewVars
  <2> SUFFICES ASSUME ViewIInv, ViewNext PROVE P
    OBVIOUS
  <2>1. db \in Workbench /\ Clock /\ RequestsOK
    BY DEF ViewIInv, ViewTypeOK, Clock
  <2>2. Kept /\ (UNCHANGED db \/ Elsewise \/ Asked \/ Moved)
    BY DbSteps
  <2> QED
    BY <2>1, <2>2, LatestStep
<1> QED
  BY <1>1, ViewInvariance, PTL DEF ViewSpec, OpenIsLatest, GetsAhead

-----------------------------------------------------------------------------
(* The integration. *)

\* Every window that is past its activation has the key on disk.
HasKey(w) ==
    window[w].step \notin {"activate", "create"} => window[w].key = identity /\ identity # None

\* A window replaces a runtime that is not of its version, and keeps what it moved
\* away: the window that is past the lock is the only one to change the runtime.
ReplacesRuntime(w) ==
    /\ At(w, "moving") => runtime # version[w]
    /\ At(w, "placing") =>
        /\ runtime = None
        /\ "placed" \in past /\ "killed" \notin past => window[w].previous # None

\* A window renames over the file that it has read.
RenamesOverRead(w) ==
    At(w, "rename") /\ "late" \notin past => window[w].read = config[window[w].file]

\* Only a window that is to change the permission file owes the removal of rules,
\* and then the key it is to add has been registered.
OwesWhileAtPolicy(w) ==
    /\ window[w].removed # {} => window[w].step \in {"lock", "check", "rename"} /\ window[w].file = "policy"
    /\ window[w].step \in {"lock", "check", "rename"} /\ window[w].file = "policy" /\ edits = 0 =>
            window[w].key \in config["mcp"].keys

\* An entry of the user's under our key that a window has read was not there when
\* the window inspected the file.
ReadsUnseen(w) ==
    /\ At(w, "snapshot") /\ Clash \in config["mcp"].user => "unseen" \in past
    /\ window[w].step \in {"check", "rename"} /\ window[w].file = "mcp" /\ Clash \in window[w].read.user =>
            "unseen" \in past

\* What is late was edited.
LateIsEdited == "late" \in past => edits # 0

GoodWindow(w) == /\ HasKey(w) /\ ReplacesRuntime(w) /\ RenamesOverRead(w) /\ ReadsUnseen(w)
                 /\ OwesWhileAtPolicy(w)

\* What a window consists of.
State == [step : Step, key : Key \cup {None}, file : File, read : Document,
          removed : SUBSET Key, previous : Version \cup {None}]

\* At most one window is past each lock.
LocksExclude ==
    \A v, w \in Window : v # w =>
        /\ {window[v].step, window[w].step} \subseteq Locked => window[v].file # window[w].file
        /\ ~({window[v].step, window[w].step} \subseteq {"moving", "placing"})

\* Only a window at the permission file names it.
NamesFile(st) == st.file = "policy" => st.step \in {"lock", "check", "rename"}

WindowsOK == /\ window \in [Window -> State] /\ LocksExclude
             /\ \A w \in Window : NamesFile(window[w])
FilesOK == /\ identity \in Key \cup {None}
           /\ runtime \in Version \cup {None} /\ steering \in Version \cup {None}
           /\ bridge \in Version \cup {None} /\ hook \in Key \cup {None}
           /\ config \in [File -> Document]
OthersOK == /\ version \in [Window -> Version] /\ edits \in 0..MaxEdits
            /\ wanted \in [File -> SUBSET Entry] /\ past \subseteq Event

\* The types, and what makes each lock exclude.
InstallTypes == WindowsOK /\ FilesOK /\ OthersOK

InstallIInv ==
    /\ InstallTypes
    /\ \A w \in Window : GoodWindow(w)
    /\ LateIsEdited
    /\ RuntimeIsThere
    /\ EditsSurvive
    /\ StaleRulesAreOwed
    /\ SuccessLasts

USE EntryAssumption, BoundAssumption, NoneAssumption

-----------------------------------------------------------------------------
(* Types. *)

\* The steps that hold a lock.
Holding(st) == st.step \in Locked \cup {"moving", "placing"}

\* One window changes, and takes no lock that it did not hold.
LEMMA WindowChanges ==
  ASSUME WindowsOK, NEW w \in Window, NEW st \in State, NamesFile(st),
         window' = [window EXCEPT ![w] = st],
         \/ ~Holding(st)
         \/ /\ st.step \in Locked /\ window[w].step \in Locked
            /\ st.file = window[w].file
         \/ st.step \in {"moving", "placing"} /\ window[w].step \in {"moving", "placing"}
         \/ st.step \in Locked /\ IsFree(Locked, st.file)
         \/ st.step \in {"moving", "placing"} /\ IsFree({"moving", "placing"}, "mcp")
  PROVE  /\ WindowsOK'
         /\ window'[w] = st /\ \A v \in Window \ {w} : window'[v] = window[v]
<1>1. window' \in [Window -> State]
  BY DEF WindowsOK
<1>2. window'[w] = st /\ \A v \in Window \ {w} : window'[v] = window[v]
  BY DEF WindowsOK
<1>3. LocksExclude'
  <2> SUFFICES ASSUME NEW u \in Window, NEW v \in Window, u # v
               PROVE  /\ {window'[u].step, window'[v].step} \subseteq Locked =>
                            window'[u].file # window'[v].file
                      /\ ~({window'[u].step, window'[v].step} \subseteq {"moving", "placing"})
    BY DEF LocksExclude
  <2>1. /\ {window[u].step, window[v].step} \subseteq Locked =>
                            window[u].file # window[v].file
        /\ ~({window[u].step, window[v].step} \subseteq {"moving", "placing"})
    BY DEF WindowsOK, LocksExclude
  <2>2. CASE u # w /\ v # w
    BY <1>2, <2>1, <2>2
  <2>3. CASE u = w
    BY <1>2, <2>1, <2>3 DEF IsFree, Holding, Locked, WindowsOK, NamesFile, State, File
  <2>4. CASE v = w
    BY <1>2, <2>1, <2>4 DEF IsFree, Holding, Locked, WindowsOK, NamesFile, State, File
  <2> QED
    BY <2>2, <2>3, <2>4
<1>4. \A v \in Window : NamesFile(window'[v])
  BY <1>2 DEF WindowsOK
<1> QED
  BY <1>1, <1>2, <1>3, <1>4 DEF WindowsOK

OthersStay(w) == \A v \in Window \ {w} : window'[v] = window[v]
Fields(w) == <<window[w].key, window[w].file, window[w].read, window[w].removed, window[w].previous>>

\* A window that goes to another step.
LEMMA WindowGoes ==
  ASSUME WindowsOK, NEW w \in Window, NEW step \in Step, Goes(w, step),
         window[w].file = "policy" => step \in {"lock", "check", "rename"},
         \/ step \notin Locked \cup {"moving", "placing"}
         \/ step \in Locked /\ window[w].step \in Locked
         \/ step \in {"moving", "placing"} /\ IsFree({"moving", "placing"}, "mcp")
  PROVE  WindowsOK' /\ OthersStay(w) /\ window'[w].step = step /\ UNCHANGED Fields(w)
<1> DEFINE st == [window[w] EXCEPT !.step = step]
<1>1. window[w] \in State
  BY DEF WindowsOK
<1>2. /\ st \in State /\ st.step = step /\ st.key = window[w].key /\ st.file = window[w].file
      /\ st.read = window[w].read /\ st.removed = window[w].removed
      /\ st.previous = window[w].previous
  BY <1>1 DEF State
<1>3. NamesFile(st)
  BY <1>2 DEF NamesFile
<1>4. window' = [window EXCEPT ![w] = st]
  BY DEF Goes
<1>5. WindowsOK' /\ window'[w] = st /\ OthersStay(w)
  BY <1>2, <1>3, <1>4, WindowChanges DEF Holding, Locked, OthersStay
<1> QED
  BY <1>2, <1>5 DEF Fields

\* A window that goes to a step without a lock, or stays past one, with other
\* fields changed.
LEMMA WindowBecomes ==
  ASSUME WindowsOK, NEW w \in Window, NEW st \in State, window' = [window EXCEPT ![w] = st],
         NamesFile(st),
         \/ ~Holding(st)
         \/ st.step = "placing" /\ window[w].step = "moving"
  PROVE  WindowsOK' /\ OthersStay(w) /\ window'[w] = st
  BY WindowChanges DEF OthersStay

\* Closed, and what follows an install or a user file, are states.
LEMMA ClosedIsState == Closed \in State /\ NamesFile(Closed)
  BY DEF Closed, State, Step, File, Document, NamesFile

EndedAt(step, key) == [Closed EXCEPT !.step = step, !.key = key]
LEMMA EndedIsState ==
  ASSUME NEW step \in Step, NEW key \in Key \cup {None}
  PROVE  /\ EndedAt(step, key) \in State /\ NamesFile(EndedAt(step, key))
         /\ EndedAt(step, key).step = step /\ EndedAt(step, key).key = key
         /\ EndedAt(step, key).file = "mcp" /\ EndedAt(step, key).removed = {}
<1>1. EndedAt(step, key) \in State
  BY ClosedIsState DEF State, EndedAt
<1>2. /\ EndedAt(step, key).step = step /\ EndedAt(step, key).key = key
      /\ EndedAt(step, key).file = "mcp" /\ EndedAt(step, key).removed = {}
  BY DEF Closed, EndedAt
<1> QED
  BY <1>1, <1>2 DEF NamesFile

LEMMA FollowingIsState ==
  ASSUME WindowsOK, NEW w \in Window
  PROVE  /\ Following(w) \in State /\ NamesFile(Following(w)) /\ ~Holding(Following(w))
         /\ Following(w).key = window[w].key /\ Following(w).removed = {}
         /\ window[w].file = "mcp" => Following(w).step = "lock" /\ Following(w).file = "policy"
         /\ window[w].file # "mcp" => Following(w).step = "after" /\ Following(w).file = "mcp"
<1>1. window[w].key \in Key \cup {None}
  BY DEF WindowsOK, State
<1>2. [Closed EXCEPT !.step = "lock", !.file = "policy", !.key = window[w].key] \in State
  BY <1>1 DEF Closed, State, Step, File, Document
<1>3. [Closed EXCEPT !.step = "after", !.key = window[w].key] \in State
  BY <1>1 DEF Closed, State, Step, File, Document
<1> QED
  BY <1>2, <1>3 DEF Following, Closed, NamesFile, Holding, Locked

\* What each action does to its window.
LEMMA ReadIdentityActs ==
  ASSUME WindowsOK, FilesOK, NEW w \in Window, ReadIdentity(w)
  PROVE  /\ WindowsOK' /\ OthersStay(w) /\ window'[w].key = identity
         /\ window'[w].step = IF identity = None THEN "create" ELSE "idle"
         /\ window'[w].file = window[w].file /\ window'[w].removed = window[w].removed
<1> DEFINE st == [window[w] EXCEPT !.step = IF identity = None THEN "create" ELSE "idle",
                                   !.key = identity]
<1>1. window[w] \in State
  BY DEF WindowsOK
<1>2. /\ st \in State /\ st.step = (IF identity = None THEN "create" ELSE "idle")
      /\ st.key = identity /\ st.file = window[w].file /\ st.removed = window[w].removed
  BY <1>1 DEF State, Step, FilesOK
<1>3. NamesFile(st) /\ ~Holding(st)
  BY <1>2 DEF WindowsOK, NamesFile, Holding, Locked, ReadIdentity, At
<1>4. window' = [window EXCEPT ![w] = st]
  BY DEF ReadIdentity
<1> QED
  BY <1>2, <1>3, <1>4, WindowBecomes

LEMMA CreateIdentityActs ==
  ASSUME WindowsOK, FilesOK, NEW w \in Window, CreateIdentity(w)
  PROVE  /\ WindowsOK' /\ OthersStay(w) /\ window'[w].key = identity' /\ window'[w].step = "idle"
         /\ window'[w].file = window[w].file /\ window'[w].removed = window[w].removed
<1> DEFINE st == [window[w] EXCEPT !.step = "idle", !.key = Linked(w)]
<1>1. window[w] \in State
  BY DEF WindowsOK
<1>2. Linked(w) \in Key
  BY DEF Linked, FilesOK, Key
<1>3. /\ st \in State /\ st.step = "idle" /\ st.key = Linked(w)
      /\ st.file = window[w].file /\ st.removed = window[w].removed
  BY <1>1, <1>2 DEF State, Step
<1>4. NamesFile(st) /\ ~Holding(st)
  BY <1>3 DEF WindowsOK, NamesFile, Holding, Locked, CreateIdentity, At
<1>5. window' = [window EXCEPT ![w] = st]
  BY DEF CreateIdentity
<1> QED
  BY <1>3, <1>4, <1>5, WindowBecomes DEF CreateIdentity

LEMMA MoveAwayActs ==
  ASSUME WindowsOK, FilesOK, NEW w \in Window, MoveAway(w)
  PROVE  /\ WindowsOK' /\ OthersStay(w) /\ window'[w].step = "placing"
         /\ window'[w].key = window[w].key /\ window'[w].previous = runtime
         /\ window'[w].file = window[w].file /\ window'[w].removed = window[w].removed
<1> DEFINE st == [window[w] EXCEPT !.step = "placing", !.previous = runtime]
<1>1. window[w] \in State
  BY DEF WindowsOK
<1>2. /\ st \in State /\ st.step = "placing" /\ st.key = window[w].key /\ st.previous = runtime
      /\ st.file = window[w].file /\ st.removed = window[w].removed
  BY <1>1 DEF State, Step, FilesOK
<1>3. NamesFile(st)
  BY <1>2 DEF WindowsOK, NamesFile, MoveAway, At
<1>4. window' = [window EXCEPT ![w] = st]
  BY DEF MoveAway
<1> QED
  <2>1. window[w].step = "moving"
    BY DEF MoveAway, At
  <2>2. WindowsOK' /\ OthersStay(w) /\ window'[w] = st
    BY <1>2, <1>3, <1>4, <2>1, WindowBecomes
  <2> QED
    BY <1>2, <2>2

LEMMA PlacingEnds ==
  ASSUME WindowsOK, NEW w \in Window, window[w].step = "placing", NEW s \in {"initialize", "idle"},
         window' = [window EXCEPT ![w].step = s, ![w].previous = None]
  PROVE  /\ WindowsOK' /\ OthersStay(w) /\ window'[w].key = window[w].key /\ window'[w].step = s
         /\ window'[w].file = window[w].file /\ window'[w].removed = window[w].removed
<1> DEFINE st == [window[w] EXCEPT !.step = s, !.previous = None]
<1>1. window[w] \in State
  BY DEF WindowsOK
<1>2. /\ st \in State /\ st.step = s /\ st.key = window[w].key
      /\ st.file = window[w].file /\ st.removed = window[w].removed
  BY <1>1 DEF State, Step
<1>3. NamesFile(st) /\ ~Holding(st)
  BY <1>2 DEF WindowsOK, NamesFile, Holding, Locked
<1>4. window' = [window EXCEPT ![w] = st]
  OBVIOUS
<1>5. WindowsOK' /\ OthersStay(w) /\ window'[w] = st
  BY <1>2, <1>3, <1>4, WindowBecomes
<1> QED
  BY <1>2, <1>5

LEMMA InstallHookActs ==
  ASSUME WindowsOK, NEW w \in Window, InstallHook(w)
  PROVE  /\ WindowsOK' /\ OthersStay(w) /\ window'[w].key = window[w].key /\ window'[w].step = "lock"
         /\ window'[w].file = "mcp" /\ window'[w].removed = window[w].removed
<1> DEFINE st == [window[w] EXCEPT !.step = "lock", !.file = "mcp"]
<1>1. window[w] \in State
  BY DEF WindowsOK
<1>2. /\ st \in State /\ st.step = "lock" /\ st.key = window[w].key
      /\ st.file = "mcp" /\ st.removed = window[w].removed
  BY <1>1 DEF State, Step, File
<1>3. NamesFile(st) /\ ~Holding(st)
  BY <1>2 DEF NamesFile, Holding, Locked
<1>4. window' = [window EXCEPT ![w] = st]
  BY DEF InstallHook
<1>5. WindowsOK' /\ OthersStay(w) /\ window'[w] = st
  BY <1>2, <1>3, <1>4, WindowBecomes
<1> QED
  BY <1>2, <1>5

\* A file that needs no entry is left.  Of one that needs one, the permission file
\* has been read, and the MCP configuration is read next.
LEMMA LockConfigActs ==
  ASSUME WindowsOK, FilesOK, NEW w \in Window, LockConfig(w)
  PROVE  /\ WindowsOK' /\ OthersStay(w) /\ window'[w].key = window[w].key
         /\ \/ Registered(w, window[w].file) /\ window'[w] = Following(w)
            \/ /\ \/ window'[w].step = "snapshot" /\ window[w].file = "mcp"
                  \/ /\ window'[w].step = "check" /\ window[w].file = "policy"
                     /\ window'[w].read = config["policy"]
               /\ window'[w].file = window[w].file /\ window'[w].removed = window[w].removed
<1> DEFINE f == window[w].file
<1>1. window[w] \in State /\ f \in File
  BY DEF WindowsOK, State
<1>2. CASE Registered(w, f)
  <2>1. window' = [window EXCEPT ![w] = Following(w)]
    BY <1>2 DEF LockConfig
  <2> QED
    BY <1>2, <2>1, FollowingIsState, WindowBecomes
<1>3. CASE ~Registered(w, f) /\ f = "mcp"
  <2> DEFINE st == [window[w] EXCEPT !.step = "snapshot"]
  <2>1. /\ st \in State /\ st.step = "snapshot" /\ st.key = window[w].key
        /\ st.file = f /\ st.removed = window[w].removed
    BY <1>1 DEF State, Step
  <2>2. NamesFile(st) /\ IsFree(Locked, st.file)
    BY <1>3, <2>1 DEF NamesFile, LockConfig
  <2>3. window' = [window EXCEPT ![w] = st]
    BY <1>3 DEF LockConfig
  <2>4. WindowsOK' /\ window'[w] = st /\ OthersStay(w)
    BY <2>1, <2>2, <2>3, WindowChanges DEF OthersStay, Locked
  <2> QED
    BY <1>3, <2>1, <2>4
<1>4. CASE ~Registered(w, f) /\ f # "mcp"
  <2> DEFINE st == [window[w] EXCEPT !.step = "check", !.read = config[f]]
  <2>1. config[f] \in Document /\ f = "policy"
    BY <1>1, <1>4 DEF FilesOK, File
  <2>2. /\ st \in State /\ st.step = "check" /\ st.key = window[w].key /\ st.read = config[f]
        /\ st.file = f /\ st.removed = window[w].removed
    BY <1>1, <2>1 DEF State, Step
  <2>3. NamesFile(st) /\ IsFree(Locked, st.file)
    BY <2>2 DEF NamesFile, LockConfig
  <2>4. window' = [window EXCEPT ![w] = st]
    BY <1>4 DEF LockConfig
  <2>5. WindowsOK' /\ window'[w] = st /\ OthersStay(w)
    BY <2>2, <2>3, <2>4, WindowChanges DEF OthersStay, Locked
  <2> QED
    BY <2>1, <2>2, <2>5
<1> QED
  BY <1>2, <1>3, <1>4

LEMMA ReadConfigActs ==
  ASSUME WindowsOK, FilesOK, NEW w \in Window, ReadConfig(w)
  PROVE  /\ WindowsOK' /\ OthersStay(w) /\ window'[w].key = window[w].key
         /\ window[w].step = "snapshot" /\ window'[w].step = "check"
         /\ window[w].file = "mcp" /\ window'[w].file = "mcp"
         /\ window'[w].read = config["mcp"] /\ window'[w].removed = window[w].removed
<1> DEFINE st == [window[w] EXCEPT !.step = "check", !.read = config["mcp"]]
<1>1. window[w] \in State /\ window[w].step = "snapshot" /\ window[w].file = "mcp"
  BY DEF WindowsOK, NamesFile, ReadConfig, At, State, File
<1>2. config["mcp"] \in Document
  BY DEF FilesOK, File
<1>3. /\ st \in State /\ st.step = "check" /\ st.key = window[w].key /\ st.read = config["mcp"]
      /\ st.file = "mcp" /\ st.removed = window[w].removed
  BY <1>1, <1>2 DEF State, Step
<1>4. NamesFile(st)
  BY <1>3 DEF NamesFile
<1>5. window' = [window EXCEPT ![w] = st]
  BY DEF ReadConfig
<1>6. WindowsOK' /\ window'[w] = st /\ OthersStay(w)
  BY <1>1, <1>3, <1>4, <1>5, WindowChanges DEF OthersStay, Locked
<1> QED
  BY <1>1, <1>3, <1>6

LEMMA RenameConfigActs ==
  ASSUME WindowsOK, NEW w \in Window, RenameConfig(w)
  PROVE  /\ WindowsOK' /\ OthersStay(w) /\ window'[w].key = window[w].key
         /\ window'[w].removed = IF window[w].file = "mcp" THEN Removed(w) ELSE {}
         /\ window[w].file = "mcp" => window'[w].step = "lock" /\ window'[w].file = "policy"
         /\ window[w].file # "mcp" => window'[w].step = "after" /\ window'[w].file = "mcp"
<1> DEFINE gone == IF window[w].file = "mcp" THEN Removed(w) ELSE {}
           st == [Following(w) EXCEPT !.removed = gone]
<1>1. gone \subseteq Key
  BY DEF WindowsOK, State, Document, Removed, Stale
<1>2. /\ st \in State /\ st.step = Following(w).step /\ st.key = window[w].key
      /\ st.file = Following(w).file /\ st.removed = gone
  BY <1>1, FollowingIsState DEF State
<1>3. NamesFile(st) /\ ~Holding(st)
  BY <1>2, FollowingIsState DEF NamesFile, Holding, Locked
<1>4. window' = [window EXCEPT ![w] = st]
  BY DEF RenameConfig
<1>5. WindowsOK' /\ OthersStay(w) /\ window'[w] = st
  BY <1>2, <1>3, <1>4, WindowBecomes
<1> QED
  BY <1>2, <1>5, FollowingIsState

LEMMA InstallEnds ==
  ASSUME WindowsOK, NEW w \in Window, Abort(w) \/ Kill(w)
  PROVE  /\ WindowsOK' /\ OthersStay(w) /\ window'[w].removed = {} /\ window'[w].file = "mcp"
         /\ \/ window'[w].step = "activate"
            \/ /\ window'[w].step = "idle" /\ window'[w].key = window[w].key
               /\ window[w].step \notin {"activate", "create"}
<1>1. CASE Kill(w)
  <2>1. window' = [window EXCEPT ![w] = Closed]
    BY <1>1 DEF Kill
  <2>2. Closed.step = "activate" /\ Closed.removed = {} /\ Closed.file = "mcp" /\ ~Holding(Closed)
    BY DEF Closed, Holding, Locked
  <2> QED
    BY <2>1, <2>2, ClosedIsState, WindowBecomes
<1>2. CASE Abort(w)
  <2> DEFINE step == IF At(w, "create") THEN "activate" ELSE "idle"
             st == EndedAt(step, window[w].key)
  <2>1. window[w].key \in Key \cup {None} /\ step \in Step
    BY DEF WindowsOK, State, Step
  <2> HIDE DEF step
  <2>2. /\ st \in State /\ st.step = step /\ st.key = window[w].key /\ st.file = "mcp"
        /\ NamesFile(st) /\ st.removed = {}
    BY <2>1, EndedIsState
  <2> USE DEF step
  <2>3. ~Holding(st)
    BY <2>2 DEF Holding, Locked
  <2>4. window' = [window EXCEPT ![w] = st]
    BY <1>2 DEF Abort, EndedAt
  <2>5. WindowsOK' /\ OthersStay(w) /\ window'[w] = st
    BY <2>2, <2>3, <2>4, WindowBecomes
  <2>6. window[w].step # "activate"
    BY <1>2 DEF Abort
  <2> QED
    BY <2>2, <2>5, <2>6 DEF At
<1> QED
  BY <1>1, <1>2

GoesOn(w) == \/ BeginInstall(w) \/ LockRuntime(w) \/ Initialize(w) \/ InstallSteering(w)
            \/ MaterializeHookBridge(w) \/ CheckConfig(w) \/ Finish(w)

\* Seven actions change nothing of their window but where it is.
LEMMA GoesOnActs ==
  ASSUME WindowsOK, NEW w \in Window, GoesOn(w)
  PROVE  /\ WindowsOK' /\ OthersStay(w) /\ UNCHANGED Fields(w) /\ window'[w].step # "placing"
         /\ window[w].step \notin {"activate", "create", "placing"}
         /\ window'[w].step = "moving" => NeedsRuntime(w)
         /\ window'[w].step = "rename" => IsUnchanged(w)
         /\ window'[w].step = "ready" => IsReady(w)
         /\ window[w].file = "policy" => window'[w].step \in {"lock", "check", "rename"}
         /\ window'[w].step \in {"lock", "check", "rename"} => window[w].step \in {"lock", "check", "rename"}
<1> DEFINE Reaches(step) ==
        /\ WindowsOK' /\ OthersStay(w) /\ UNCHANGED Fields(w) /\ window'[w].step = step
<1>0. window[w].file = "policy" => window[w].step \in {"lock", "check", "rename"}
  BY DEF WindowsOK, NamesFile
<1>1. ASSUME NEW step \in Step, Goes(w, step), window[w].step \notin {"lock", "check", "rename"},
             step \notin {"snapshot", "check", "rename", "moving", "placing"}
      PROVE  Reaches(step)
  BY <1>0, <1>1, WindowGoes DEF Locked
<1>2. CASE BeginInstall(w)
  <2> DEFINE step == IF IsReady(w) THEN "ready" ELSE "runtime"
  <2>1. Goes(w, step) /\ window[w].step \in {"idle", "ready"} /\ step \in Step
    BY <1>2 DEF BeginInstall, At, Step
  <2>2. Reaches(step)
    BY <1>1, <2>1
  <2> QED
    BY <1>0, <2>1, <2>2
<1>3. CASE LockRuntime(w)
  <2>1. /\ window[w].step = "runtime" /\ IsFree({"moving", "placing"}, "mcp")
        /\ Goes(w, IF NeedsRuntime(w) THEN "moving" ELSE "initialize")
    BY <1>3 DEF LockRuntime, At
  <2>2. CASE NeedsRuntime(w)
    <3>1. Goes(w, "moving") /\ "moving" \in Step
      BY <2>1, <2>2 DEF Step
    <3>2. Reaches("moving")
      BY <1>0, <2>1, <3>1, WindowGoes DEF Locked
    <3> QED
      BY <1>0, <2>1, <2>2, <3>2
  <2>3. CASE ~NeedsRuntime(w)
    <3>1. Reaches("initialize")
      BY <1>1, <2>1, <2>3 DEF Step
    <3> QED
      BY <1>0, <2>1, <3>1
  <2> QED
    BY <2>2, <2>3
<1>4. CASE Initialize(w)
  <2> DEFINE step == IF runtime # None THEN "steering" ELSE "idle"
  <2>1. Goes(w, step) /\ window[w].step = "initialize" /\ step \in Step
    BY <1>4 DEF Initialize, At, Step
  <2>2. Reaches(step)
    BY <1>1, <2>1
  <2> QED
    BY <1>0, <2>1, <2>2
<1>5. CASE InstallSteering(w)
  <2>1. Reaches("bridge") /\ window[w].step = "steering"
    BY <1>1, <1>5 DEF InstallSteering, At, Step
  <2> QED
    BY <1>0, <2>1
<1>6. CASE MaterializeHookBridge(w)
  <2>1. Reaches("hook") /\ window[w].step = "bridge"
    BY <1>1, <1>6 DEF MaterializeHookBridge, At, Step
  <2> QED
    BY <1>0, <2>1
<1>7. CASE CheckConfig(w)
  <2>1. Goes(w, "rename") /\ window[w].step = "check" /\ IsUnchanged(w)
    BY <1>7 DEF CheckConfig, At
  <2>2. Reaches("rename")
    BY <2>1, WindowGoes DEF Step, Locked
  <2> QED
    BY <2>1, <2>2
<1>8. CASE Finish(w)
  <2> DEFINE step == IF IsReady(w) THEN "ready" ELSE "idle"
  <2>1. Goes(w, step) /\ window[w].step = "after" /\ step \in Step
    BY <1>8 DEF Finish, At, Step
  <2>2. Reaches(step)
    BY <1>1, <2>1
  <2> QED
    BY <1>0, <2>1, <2>2
<1> QED
  BY <1>2, <1>3, <1>4, <1>5, <1>6, <1>7, <1>8 DEF GoesOn

\* Of these, only the last comparison is under the lock of a user file.
LEMMA GoesUnderLock ==
  ASSUME WindowsOK, NEW w \in Window, GoesOn(w)
  PROVE  /\ window'[w].step # "snapshot"
         /\ window'[w].step \in {"check", "rename"} => window[w].step = "check"
<1>1. CASE CheckConfig(w)
  BY <1>1 DEF CheckConfig, Goes, At, WindowsOK, State
<1>2. CASE ~CheckConfig(w)
  <2>1. \E step \in Step \ {"snapshot", "check", "rename"} : Goes(w, step)
    BY <1>2 DEF GoesOn, BeginInstall, LockRuntime, Initialize, InstallSteering,
                MaterializeHookBridge, Finish, Step
  <2> QED
    BY <2>1 DEF Goes, WindowsOK, State
<1> QED
  BY <1>1, <1>2

\* The steps, by what they do to their window.
LEMMA NextActs ==
  ASSUME [Next]_vars
  PROVE  \/ \E w \in Window :
            \/ ReadIdentity(w) \/ CreateIdentity(w) \/ MoveAway(w) \/ Place(w) \/ FailToPlace(w)
            \/ InstallHook(w) \/ LockConfig(w) \/ ReadConfig(w) \/ RenameConfig(w) \/ Abort(w) \/ Kill(w)
            \/ GoesOn(w)
         \/ \E f \in File : Edit(f)
         \/ UNCHANGED vars
  BY DEF Next, GoesOn

LEMMA PlaceActs ==
  ASSUME WindowsOK, NEW w \in Window, Place(w) \/ FailToPlace(w)
  PROVE  /\ WindowsOK' /\ OthersStay(w) /\ window[w].step = "placing"
         /\ window'[w].step \in {"initialize", "idle"}
         /\ window'[w].key = window[w].key
         /\ window'[w].file = window[w].file /\ window'[w].removed = window[w].removed
  BY PlacingEnds DEF Place, FailToPlace, At

\* Every step keeps the types, and at most one window past each lock.
LEMMA InstallTypesAre == InstallTypes => TypeOK
  BY DEF InstallTypes, TypeOK, WindowsOK, FilesOK, OthersOK, State, LocksExclude

LEMMA InstallTypeStep ==
  ASSUME InstallTypes, \A w \in Window : HasKey(w), [Next]_vars
  PROVE  InstallTypes'
<1> USE DEF InstallTypes
<1>1. ASSUME NEW w \in Window, ReadIdentity(w) \/ GoesOn(w) PROVE InstallTypes'
  <2>1. WindowsOK'
    BY <1>1, ReadIdentityActs, GoesOnActs
  <2>2. /\ UNCHANGED <<version, edits, wanted, past, identity, runtime, config, hook>>
        /\ steering' \in {steering, version[w]} /\ bridge' \in {bridge, version[w]}
    BY <1>1 DEF ReadIdentity, GoesOn, BeginInstall, LockRuntime, Initialize, InstallSteering,
                MaterializeHookBridge, CheckConfig, Finish, Others, Files
  <2> QED
    BY <2>1, <2>2 DEF FilesOK, OthersOK
<1>2. ASSUME NEW w \in Window, CreateIdentity(w) PROVE InstallTypes'
  <2>1. Linked(w) \in Key
    BY DEF Linked, FilesOK, Key
  <2> QED
    BY <1>2, <2>1, CreateIdentityActs DEF CreateIdentity, FilesOK, OthersOK, Others
<1>3. ASSUME NEW w \in Window, MoveAway(w) PROVE InstallTypes'
  BY <1>3, MoveAwayActs DEF MoveAway, FilesOK, OthersOK, Others
<1>4. ASSUME NEW w \in Window, Place(w) \/ FailToPlace(w) PROVE InstallTypes'
  <2>1. WindowsOK'
    BY <1>4, PlaceActs
  <2>2. window[w].previous \in Version \cup {None} /\ version[w] \in Version
    BY DEF WindowsOK, OthersOK, State
  <2> QED
    BY <1>4, <2>1, <2>2 DEF Place, FailToPlace, MovedBack, FilesOK, OthersOK, Others, Event
<1>5. ASSUME NEW w \in Window, InstallHook(w) PROVE InstallTypes'
  <2>1. window[w].key \in Key \cup {None}
    BY DEF WindowsOK, State
  <2> QED
    BY <1>5, <2>1, InstallHookActs DEF InstallHook, FilesOK, OthersOK, Others
<1>6. ASSUME NEW w \in Window, LockConfig(w) PROVE InstallTypes'
  BY <1>6, LockConfigActs DEF LockConfig, FilesOK, OthersOK, Others, Files
<1>11. ASSUME NEW w \in Window, ReadConfig(w) PROVE InstallTypes'
  BY <1>11, ReadConfigActs DEF ReadConfig, FilesOK, OthersOK, Others, Files
<1>8. ASSUME NEW w \in Window, Abort(w) \/ Kill(w) PROVE InstallTypes'
  <2>1. past' \subseteq Event
    BY <1>8 DEF Abort, Kill, Ended, OthersOK, Event
  <2> QED
    BY <1>8, <2>1, InstallEnds DEF Abort, Kill, FilesOK, OthersOK, Others, Files
<1>9. ASSUME NEW f \in File, Edit(f) PROVE InstallTypes'
  <2>1. config[f] \in Document /\ wanted[f] \in SUBSET Entry
    BY DEF FilesOK, OthersOK
  <2>2. config' \in [File -> Document] /\ wanted' \in [File -> SUBSET Entry]
    <3>1. CASE config' = [config EXCEPT ![f].keys = {}] /\ UNCHANGED wanted
      BY <2>1, <3>1 DEF FilesOK, OthersOK, Document
    <3>2. ASSUME NEW user \in SUBSET Entry, config' = [config EXCEPT ![f].user = user],
                 wanted' = [wanted EXCEPT ![f] = user]
          PROVE config' \in [File -> Document] /\ wanted' \in [File -> SUBSET Entry]
      BY <2>1, <3>2 DEF FilesOK, OthersOK, Document
    <3>3. \A e \in Entry : config[f].user \ {e} \in SUBSET Entry /\ config[f].user \cup {e} \in SUBSET Entry
      BY <2>1 DEF Document
    <3> QED
      BY <1>9, <3>1, <3>2, <3>3 DEF Edit
  <2>3. edits' \in 0..MaxEdits /\ past' \subseteq Event
    BY <1>9 DEF Edit, OthersOK, Event, Overlooked, Overtaken
  <2>4. UNCHANGED <<version, identity, runtime, steering, bridge, hook, window>>
    BY <1>9 DEF Edit
  <2> QED
    BY <2>2, <2>3, <2>4 DEF FilesOK, OthersOK, WindowsOK, LocksExclude
<1>10. CASE UNCHANGED vars
  BY <1>10 DEF vars, FilesOK, OthersOK, WindowsOK, LocksExclude
<1>7. ASSUME NEW w \in Window, RenameConfig(w) PROVE InstallTypes'
  <2>1. Updated(w) \in Document
    <3>1. window[w].read \in Document /\ window[w].key \in Key \cup {None}
      BY DEF WindowsOK, State
    <3>2. window[w].key \in Key
      BY <1>7, <3>1 DEF RenameConfig, At, HasKey, FilesOK
    <3> QED
      BY <3>1, <3>2 DEF Updated, Removed, Document, Stale
  <2> QED
    BY <1>7, <2>1, RenameConfigActs DEF RenameConfig, FilesOK, OthersOK, Others
<1> QED
  BY <1>1, <1>2, <1>3, <1>4, <1>5, <1>6, <1>7, <1>8, <1>9, <1>10, <1>11, NextActs

-----------------------------------------------------------------------------
(* The installation key. *)

\* A key on disk stays there.
LEMMA IdentityStays == [Next]_vars => identity' = identity \/ identity = None
  BY DEF Next, vars, ReadIdentity, CreateIdentity, Linked, BeginInstall, LockRuntime, MoveAway,
         Place, FailToPlace, Initialize, InstallSteering, MaterializeHookBridge, InstallHook,
         LockConfig, ReadConfig, CheckConfig, RenameConfig, Finish, Abort, Kill, Edit, Files

\* A window gets its key from the disk, or puts its own there.
LEMMA KeyStep ==
  ASSUME InstallTypes, \A w \in Window : HasKey(w), [Next]_vars
  PROVE  \A w \in Window : HasKey(w)'
<1> USE DEF InstallTypes
<1>0. identity' = identity \/ identity = None
  BY IdentityStays
<1>1. ASSUME NEW w \in Window, OthersStay(w), HasKey(w)' PROVE \A v \in Window : HasKey(v)'
  BY <1>0, <1>1 DEF OthersStay, HasKey
<1>2. ASSUME NEW w \in Window, OthersStay(w), window'[w].key = window[w].key,
             window[w].step \notin {"activate", "create"}
      PROVE \A v \in Window : HasKey(v)'
  BY <1>0, <1>1, <1>2 DEF HasKey
<1>3. ASSUME NEW w \in Window, ReadIdentity(w) PROVE \A v \in Window : HasKey(v)'
  <2>1. HasKey(w)' /\ OthersStay(w)
    BY <1>3, ReadIdentityActs DEF ReadIdentity, Files, HasKey
  <2> QED
    BY <1>1, <2>1
<1>4. ASSUME NEW w \in Window, CreateIdentity(w) PROVE \A v \in Window : HasKey(v)'
  <2>1. identity' # None
    BY <1>4 DEF CreateIdentity, Linked
  <2>2. HasKey(w)' /\ OthersStay(w)
    BY <1>4, <2>1, CreateIdentityActs DEF HasKey
  <2> QED
    BY <1>1, <2>2
<1>5. ASSUME NEW w \in Window, MoveAway(w) \/ Place(w) \/ FailToPlace(w) PROVE \A v \in Window : HasKey(v)'
  BY <1>2, <1>5, MoveAwayActs, PlaceActs DEF MoveAway, At
<1>6. ASSUME NEW w \in Window, InstallHook(w) \/ LockConfig(w) \/ ReadConfig(w) \/ RenameConfig(w)
      PROVE \A v \in Window : HasKey(v)'
  BY <1>2, <1>6, InstallHookActs, LockConfigActs, ReadConfigActs, RenameConfigActs
     DEF InstallHook, LockConfig, RenameConfig, At
<1>7. ASSUME NEW w \in Window, Abort(w) \/ Kill(w) PROVE \A v \in Window : HasKey(v)'
  <2>1. CASE window'[w].step = "activate"
    BY <1>1, <1>7, <2>1, InstallEnds DEF HasKey
  <2> QED
    BY <1>2, <1>7, <2>1, InstallEnds
<1>8. ASSUME NEW w \in Window, GoesOn(w) PROVE \A v \in Window : HasKey(v)'
  <2>1. window'[w].key = window[w].key
    BY <1>8, GoesOnActs DEF Fields
  <2> QED
    BY <1>2, <1>8, <2>1, GoesOnActs
<1>9. ASSUME UNCHANGED <<window, identity>> PROVE \A v \in Window : HasKey(v)'
  BY <1>9 DEF HasKey
<1>10. ASSUME NEW f \in File, Edit(f) PROVE \A v \in Window : HasKey(v)'
  BY <1>9, <1>10 DEF Edit
<1>11. CASE UNCHANGED vars
  BY <1>9, <1>11 DEF vars
<1> QED
  BY <1>3, <1>4, <1>5, <1>6, <1>7, <1>8, <1>10, <1>11, NextActs

-----------------------------------------------------------------------------
(* The runtime. *)

\* The runtime is replaced by one window at a time, which moves back what it cannot
\* replace.
LEMMA RuntimeStep ==
  ASSUME InstallTypes, \A w \in Window : ReplacesRuntime(w), RuntimeIsThere, [Next]_vars
  PROVE  (\A w \in Window : ReplacesRuntime(w))' /\ RuntimeIsThere'
<1> USE DEF InstallTypes
<1> DEFINE Good == (\A w \in Window : ReplacesRuntime(w)) /\ RuntimeIsThere
<1> SUFFICES Good'
  OBVIOUS
<1>0. \A v, w \in Window : v # w => ~({window[v].step, window[w].step} \subseteq {"moving", "placing"})
  BY DEF WindowsOK, LocksExclude
<1>1. ASSUME NEW w \in Window, OthersStay(w), window[w].step # "placing", window'[w].step # "placing",
             window'[w].step = "moving" => NeedsRuntime(w),
             UNCHANGED <<runtime, version>>, past' \cap {"placed", "killed"} = past \cap {"placed", "killed"}
      PROVE Good'
  <2>1. \A v \in Window \ {w} : ReplacesRuntime(v)'
    BY <1>1 DEF OthersStay, ReplacesRuntime, At
  <2>2. ReplacesRuntime(w)'
    BY <1>1 DEF ReplacesRuntime, At, NeedsRuntime, RuntimeIsCurrent
  <2>3. RuntimeIsThere'
    BY <1>1 DEF RuntimeIsThere, OthersStay, At
  <2> QED
    BY <2>1, <2>2, <2>3
<1>2. ASSUME NEW w \in Window, ReadIdentity(w) \/ CreateIdentity(w) PROVE Good'
  BY <1>1, <1>2, ReadIdentityActs, CreateIdentityActs DEF ReadIdentity, CreateIdentity, At, Files, Others
<1>3. ASSUME NEW w \in Window, MoveAway(w) PROVE Good'
  <2>1. /\ OthersStay(w) /\ window'[w].step = "placing" /\ window'[w].previous = runtime
        /\ runtime' = None /\ window[w].step = "moving"
        /\ UNCHANGED <<past, version>>
    BY <1>3, MoveAwayActs DEF MoveAway, At, Others
  <2>2. \A v \in Window : window[v].step # "placing"
    BY <1>0, <2>1
  <2>3. "placed" \in past /\ "killed" \notin past => runtime # None
    BY <2>2 DEF RuntimeIsThere, At
  <2>4. \A v \in Window \ {w} : window'[v].step \notin {"moving", "placing"}
    BY <1>0, <2>1 DEF OthersStay
  <2> QED
    BY <2>1, <2>3, <2>4 DEF ReplacesRuntime, RuntimeIsThere, At
<1>4. ASSUME NEW w \in Window, Place(w) \/ FailToPlace(w) PROVE Good'
  <2>1. /\ OthersStay(w) /\ window'[w].step \notin {"moving", "placing"} /\ window[w].step = "placing"
    BY <1>4, PlaceActs
  <2>2. \A v \in Window : window'[v].step \notin {"moving", "placing"}
    BY <1>0, <2>1 DEF OthersStay
  <2>3. CASE Place(w)
    <3>1. runtime' # None
      BY <2>3 DEF Place, OthersOK
    <3> QED
      BY <2>2, <3>1 DEF ReplacesRuntime, RuntimeIsThere, At
  <2>4. CASE FailToPlace(w)
    <3>1. "placed" \in past /\ "killed" \notin past => runtime' # None
      BY <2>1, <2>4 DEF FailToPlace, MovedBack, ReplacesRuntime, At
    <3> QED
      BY <2>2, <2>4, <3>1 DEF FailToPlace, ReplacesRuntime, RuntimeIsThere, At
  <2> QED
    BY <1>4, <2>3, <2>4
<1>5. ASSUME NEW w \in Window, InstallHook(w) \/ RenameConfig(w) PROVE Good'
  BY <1>1, <1>5, InstallHookActs, RenameConfigActs DEF InstallHook, RenameConfig, At, Others
<1>6. ASSUME NEW w \in Window, LockConfig(w) PROVE Good'
  BY <1>1, <1>6, LockConfigActs, FollowingIsState DEF LockConfig, At, Others, Files, Holding, Locked
<1>13. ASSUME NEW w \in Window, ReadConfig(w) PROVE Good'
  BY <1>1, <1>13, ReadConfigActs DEF ReadConfig, Others, Files
<1>7. ASSUME NEW w \in Window, Abort(w) \/ Kill(w), window[w].step # "placing" PROVE Good'
  <2>1. past' \cap {"placed", "killed"} = past \cap {"placed", "killed"}
    BY <1>7 DEF Abort, Kill, Ended, At
  <2>2. UNCHANGED <<runtime, version>> /\ OthersStay(w) /\ window'[w].step \notin {"moving", "placing"}
    BY <1>7, InstallEnds DEF Abort, Kill, Others, Files
  <2> QED
    BY <1>1, <1>7, <2>1, <2>2
<1>8. ASSUME NEW w \in Window, Abort(w) \/ Kill(w), window[w].step = "placing" PROVE Good'
  <2>1. "killed" \in past'
    BY <1>8 DEF Abort, Kill, At
  <2>2. UNCHANGED <<runtime, version>> /\ OthersStay(w) /\ window'[w].step \notin {"moving", "placing"}
    BY <1>8, InstallEnds DEF Abort, Kill, Others, Files
  <2>3. \A v \in Window : window'[v].step \notin {"moving", "placing"}
    BY <1>0, <1>8, <2>2 DEF OthersStay
  <2> QED
    BY <2>1, <2>3 DEF ReplacesRuntime, RuntimeIsThere, At
<1>9. ASSUME NEW w \in Window, GoesOn(w) PROVE Good'
  <2>1. UNCHANGED <<runtime, version, past>>
    BY <1>9 DEF GoesOn, BeginInstall, LockRuntime, Initialize, InstallSteering,
                MaterializeHookBridge, CheckConfig, Finish, Others, Files
  <2> QED
    BY <1>1, <1>9, <2>1, GoesOnActs
<1>10. ASSUME UNCHANGED <<window, runtime, version>>,
              past' \cap {"placed", "killed"} = past \cap {"placed", "killed"} PROVE Good'
  BY <1>10 DEF ReplacesRuntime, RuntimeIsThere, At
<1>11. ASSUME NEW f \in File, Edit(f) PROVE Good'
  BY <1>10, <1>11 DEF Edit, Overlooked, Overtaken
<1>12. CASE UNCHANGED vars
  BY <1>10, <1>12 DEF vars
<1> QED
  BY <1>2, <1>3, <1>4, <1>5, <1>6, <1>7, <1>8, <1>9, <1>11, <1>12, <1>13, NextActs

-----------------------------------------------------------------------------
(* The user files. *)

\* What a rename writes.
LEMMA Rewrites ==
  ASSUME InstallTypes, NEW w \in Window, RenameConfig(w)
  PROVE  LET f == window[w].file IN
         /\ f \in File /\ window[w].step = "rename"
         /\ \A g \in File \ {f} : config'[g] = config[g]
         /\ config'[f].user = (IF f = "mcp" THEN window[w].read.user \ {Clash} ELSE window[w].read.user)
         /\ f = "mcp" => config'[f].keys = (window[w].read.keys \cap {window[w].key}) \cup {window[w].key}
         /\ f # "mcp" => config'[f].keys =
                (window[w].read.keys \ window[w].removed) \cup {window[w].key}
         /\ UNCHANGED <<version, edits, wanted, past, identity, runtime, steering, bridge, hook>>
<1> USE DEF InstallTypes
<1> DEFINE f == window[w].file
<1>1. f \in File /\ window[w].read \in Document
  BY DEF WindowsOK, State
<1>2. config'[f] = Updated(w) /\ \A g \in File \ {f} : config'[g] = config[g]
  BY <1>1 DEF RenameConfig, FilesOK
<1>3. /\ Updated(w).user = IF f = "mcp" THEN window[w].read.user \ {Clash} ELSE window[w].read.user
      /\ Updated(w).keys = (IF f = "mcp" THEN window[w].read.keys \ Stale(w, window[w].read.keys)
                            ELSE window[w].read.keys \ window[w].removed) \cup {window[w].key}
  BY <1>1 DEF Updated, Removed, Document
<1>4. window[w].read.keys \ Stale(w, window[w].read.keys) = window[w].read.keys \cap {window[w].key}
  BY DEF Stale
<1> QED
  BY <1>1, <1>2, <1>3, <1>4 DEF RenameConfig, Others, At

\* Where the edit of a user is lost it was late.
EditsInv == /\ \A w \in Window : RenamesOverRead(w) /\ ReadsUnseen(w)
            /\ LateIsEdited /\ EditsSurvive

LEMMA EditsStep ==
  ASSUME InstallTypes, EditsInv, [Next]_vars
  PROVE  EditsInv'
<1> USE DEF InstallTypes, EditsInv
<1>1. ASSUME NEW w \in Window, OthersStay(w), RenamesOverRead(w)', ReadsUnseen(w)',
             UNCHANGED <<config, edits, wanted>>,
             past' \cap {"late", "unseen"} = past \cap {"late", "unseen"}
      PROVE EditsInv'
  <2>1. \A v \in Window \ {w} : RenamesOverRead(v)'
    BY <1>1 DEF OthersStay, RenamesOverRead, At
  <2>2. \A v \in Window \ {w} : ReadsUnseen(v)'
    BY <1>1 DEF OthersStay, ReadsUnseen, At
  <2>3. EditsSurvive'
    BY <1>1 DEF EditsSurvive
  <2> QED
    BY <1>1, <2>1, <2>2, <2>3 DEF LateIsEdited
\* Most steps are not under the lock of a user file.
<1>L. ASSUME NEW w \in Window, OthersStay(w), window'[w].step \notin Locked,
             UNCHANGED <<config, edits, wanted>>,
             past' \cap {"late", "unseen"} = past \cap {"late", "unseen"}
      PROVE EditsInv'
  <2>1. RenamesOverRead(w)' /\ ReadsUnseen(w)'
    BY <1>L DEF RenamesOverRead, ReadsUnseen, At, Locked
  <2> QED
    BY <1>1, <1>L, <2>1
<1>2. ASSUME NEW w \in Window, ReadIdentity(w) \/ CreateIdentity(w) PROVE EditsInv'
  BY <1>L, <1>2, ReadIdentityActs, CreateIdentityActs
     DEF ReadIdentity, CreateIdentity, Files, Others, Locked
<1>3. ASSUME NEW w \in Window, MoveAway(w) \/ Place(w) \/ FailToPlace(w) PROVE EditsInv'
  <2>1. OthersStay(w) /\ window'[w].step \notin Locked
    BY <1>3, MoveAwayActs, PlaceActs DEF Locked
  <2> QED
    BY <1>L, <1>3, <2>1 DEF MoveAway, Place, FailToPlace, Others
<1>4. ASSUME NEW w \in Window, InstallHook(w) PROVE EditsInv'
  BY <1>L, <1>4, InstallHookActs DEF InstallHook, Others, Locked
<1>5. ASSUME NEW w \in Window, LockConfig(w) PROVE EditsInv'
  <2>1. UNCHANGED <<config, edits, wanted, past>> /\ OthersStay(w)
    BY <1>5, LockConfigActs DEF LockConfig, Files, Others
  <2>2. CASE Registered(w, window[w].file) /\ window'[w] = Following(w)
    <3>1. window'[w].step \notin Locked
      BY <2>2, FollowingIsState DEF Holding
    <3> QED
      BY <1>L, <2>1, <3>1
  <2>3. CASE window'[w].step = "snapshot" /\ window[w].file = "mcp"
    <3>1. Clash \notin config["mcp"].user
      BY <1>5, <2>3 DEF LockConfig, Conflicts
    <3>2. RenamesOverRead(w)' /\ ReadsUnseen(w)'
      BY <2>1, <2>3, <3>1 DEF RenamesOverRead, ReadsUnseen, At
    <3> QED
      BY <1>1, <2>1, <3>2
  <2>4. CASE window'[w].step = "check" /\ window'[w].file = "policy"
    <3>1. RenamesOverRead(w)' /\ ReadsUnseen(w)'
      BY <2>4 DEF RenamesOverRead, ReadsUnseen, At
    <3> QED
      BY <1>1, <2>1, <3>1
  <2> QED
    BY <1>5, <2>2, <2>3, <2>4, LockConfigActs
<1>R. ASSUME NEW w \in Window, ReadConfig(w) PROVE EditsInv'
  <2>1. UNCHANGED <<config, edits, wanted, past>>
    BY <1>R DEF ReadConfig, Files, Others
  <2>2. /\ OthersStay(w) /\ window[w].step = "snapshot" /\ window'[w].step = "check"
        /\ window'[w].read = config["mcp"]
    BY <1>R, ReadConfigActs
  <2>3. RenamesOverRead(w)' /\ ReadsUnseen(w)'
    BY <2>1, <2>2 DEF RenamesOverRead, ReadsUnseen, At
  <2> QED
    BY <1>1, <2>1, <2>2, <2>3
\* Only the user's entry under our key is not written back, and it was not seen.
<1>6. ASSUME NEW w \in Window, RenameConfig(w) PROVE EditsInv'
  <2> DEFINE f == window[w].file
  <2>1. /\ f \in File /\ window[w].step = "rename"
        /\ \A g \in File \ {f} : config'[g] = config[g]
        /\ config'[f].user = (IF f = "mcp" THEN window[w].read.user \ {Clash} ELSE window[w].read.user)
        /\ UNCHANGED <<edits, wanted, past>>
    BY <1>6, Rewrites
  <2>2. OthersStay(w) /\ window'[w].step \notin {"snapshot", "check", "rename"}
    BY <1>6, RenameConfigActs DEF WindowsOK, State, File
  <2>3. \A v \in Window \ {w} : RenamesOverRead(v)'
    <3> SUFFICES ASSUME NEW v \in Window \ {w}, window[v].step = "rename", "late" \notin past
                 PROVE  window[v].read = config'[window[v].file]
      BY <2>1, <2>2 DEF RenamesOverRead, At, OthersStay
    <3>1. window[v].file \in File \ {f}
      BY <2>1 DEF WindowsOK, LocksExclude, Locked, State
    <3>2. window[v].read = config[window[v].file]
      BY DEF RenamesOverRead, At
    <3> QED
      BY <2>1, <3>1, <3>2
  <2>4. \A v \in Window \ {w} : ReadsUnseen(v)'
    <3> SUFFICES ASSUME NEW v \in Window \ {w} PROVE ReadsUnseen(v)'
      OBVIOUS
    <3>1. Clash \in config'["mcp"].user => Clash \in config["mcp"].user
      BY <2>1 DEF File
    <3>2. window'[v] = window[v] /\ ReadsUnseen(v)
      BY <2>2 DEF OthersStay
    <3> QED
      BY <2>1, <3>1, <3>2 DEF ReadsUnseen, At
  <2>5. RenamesOverRead(w)' /\ ReadsUnseen(w)'
    BY <2>2 DEF RenamesOverRead, ReadsUnseen, At
  <2>6. EditsSurvive'
    <3> SUFFICES ASSUME "late" \notin past, NEW g \in File
                 PROVE  \/ config'[g].user = wanted[g]
                        \/ g = "mcp" /\ "unseen" \in past /\ config'[g].user = wanted[g] \ {Clash}
      BY <2>1 DEF EditsSurvive
    <3>1. \/ config[g].user = wanted[g]
          \/ g = "mcp" /\ "unseen" \in past /\ config[g].user = wanted[g] \ {Clash}
      BY DEF EditsSurvive
    <3>2. CASE g # f
      BY <2>1, <3>1, <3>2
    <3>3. CASE g = f /\ f # "mcp"
      BY <2>1, <3>1, <3>3 DEF RenamesOverRead, At
    <3>4. CASE g = f /\ f = "mcp"
      <4>1. config'[g].user = config[g].user \ {Clash}
        BY <2>1, <3>4 DEF RenamesOverRead, At
      <4>2. CASE Clash \in config[g].user
        <5>1. "unseen" \in past
          BY <2>1, <3>4, <4>2 DEF RenamesOverRead, ReadsUnseen, At
        <5> QED
          BY <3>1, <3>4, <4>1, <5>1
      <4>3. CASE Clash \notin config[g].user
        <5>1. config'[g].user = config[g].user
          BY <4>1, <4>3
        <5> QED
          BY <3>1, <5>1
      <4> QED
        BY <4>2, <4>3
    <3> QED
      BY <3>2, <3>3, <3>4
  <2> QED
    BY <2>1, <2>3, <2>4, <2>5, <2>6 DEF LateIsEdited
<1>7. ASSUME NEW w \in Window, Abort(w) \/ Kill(w) PROVE EditsInv'
  <2>1. /\ UNCHANGED <<config, edits, wanted>>
        /\ past' \cap {"late", "unseen"} = past \cap {"late", "unseen"}
    BY <1>7 DEF Abort, Kill, Ended, Others, Files
  <2>2. OthersStay(w) /\ window'[w].step \notin Locked
    BY <1>7, InstallEnds DEF Locked
  <2> QED
    BY <1>L, <2>1, <2>2
<1>8. ASSUME NEW w \in Window, GoesOn(w) PROVE EditsInv'
  <2>1. UNCHANGED <<config, edits, wanted, past>>
    BY <1>8 DEF GoesOn, BeginInstall, LockRuntime, Initialize, InstallSteering,
                MaterializeHookBridge, CheckConfig, Finish, Others, Files
  <2>2. /\ window'[w].step = "rename" => IsUnchanged(w)
        /\ window'[w].file = window[w].file /\ window'[w].read = window[w].read /\ OthersStay(w)
    BY <1>8, GoesOnActs DEF Fields
  <2>3. RenamesOverRead(w)'
    BY <2>1, <2>2 DEF RenamesOverRead, IsUnchanged, At
  <2>4. /\ window'[w].step # "snapshot"
        /\ window'[w].step \in {"check", "rename"} => window[w].step = "check"
    BY <1>8, GoesUnderLock
  <2>5. ReadsUnseen(w)'
    BY <2>1, <2>2, <2>4 DEF ReadsUnseen, At
  <2> QED
    BY <1>1, <2>1, <2>2, <2>3, <2>5
<1>9. ASSUME NEW f \in File, Edit(f) PROVE EditsInv'
  <2>1. /\ UNCHANGED window /\ edits' # 0 /\ past \subseteq past'
        /\ "late" \notin past' => IsFree({"rename"}, f)
    BY <1>9 DEF Edit, OthersOK, Overlooked, Overtaken
  <2>2. \A g \in File \ {f} : config'[g] = config[g] /\ wanted'[g] = wanted[g]
    BY <1>9 DEF Edit, FilesOK, OthersOK
  <2>3. \/ config'[f].user = wanted'[f] /\ Overlooked(f, config'[f].user) \subseteq past'
        \/ config'[f].user = config[f].user /\ wanted' = wanted
    <3>1. config[f] \in Document
      BY DEF FilesOK
    <3>2. CASE config' = [config EXCEPT ![f].keys = {}] /\ UNCHANGED wanted
      BY <3>1, <3>2 DEF FilesOK, Document
    <3>3. ASSUME NEW user, config' = [config EXCEPT ![f].user = user],
                 wanted' = [wanted EXCEPT ![f] = user],
                 past' = past \cup Overlooked(f, user) \cup Overtaken(f)
          PROVE  config'[f].user = wanted'[f] /\ Overlooked(f, config'[f].user) \subseteq past'
      <4>1. config'[f].user = user /\ wanted'[f] = user
        BY <3>1, <3>3 DEF FilesOK, OthersOK, Document
      <4>2. Overlooked(f, user) \subseteq past'
        BY <3>3
      <4> QED
        BY <4>1, <4>2
    <3> QED
      BY <1>9, <3>2, <3>3 DEF Edit
  <2>4. EditsSurvive'
    BY <2>1, <2>2, <2>3 DEF EditsSurvive
  <2>5. ASSUME NEW w \in Window PROVE RenamesOverRead(w)'
    <3>1. window[w].file \in File
      BY DEF WindowsOK, State
    <3> QED
      BY <2>1, <2>2, <3>1 DEF RenamesOverRead, At, IsFree
  <2>6. ASSUME NEW w \in Window PROVE ReadsUnseen(w)'
    <3>1. CASE window[w].step = "snapshot" /\ Clash \in config'["mcp"].user
      <4>1. window[w].file = "mcp" /\ ReadsUnseen(w)
        BY <3>1 DEF WindowsOK, NamesFile, State, File
      <4>2. CASE Clash \in config["mcp"].user
        BY <2>1, <3>1, <4>1, <4>2 DEF ReadsUnseen, At
      <4>3. CASE Clash \notin config["mcp"].user
        <5>1. f = "mcp" /\ Overlooked(f, config'[f].user) \subseteq past'
          BY <2>2, <2>3, <3>1, <4>3 DEF File
        <5>2. ~IsFree({"snapshot"}, "mcp")
          BY <3>1, <4>1 DEF IsFree
        <5> QED
          BY <2>1, <3>1, <4>3, <5>1, <5>2 DEF Overlooked, ReadsUnseen, At
      <4> QED
        BY <4>2, <4>3
    <3>2. CASE window[w].step # "snapshot" \/ Clash \notin config'["mcp"].user
      BY <2>1, <3>2 DEF ReadsUnseen, At
    <3> QED
      BY <3>1, <3>2
  <2> QED
    BY <2>1, <2>4, <2>5, <2>6 DEF LateIsEdited
<1>10. CASE UNCHANGED vars
  BY <1>10 DEF vars, RenamesOverRead, ReadsUnseen, LateIsEdited, EditsSurvive, At
<1> QED
  BY <1>2, <1>3, <1>4, <1>5, <1>6, <1>7, <1>8, <1>9, <1>10, <1>R, NextActs

-----------------------------------------------------------------------------
(* Rules of keys that are not registered any more. *)

OwedInv == (\A w \in Window : OwesWhileAtPolicy(w)) /\ StaleRulesAreOwed

LEMMA OwedStep ==
  ASSUME InstallTypes, \A w \in Window : HasKey(w), EditsInv, OwedInv, [Next]_vars
  PROVE  OwedInv'
<1> USE DEF InstallTypes, OwedInv
<1>1. ASSUME NEW w \in Window, OthersStay(w), OwesWhileAtPolicy(w)',
             window'[w].removed = window[w].removed,
             UNCHANGED <<config, edits>>, "orphaned" \in past => "orphaned" \in past'
      PROVE OwedInv'
  <2>1. \A v \in Window \ {w} : OwesWhileAtPolicy(v)'
    BY <1>1 DEF OthersStay, OwesWhileAtPolicy
  <2>2. \A v \in Window : window'[v].removed = window[v].removed
    BY <1>1 DEF OthersStay
  <2>3. StaleRulesAreOwed'
    BY <1>1, <2>2 DEF StaleRulesAreOwed
  <2> QED
    BY <1>1, <2>1, <2>3
\* A window that owes nothing may go where it likes.
<1>2. ASSUME NEW w \in Window, OthersStay(w),
             window[w].step \notin {"lock", "check", "rename"},
             window'[w].removed = window[w].removed, window'[w].file # "policy",
             UNCHANGED <<config, edits>>, "orphaned" \in past => "orphaned" \in past'
      PROVE OwedInv'
  <2>1. OwesWhileAtPolicy(w)'
    BY <1>2 DEF OwesWhileAtPolicy
  <2> QED
    BY <1>1, <1>2, <2>1
<1>3. \A w \in Window : window[w].file # "policy" \/ window[w].step \in {"lock", "check", "rename"}
  BY DEF WindowsOK, NamesFile
<1>4. ASSUME NEW w \in Window, ReadIdentity(w) \/ CreateIdentity(w) PROVE OwedInv'
  BY <1>2, <1>3, <1>4, ReadIdentityActs, CreateIdentityActs
     DEF ReadIdentity, CreateIdentity, At, Files, Others
<1>5. ASSUME NEW w \in Window, MoveAway(w) \/ Place(w) \/ FailToPlace(w) PROVE OwedInv'
  <2>1. /\ OthersStay(w) /\ window'[w].removed = window[w].removed
        /\ window'[w].file = window[w].file /\ window[w].step \notin {"lock", "check", "rename"}
    BY <1>5, MoveAwayActs, PlaceActs DEF MoveAway, At
  <2>2. UNCHANGED <<config, edits>> /\ past \subseteq past'
    BY <1>5 DEF MoveAway, Place, FailToPlace, Others
  <2> QED
    BY <1>2, <1>3, <2>1, <2>2
<1>6. ASSUME NEW w \in Window, InstallHook(w) PROVE OwedInv'
  BY <1>2, <1>6, InstallHookActs DEF InstallHook, At, Others
\* A file that needs no entry of this key has none that is owed.
<1>7. ASSUME NEW w \in Window, LockConfig(w) PROVE OwedInv'
  <2> DEFINE f == window[w].file
  <2>1. /\ OthersStay(w) /\ UNCHANGED <<config, edits, past>> /\ window[w].step = "lock"
        /\ window'[w].key = window[w].key /\ f \in File
    BY <1>7, LockConfigActs DEF LockConfig, At, Others, Files, WindowsOK, State
  <2>2. CASE /\ \/ window'[w].step = "check"
                \/ window'[w].step = "snapshot" /\ f = "mcp"
             /\ window'[w].file = f /\ window'[w].removed = window[w].removed
    <3>1. OwesWhileAtPolicy(w)'
      BY <2>1, <2>2 DEF OwesWhileAtPolicy
    <3> QED
      BY <1>1, <2>1, <2>2, <3>1
  <2>3. CASE Registered(w, f) /\ window'[w] = Following(w)
    <3>1. window'[w].removed = {}
      BY <2>3, FollowingIsState
    <3>2. OwesWhileAtPolicy(w)'
      BY <2>1, <2>3, <3>1, FollowingIsState DEF OwesWhileAtPolicy, Registered, File
    <3>3. \A v \in Window \ {w} : OwesWhileAtPolicy(v)'
      BY <2>1 DEF OthersStay, OwesWhileAtPolicy
    <3>4. window[w].removed \cap config["policy"].keys = {}
      BY <2>1, <2>3 DEF OwesWhileAtPolicy, Registered, File
    <3>5. StaleRulesAreOwed'
      BY <2>1, <3>4 DEF StaleRulesAreOwed, OthersStay
    <3> QED
      BY <3>2, <3>3, <3>5
  <2> QED
    BY <1>7, <2>2, <2>3, LockConfigActs
<1>13. ASSUME NEW w \in Window, ReadConfig(w) PROVE OwedInv'
  <2>1. UNCHANGED <<config, edits, past>>
    BY <1>13 DEF ReadConfig, Files, Others
  <2>2. /\ OthersStay(w) /\ window[w].step = "snapshot" /\ window'[w].file = "mcp"
        /\ window'[w].removed = window[w].removed
    BY <1>13, ReadConfigActs
  <2> QED
    BY <1>2, <2>1, <2>2
<1>8. ASSUME NEW w \in Window, RenameConfig(w) PROVE OwedInv'
  <2> DEFINE f == window[w].file
  <2>1. /\ f \in File /\ window[w].step = "rename" /\ UNCHANGED <<edits, past, identity>>
        /\ \A g \in File \ {f} : config'[g] = config[g]
        /\ f = "mcp" => config'[f].keys = (window[w].read.keys \cap {window[w].key}) \cup {window[w].key}
        /\ f # "mcp" => config'[f].keys =
                (window[w].read.keys \ window[w].removed) \cup {window[w].key}
    BY <1>8, Rewrites
  <2>2. /\ OthersStay(w) /\ window'[w].key = window[w].key
        /\ window'[w].removed = (IF f = "mcp" THEN Removed(w) ELSE {})
        /\ f = "mcp" => window'[w].step = "lock" /\ window'[w].file = "policy"
        /\ f # "mcp" => window'[w].step = "after" /\ window'[w].file = "mcp"
    BY <1>8, RenameConfigActs
  <2>3. edits = 0 => window[w].read = config[f]
    BY <2>1 DEF EditsInv, LateIsEdited, RenamesOverRead, At
  <2>4. \A v \in Window : window[v].step \in {"lock", "check", "rename"} => window[v].key = window[w].key
    BY <2>1 DEF HasKey
  <2>5. CASE f = "mcp"
    <3>1. /\ config'["mcp"].keys = {window[w].key} /\ config'["policy"] = config["policy"]
          /\ window'[w].removed = Removed(w) /\ window'[w].step = "lock" /\ window'[w].file = "policy"
      BY <2>1, <2>2, <2>5 DEF File
    <3>2. \A v \in Window \ {w} : OwesWhileAtPolicy(v)'
      BY <2>1, <2>2, <2>4, <3>1 DEF OthersStay, OwesWhileAtPolicy
    <3>3. OwesWhileAtPolicy(w)'
      BY <2>2, <3>1 DEF OwesWhileAtPolicy
    <3>4. window[w].removed = {}
      BY <2>5 DEF OwesWhileAtPolicy
    <3>5. StaleRulesAreOwed'
      <4> SUFFICES ASSUME edits = 0, "orphaned" \notin past,
                          NEW k \in config["policy"].keys, k # window[w].key
                   PROVE  \E v \in Window : k \in window'[v].removed
        BY <2>1, <3>1 DEF StaleRulesAreOwed
      <4>1. CASE k \in config["mcp"].keys
        BY <2>3, <2>5, <3>1, <4>1 DEF Removed, Stale
      <4>2. CASE k \notin config["mcp"].keys
        BY <2>2, <3>4, <4>2 DEF StaleRulesAreOwed, OthersStay
      <4> QED
        BY <4>1, <4>2
    <3> QED
      BY <3>2, <3>3, <3>5
  <2>6. CASE f = "policy"
    <3>1. /\ config'["policy"].keys = (window[w].read.keys \ window[w].removed) \cup {window[w].key}
          /\ config'["mcp"] = config["mcp"]
          /\ window'[w].removed = {} /\ window'[w].step = "after"
      BY <2>1, <2>2, <2>6 DEF File
    <3>2. \A v \in Window \ {w} : OwesWhileAtPolicy(v)'
      BY <2>1, <2>2, <3>1 DEF OthersStay, OwesWhileAtPolicy
    <3>3. OwesWhileAtPolicy(w)'
      BY <3>1 DEF OwesWhileAtPolicy
    <3>4. edits = 0 => window[w].key \in config["mcp"].keys
      BY <2>1, <2>6 DEF OwesWhileAtPolicy
    <3>5. StaleRulesAreOwed'
      <4> SUFFICES ASSUME edits = 0, "orphaned" \notin past,
                          NEW k \in config["policy"].keys \ config["mcp"].keys,
                          k \notin window[w].removed
                   PROVE  \E v \in Window : k \in window'[v].removed
        BY <2>1, <2>3, <2>6, <3>1, <3>4 DEF StaleRulesAreOwed
      <4> QED
        BY <2>2 DEF StaleRulesAreOwed, OthersStay
    <3> QED
      BY <3>2, <3>3, <3>5
  <2> QED
    BY <2>1, <2>5, <2>6 DEF File
\* What ends here leaves nothing owed, or is remembered.
<1>9. ASSUME NEW w \in Window, Abort(w) \/ Kill(w) PROVE OwedInv'
  <2>1. OthersStay(w) /\ window'[w].removed = {} /\ window'[w].file = "mcp"
    BY <1>9, InstallEnds
  <2>2. /\ UNCHANGED <<config, edits>> /\ past \subseteq past'
        /\ window[w].removed \cap config["policy"].keys = {} \/ "orphaned" \in past'
    BY <1>9 DEF Abort, Kill, Ended, Others, Files
  <2>3. \A v \in Window : OwesWhileAtPolicy(v)'
    BY <2>1, <2>2 DEF OthersStay, OwesWhileAtPolicy
  <2>4. StaleRulesAreOwed'
    BY <2>1, <2>2 DEF StaleRulesAreOwed, OthersStay
  <2> QED
    BY <2>3, <2>4
<1>10. ASSUME NEW w \in Window, GoesOn(w) PROVE OwedInv'
  <2>1. UNCHANGED <<config, edits, past>>
    BY <1>10 DEF GoesOn, BeginInstall, LockRuntime, Initialize, InstallSteering,
                MaterializeHookBridge, CheckConfig, Finish, Others, Files
  <2>2. /\ OthersStay(w) /\ window'[w].removed = window[w].removed
        /\ window'[w].file = window[w].file /\ window'[w].key = window[w].key
        /\ window[w].file = "policy" => window'[w].step \in {"lock", "check", "rename"}
        /\ window'[w].step \in {"lock", "check", "rename"} => window[w].step \in {"lock", "check", "rename"}
    BY <1>10, GoesOnActs DEF Fields
  <2>3. OwesWhileAtPolicy(w)'
    BY <2>1, <2>2 DEF OwesWhileAtPolicy
  <2> QED
    BY <1>1, <2>1, <2>2, <2>3
<1>11. ASSUME NEW f \in File, Edit(f) PROVE OwedInv'
  <2>1. UNCHANGED window /\ edits' # 0
    BY <1>11 DEF Edit, OthersOK
  <2> QED
    BY <2>1 DEF OwesWhileAtPolicy, StaleRulesAreOwed
<1>12. CASE UNCHANGED vars
  BY <1>12 DEF vars, OwesWhileAtPolicy, StaleRulesAreOwed
<1> QED
  BY <1>4, <1>5, <1>6, <1>7, <1>8, <1>9, <1>10, <1>11, <1>12, <1>13, NextActs

-----------------------------------------------------------------------------
(* What an install has reported. *)

\* What is ready stays ready when what a step writes is of the same version and
\* the same key, and nothing of the user's.
LEMMA ReadyStays ==
  ASSUME NEW v \in Window, IsReady(v), window'[v] = window[v], version' = version,
         runtime' = runtime,
         steering' \in {steering, version[v]}, bridge' \in {bridge, version[v]},
         hook' \in {hook, window[v].key},
         \A f \in File : config'[f].user = config[f].user /\ window[v].key \in config'[f].keys,
         config'["mcp"].keys \subseteq config["mcp"].keys \cup {window[v].key}
  PROVE  IsReady(v)'
  BY DEF IsReady, RuntimeIsCurrent, Conflicts, Stale

LEMMA SuccessStep ==
  ASSUME InstallTypes, \A w \in Window : HasKey(w), EditsInv,
         \A w \in Window : ReplacesRuntime(w), SuccessLasts, [Next]_vars
  PROVE  SuccessLasts'
<1> USE DEF InstallTypes
<1> SUFFICES ASSUME edits' = 0, \A v, w \in Window : version'[v] = version'[w],
                    NEW v \in Window, window'[v].step = "ready"
             PROVE  IsReady(v)'
  BY DEF SuccessLasts, At
<1>0. version' = version
  BY DEF Next, vars, ReadIdentity, CreateIdentity, BeginInstall, LockRuntime, MoveAway,
         Place, FailToPlace, Initialize, InstallSteering, MaterializeHookBridge, InstallHook,
         LockConfig, ReadConfig, CheckConfig, RenameConfig, Finish, Abort, Kill, Edit, Others
<1>1. window[v].step = "ready" /\ edits = 0 => IsReady(v)
  BY <1>0 DEF SuccessLasts, At
<1>2. IsReady(v) => \A f \in File : window[v].key \in config[f].keys
  BY DEF IsReady
<1>3. ASSUME NEW w \in Window, OthersStay(w), window'[w].step # "ready", edits' = edits,
             UNCHANGED <<runtime, config>>,
             steering' \in {steering, version[w]}, bridge' \in {bridge, version[w]},
             hook' \in {hook, window[w].key}, hook' # hook => window[w].step \notin {"activate", "create"}
      PROVE  IsReady(v)'
  <2>1. v # w /\ window'[v] = window[v]
    BY <1>3 DEF OthersStay
  <2>2. IsReady(v) /\ window[v].step = "ready"
    BY <1>1, <1>3, <2>1
  <2>3. version[w] = version[v]
    BY <1>0
  <2>4. hook' \in {hook, window[v].key}
    BY <1>3, <2>2 DEF HasKey
  <2> QED
    BY <1>0, <1>2, <1>3, <2>1, <2>2, <2>3, <2>4, ReadyStays
<1>4. ASSUME NEW w \in Window, BeginInstall(w) \/ Finish(w) PROVE IsReady(v)'
  <2>1. UNCHANGED <<runtime, steering, bridge, hook, config, edits>>
    BY <1>4 DEF BeginInstall, Finish, Files, Others
  <2>2. OthersStay(w) /\ window'[w].key = window[w].key /\ (window'[w].step = "ready" => IsReady(w))
    BY <1>4, GoesOnActs DEF GoesOn, Fields
  <2>3. CASE v = w
    BY <1>0, <2>1, <2>2, <2>3 DEF IsReady, RuntimeIsCurrent, Conflicts, Stale
  <2>4. CASE v # w
    <3>1. window'[v] = window[v] /\ IsReady(v)
      BY <1>1, <2>1, <2>2, <2>4 DEF OthersStay
    <3> QED
      BY <1>0, <1>2, <2>1, <3>1, ReadyStays
  <2> QED
    BY <2>3, <2>4
<1>5. ASSUME NEW w \in Window,
             \/ LockRuntime(w) \/ Initialize(w) \/ InstallSteering(w) \/ MaterializeHookBridge(w)
             \/ CheckConfig(w)
      PROVE IsReady(v)'
  <2>1. OthersStay(w)
    BY <1>5, GoesOnActs DEF GoesOn
  <2>2. \E step \in Step \ {"ready"} : Goes(w, step)
    BY <1>5 DEF LockRuntime, Initialize, InstallSteering, MaterializeHookBridge, CheckConfig, Step
  <2>3. window'[w].step # "ready"
    BY <2>2 DEF Goes, WindowsOK, State
  <2> QED
    BY <1>3, <1>5, <2>1, <2>3
       DEF LockRuntime, Initialize, InstallSteering, MaterializeHookBridge, CheckConfig, Files, Others
<1>6. ASSUME NEW w \in Window, ReadIdentity(w) \/ CreateIdentity(w) PROVE IsReady(v)'
  BY <1>3, <1>6, ReadIdentityActs, CreateIdentityActs DEF ReadIdentity, CreateIdentity, Files, Others
\* A window that replaces a runtime replaces one that is not current.
<1>7. ASSUME NEW w \in Window, MoveAway(w) \/ Place(w) \/ FailToPlace(w) PROVE IsReady(v)'
  <2>1. /\ OthersStay(w) /\ window'[w].step # "ready" /\ edits' = edits
        /\ window[w].step \in {"moving", "placing"}
    BY <1>7, MoveAwayActs, PlaceActs DEF MoveAway, Place, FailToPlace, At, Others
  <2>2. IsReady(v)
    BY <1>1, <2>1 DEF OthersStay
  <2>3. runtime = version[w] /\ version[w] # None
    BY <1>0, <2>2 DEF IsReady, RuntimeIsCurrent, OthersOK
  <2> QED
    BY <2>1, <2>3 DEF ReplacesRuntime, At
<1>8. ASSUME NEW w \in Window, InstallHook(w) PROVE IsReady(v)'
  BY <1>3, <1>8, InstallHookActs DEF InstallHook, At, Others
<1>9. ASSUME NEW w \in Window, LockConfig(w) PROVE IsReady(v)'
  <2>1. OthersStay(w) /\ window'[w].step # "ready"
    BY <1>9, LockConfigActs, FollowingIsState
  <2> QED
    BY <1>3, <1>9, <2>1 DEF LockConfig, Files, Others
<1>14. ASSUME NEW w \in Window, ReadConfig(w) PROVE IsReady(v)'
  BY <1>3, <1>14, ReadConfigActs DEF ReadConfig, Files, Others
\* What is written over a file is what was read, with the key all windows have.
<1>10. ASSUME NEW w \in Window, RenameConfig(w) PROVE IsReady(v)'
  <2> DEFINE f == window[w].file
  <2>1. /\ f \in File /\ window[w].step = "rename"
        /\ UNCHANGED <<version, edits, runtime, steering, bridge, hook>>
        /\ \A g \in File \ {f} : config'[g] = config[g]
        /\ config'[f].user = (IF f = "mcp" THEN window[w].read.user \ {Clash} ELSE window[w].read.user)
        /\ f = "mcp" => config'[f].keys = (window[w].read.keys \cap {window[w].key}) \cup {window[w].key}
        /\ f # "mcp" => config'[f].keys =
                (window[w].read.keys \ window[w].removed) \cup {window[w].key}
    BY <1>10, Rewrites
  <2>2. OthersStay(w) /\ window'[w].step # "ready"
    BY <1>10, <2>1, RenameConfigActs
  <2>3. v # w /\ window'[v] = window[v] /\ window[v].step = "ready" /\ IsReady(v)
    BY <1>1, <2>1, <2>2 DEF OthersStay
  <2>4. window[w].read = config[f] /\ window[w].key = window[v].key
    BY <2>1, <2>3 DEF EditsInv, LateIsEdited, RenamesOverRead, At, HasKey
  <2>5. \A g \in File : config'[g].user = config[g].user /\ window[v].key \in config'[g].keys
    <3>1. Clash \notin config[f].user
      BY <2>1, <2>3 DEF IsReady, Conflicts
    <3>2. config'[f].user = config[f].user
      BY <2>1, <2>4, <3>1
    <3> QED
      BY <1>2, <2>1, <2>3, <2>4, <3>2
  <2>6. config'["mcp"].keys \subseteq config["mcp"].keys \cup {window[v].key}
    BY <2>1, <2>4 DEF File
  <2> QED
    BY <2>1, <2>3, <2>5, <2>6, ReadyStays
<1>11. ASSUME NEW w \in Window, Abort(w) \/ Kill(w) PROVE IsReady(v)'
  <2>1. OthersStay(w) /\ window'[w].step # "ready"
    BY <1>11, InstallEnds
  <2> QED
    BY <1>3, <1>11, <2>1 DEF Abort, Kill, Files, Others
<1>12. ASSUME NEW f \in File, Edit(f) PROVE IsReady(v)'
  BY <1>12 DEF Edit, OthersOK
<1>13. CASE UNCHANGED vars
  BY <1>1, <1>13 DEF vars, IsReady, RuntimeIsCurrent, Conflicts, Stale
<1> QED
  BY <1>4, <1>5, <1>6, <1>7, <1>8, <1>9, <1>10, <1>11, <1>12, <1>13, <1>14, NextActs DEF GoesOn

-----------------------------------------------------------------------------
\* No window is active, and the user's entries are in the files.
LEMMA InitInstall == Init => InstallIInv
<1> SUFFICES ASSUME Init PROVE InstallIInv
  OBVIOUS
<1>1. Closed.step = "activate" /\ Closed.removed = {} /\ Closed.file = "mcp"
  BY DEF Closed
<1>2. \A w \in Window : window[w] = Closed
  BY DEF Init
<1>3. WindowsOK
  <2>1. window \in [Window -> State]
    BY ClosedIsState DEF Init
  <2> QED
    BY <1>1, <1>2, <2>1, ClosedIsState DEF WindowsOK, LocksExclude, Locked
<1>4. PICK old \in Version \cup {None}, keys \in {{}, {OldKey}} :
        /\ runtime = old /\ steering = old /\ bridge = old
        /\ identity = IF old = None THEN None ELSE OldKey
        /\ hook = IF keys = {} THEN None ELSE OldKey
        /\ past = IF old = None THEN {} ELSE {"placed"}
        /\ \E user \in SUBSET (Entry \ {Clash}) :
            /\ config = [f \in File |-> [user |-> user, keys |-> keys]]
            /\ wanted = [f \in File |-> user]
  BY Zenon DEF Init
<1>U. PICK user \in SUBSET (Entry \ {Clash}) :
        /\ config = [f \in File |-> [user |-> user, keys |-> keys]]
        /\ wanted = [f \in File |-> user]
  BY <1>4
<1>5. FilesOK
  BY <1>4, <1>U DEF FilesOK, Key, Document
<1>6. OthersOK
  BY <1>4, <1>U DEF Init, OthersOK, Event
<1>7. \A w \in Window : GoodWindow(w)
  BY <1>1, <1>2 DEF GoodWindow, HasKey, ReplacesRuntime, RenamesOverRead, ReadsUnseen, OwesWhileAtPolicy, At
<1>8. LateIsEdited /\ RuntimeIsThere
  BY <1>4 DEF LateIsEdited, RuntimeIsThere
<1>9. EditsSurvive /\ StaleRulesAreOwed
  BY <1>4, <1>U DEF EditsSurvive, StaleRulesAreOwed, File
<1>10. SuccessLasts
  BY <1>1, <1>2 DEF SuccessLasts, At
<1> QED
  BY <1>3, <1>5, <1>6, <1>7, <1>8, <1>9, <1>10 DEF InstallIInv, InstallTypes

LEMMA InstallStep == InstallIInv /\ [Next]_vars => InstallIInv'
<1> SUFFICES ASSUME InstallIInv, [Next]_vars PROVE InstallIInv'
  OBVIOUS
<1>1. /\ InstallTypes /\ (\A w \in Window : HasKey(w)) /\ (\A w \in Window : ReplacesRuntime(w))
      /\ RuntimeIsThere /\ SuccessLasts /\ EditsInv /\ OwedInv
  BY DEF InstallIInv, GoodWindow, EditsInv, OwedInv
<1>2. InstallTypes'
  BY <1>1, InstallTypeStep
<1>3. \A w \in Window : HasKey(w)'
  BY <1>1, KeyStep
<1>4. (\A w \in Window : ReplacesRuntime(w))' /\ RuntimeIsThere'
  BY <1>1, RuntimeStep
<1>5. EditsInv'
  BY <1>1, EditsStep
<1>6. OwedInv'
  BY <1>1, OwedStep
<1>7. SuccessLasts'
  BY <1>1, SuccessStep
<1> QED
  BY <1>2, <1>3, <1>4, <1>5, <1>6, <1>7 DEF InstallIInv, GoodWindow, EditsInv, OwedInv

LEMMA InstallInvariance == Spec => []InstallIInv
  BY InitInstall, InstallStep, PTL DEF Spec

\* Every variable keeps its type, and the lock of the runtime and that of each user
\* file (sharedFileLock.ts) have one holder.
THEOREM InstallTypeCorrect == Spec => []TypeOK
<1>1. InstallIInv => TypeOK
  BY InstallTypesAre DEF InstallIInv
<1> QED
  BY <1>1, InstallInvariance, PTL

\* All windows that are past their activation use the key that is on disk, however
\* many of them made one (getOrCreateInstallationServerKey).
THEOREM OneKey == Spec => []OneInstallationKey
<1>1. InstallIInv => OneInstallationKey
  BY DEF InstallIInv, GoodWindow, HasKey, OneInstallationKey
<1> QED
  BY <1>1, InstallInvariance, PTL

\* Servers keep the runtime they are started from: replacing it fails or succeeds as
\* a whole (replaceDirectory), unless a window is killed there.
THEOREM RuntimeStays == Spec => []RuntimeIsThere
  BY InstallInvariance, PTL DEF InstallIInv

\* An install that reported success stays complete, whatever other windows of the
\* same version do or fail to do, while the user edits nothing.
THEOREM SuccessIsLasting == Spec => []SuccessLasts
  BY InstallInvariance, PTL DEF InstallIInv

\* Installing keeps the user's entries, but for an edit between the last comparison
\* and the rename (writeSharedConfig, writePolicy), and for an entry under our key
\* that appears in the MCP configuration between its inspection and the read for its
\* update (installMcpRegistrationLocked).
THEOREM UserEditsSurvive == Spec => []EditsSurvive
  BY InstallInvariance, PTL DEF InstallIInv

\* The rules of a key that is registered no more are owed by a window that is still
\* installing, unless that install has ended before or the user has edited.
THEOREM StaleRulesOwed == Spec => []StaleRulesAreOwed
  BY InstallInvariance, PTL DEF InstallIInv
=============================================================================
