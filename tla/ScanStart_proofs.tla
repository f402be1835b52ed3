-------------------------- MODULE ScanStart_proofs --------------------------
(***************************************************************************)
(* Proofs about ScanStart for any number of processes, setups, scans,       *)
(* directories and changes of the target.                                   *)
(*                                                                          *)
(* The properties speak of what a call does with what it has read before.   *)
(* The inductive invariant says what that still means: the setup and the    *)
(* scans a start has read are those of its stamp (StampsAreTrue), what it   *)
(* has read of the target is of the directory it looked at or of one that   *)
(* took its place (ReadsAreOfPlace), a diff is what was selected            *)
(* (DiffsAreSelected), and an undisturbed capture is of one state of the    *)
(* target (CapturesAreTrue).                                                *)
(***************************************************************************)
EXTENDS ScanStart, TLAPS

\* A start knows what it approves; a completion has the scan to itself.
CallsHaveSubject ==
    /\ \A p \in Process : call[p] # None =>
        /\ call[p].kind = "start" => call[p].approval # None
        /\ call[p].kind = "complete" => call[p].scan \in Running
        /\ call[p].kind # "save" => call[p].setup \in Setup
    /\ \A p, q \in Process :
        /\ call[p] # None /\ call[p].kind = "complete"
        /\ call[q] # None /\ call[q].kind = "complete" /\ call[p].scan = call[q].scan
        => p = q

\* Whatever changes the setup or adds a scan changes the stamp.
StampsAreTrue ==
    \A p \in Process : call[p] # None /\ call[p].kind = "start" =>
        /\ call[p].approval.stamp <= workspace.stamp
        /\ call[p].approval.stamp = workspace.stamp => call[p].approval.known = Known

\* A workspace with a scan has an active one.
ScansAreActive == workspace.active = None => Known = {}

\* Directories come to the path one after the other.
ReadsAreOfPlace ==
    \A p \in Process : call[p] # None =>
        /\ call[p].step = "stat" => call[p].from = {}
        /\ call[p].place # None =>
            /\ call[p].place <= place
            /\ \A q \in call[p].from : call[p].place <= q /\ q <= place
            /\ call[p].step \in {"diff", "decide"} => call[p].from # {}

\* A capture ends with the second resolution of a diff.
DiffsAreSelected ==
    \A p \in Process :
        call[p] # None /\ call[p].kind # "save" /\ call[p].step = "decide" =>
            /\ call[p].place # None
            /\ IsDiff(call[p]) => call[p].read = call[p].setup.selected

\* What a capture reads when nothing changes meanwhile.
SnapshotOf(c) == [head |-> c.head, diff |-> DiffFrom(c.head, c.files)]

\* Before the digest is read, and after.
CapturesAreTrue ==
    /\ \A p \in Process : call[p] # None =>
        /\ call[p].since <= changes
        /\ call[p].step = "diff" /\ call[p].since = changes => call[p].read.head = checkout.head
        /\ call[p].step = "decide" /\ call[p].source # None =>
                call[p].read = SnapshotOf(call[p].source)
    /\ \A i \in Known : scans[i].source # None => scans[i].snapshot = SnapshotOf(scans[i].source)

IInv ==
    /\ TypeOK
    /\ CallsHaveSubject
    /\ StampsAreTrue
    /\ ScansAreActive
    /\ ReadsAreOfPlace
    /\ DiffsAreSelected
    /\ CapturesAreTrue
    /\ ScansHaveTheSetup
    /\ SnapshotIsOfTarget

USE BoundAssumption, NoneAssumption, NoneIsNoRecord

-----------------------------------------------------------------------------
\* Initially there is no scan and no call.
LEMMA InitIInv == Init => IInv
<1> SUFFICES ASSUME Init PROVE IInv
  OBVIOUS
<1>1. Known = {} /\ \A p \in Process : call[p] = None
  BY DEF Init, Known
<1>2. TypeOK
  BY <1>1 DEF Init, TypeOK, Place
<1> QED
  BY <1>1, <1>2 DEF IInv, CallsHaveSubject, StampsAreTrue, ScansAreActive, ReadsAreOfPlace,
     DiffsAreSelected, CapturesAreTrue, ScansHaveTheSetup, SnapshotIsOfTarget

\* A process has a call or none.
LEMMA CallFields ==
  ASSUME TypeOK, NEW p \in Process, call[p] # None
  PROVE  call[p] \in Call
  BY DEF TypeOK

\* A step replaces the call of one process.
LEMMA GoesTo ==
  ASSUME TypeOK, NEW p \in Process, NEW news, Goes(p, news)
  PROVE  /\ call'[p] = news
         /\ \A q \in Process \ {p} : call'[q] = call[q]
         /\ news \in Call \cup {None} => call' \in [Process -> Call \cup {None}]
  BY DEF Goes, TypeOK

\* A scan that ends keeps its fields but one.
LEMMA ScanEnds ==
  ASSUME TypeOK, NEW i \in Known, scans' = [scans EXCEPT ![i].running = FALSE]
  PROVE  /\ scans' \in [Scan -> ScanRow \cup {None}]
         /\ Known' = Known
         /\ Running' = Running \ {i}
         /\ \A j \in Known :
                /\ scans'[j].setup = scans[j].setup /\ scans'[j].place = scans[j].place
                /\ scans'[j].from = scans[j].from /\ scans'[j].snapshot = scans[j].snapshot
                /\ scans'[j].source = scans[j].source
         /\ \A j \in Scan \ {i} : scans'[j] = scans[j]
<1> DEFINE row == [scans[i] EXCEPT !.running = FALSE]
<1>1. i \in Scan /\ scans[i] \in ScanRow
  BY DEF TypeOK, Known
<1>2. row.running = FALSE /\ row.setup = scans[i].setup /\ row.place = scans[i].place
      /\ row.from = scans[i].from /\ row.snapshot = scans[i].snapshot
      /\ row.source = scans[i].source /\ row \in ScanRow
  BY <1>1 DEF ScanRow
<1>3. scans' = [scans EXCEPT ![i] = row]
  OBVIOUS
<1> HIDE DEF row
<1>4. scans' \in [Scan -> ScanRow \cup {None}]
  BY <1>2, <1>3 DEF TypeOK
<1>5. scans'[i] = row /\ \A j \in Scan \ {i} : scans'[j] = scans[j]
  BY <1>1, <1>3 DEF TypeOK
<1>6. row # None
  BY <1>2
<1>7. Known' = Known
  BY <1>1, <1>5, <1>6 DEF Known
<1>8. Running' = Running \ {i}
  BY <1>1, <1>2, <1>5, <1>7 DEF Running, Known
<1> QED
  BY <1>2, <1>4, <1>5, <1>7, <1>8 DEF Known

-----------------------------------------------------------------------------
\* What the steps of a call make of it.
LEMMA BeginsCall ==
  ASSUME TypeOK, NEW p \in Process, NEW kind \in {"save", "start", "complete"},
         NEW setup \in Setup \cup [mode : {"diff"}, selected : {None}], NEW first \in {"stat", "decide"},
         NEW approval \in Approval \cup {None}, NEW scan \in Scan \cup {None},
         Begins(p, kind, setup, first, approval, scan)
  PROVE  /\ call'[p] \in Call
         /\ call' \in [Process -> Call \cup {None}]
         /\ \A q \in Process \ {p} : call'[q] = call[q]
         /\ call'[p].kind = kind /\ call'[p].setup = setup
         /\ call'[p].step \in {"head", first} /\ (setup.mode # "diff" => call'[p].step = first)
         /\ call'[p].approval = approval /\ call'[p].scan = scan
         /\ call'[p].place = None /\ call'[p].from = {} /\ call'[p].since = 0
         /\ call'[p].source = None
         /\ setup.mode = "diff" => call'[p].step = "head"
<1> DEFINE step == IF setup.mode = "diff" THEN "head" ELSE first
           news == [kind |-> kind, step |-> step, setup |-> setup, approval |-> approval,
                    scan |-> scan, place |-> None, from |-> {}, since |-> 0, read |-> Unread,
                    source |-> None]
<1>1. Unread \in Snapshot
  BY DEF Unread, Snapshot
<1>2. news \in Call
  BY <1>1 DEF Call
<1>3. Goes(p, news)
  BY DEF Begins
<1>4. news.kind = kind /\ news.step = step /\ news.setup = setup /\ news.approval = approval
      /\ news.scan = scan /\ news.place = None /\ news.from = {} /\ news.since = 0
      /\ news.source = None
  OBVIOUS
<1> HIDE DEF news
<1>5. /\ call'[p] = news /\ call' \in [Process -> Call \cup {None}]
      /\ \A q \in Process \ {p} : call'[q] = call[q]
  BY <1>2, <1>3, GoesTo
<1> QED
  BY <1>2, <1>4, <1>5

\* The fields that no read changes.
SameCall(p) ==
    /\ call'[p] # None
    /\ call'[p].kind = call[p].kind /\ call'[p].setup = call[p].setup
    /\ call'[p].approval = call[p].approval /\ call'[p].scan = call[p].scan

LEMMA ReadHeadCall ==
  ASSUME TypeOK, NEW p \in Process, ReadHead(p)
  PROVE  /\ call[p] # None /\ SameCall(p)
         /\ call' \in [Process -> Call \cup {None}]
         /\ \A q \in Process \ {p} : call'[q] = call[q]
         /\ call'[p].step = "diff" /\ call'[p].from = call[p].from \cup {place}
         /\ call'[p].place = call[p].place /\ call'[p].since = changes
         /\ call'[p].read.head = checkout.head
<1> DEFINE c == call[p]
           read == [head |-> checkout.head, diff |-> {}]
           news == [c EXCEPT !.step = "diff", !.from = @ \cup {place}, !.since = changes,
                             !.read = read]
<1>1. c # None /\ c \in Call
  BY CallFields DEF ReadHead, Reads
<1>2. read \in Snapshot /\ read.head = checkout.head
  BY DEF Snapshot, TypeOK, Checkout
<1>3. place \in Place /\ changes \in 0..MaxChanges
  BY DEF TypeOK
<1> HIDE DEF read
<1>4. /\ news \in Call
      /\ news.kind = c.kind /\ news.step = "diff" /\ news.setup = c.setup
      /\ news.approval = c.approval /\ news.scan = c.scan /\ news.place = c.place
      /\ news.from = c.from \cup {place} /\ news.since = changes /\ news.read = read
  BY <1>1, <1>2, <1>3 DEF Call
<1>5. Goes(p, news)
  BY DEF ReadHead, read
<1> HIDE DEF news
<1>6. /\ call'[p] = news /\ call' \in [Process -> Call \cup {None}]
      /\ \A q \in Process \ {p} : call'[q] = call[q]
  BY <1>4, <1>5, GoesTo
<1>7. news # None
  BY <1>4
<1> QED
  BY <1>1, <1>2, <1>4, <1>6, <1>7 DEF SameCall

LEMMA StatCall ==
  ASSUME TypeOK, NEW p \in Process, Stat(p)
  PROVE  /\ call[p] # None /\ SameCall(p) /\ call[p].step = "stat"
         /\ call' \in [Process -> Call \cup {None}]
         /\ \A q \in Process \ {p} : call'[q] = call[q]
         /\ call'[p].step = "head" /\ call'[p].from = call[p].from
         /\ call'[p].place = place /\ call'[p].since = call[p].since
<1> DEFINE c == call[p]
           news == [c EXCEPT !.step = "head", !.place = place]
<1>1. c # None /\ c \in Call /\ c.step = "stat"
  BY CallFields DEF Stat, Reads
<1>2. place \in Place
  BY DEF TypeOK
<1>3. /\ news \in Call
      /\ news.kind = c.kind /\ news.step = "head" /\ news.setup = c.setup
      /\ news.approval = c.approval /\ news.scan = c.scan /\ news.place = place
      /\ news.from = c.from /\ news.since = c.since
  BY <1>1, <1>2 DEF Call
<1>4. Goes(p, news)
  BY DEF Stat
<1> HIDE DEF news
<1>5. /\ call'[p] = news /\ call' \in [Process -> Call \cup {None}]
      /\ \A q \in Process \ {p} : call'[q] = call[q]
  BY <1>3, <1>4, GoesTo
<1>6. news # None
  BY <1>3
<1> QED
  BY <1>1, <1>3, <1>5, <1>6 DEF SameCall

\* A snapshot of what the target is at the moment, if nothing has changed it.
LEMMA ReadDiffCall ==
  ASSUME TypeOK, NEW p \in Process, ReadDiff(p)
  PROVE  /\ call[p] # None /\ SameCall(p)
         /\ call' \in [Process -> Call \cup {None}]
         /\ \A q \in Process \ {p} : call'[q] = call[q]
         /\ call'[p].place = call[p].place /\ call'[p].since = 0
         /\ \/ /\ call'[p].step = "decide" /\ (call[p].kind = "save" \/ call[p].place # None)
               /\ call'[p].from = call[p].from \cup {place}
               /\ Resolves(call[p], call'[p].read)
               /\ call[p].since = changes /\ call[p].read.head = checkout.head =>
                        call'[p].read = SnapshotOf(checkout)
               /\ call[p].since # changes => call'[p].source = None
               /\ call[p].since = changes => call'[p].source = checkout
            \/ /\ call'[p].step = "stat" /\ call[p].place = None
               /\ call'[p].from = {}
<1> DEFINE c == call[p]
           base == IF c.read.head = None THEN None ELSE checkout.head
           read == [head |-> c.read.head, diff |-> DiffFrom(base, checkout.files)]
           source == IF c.since = changes THEN checkout ELSE None
           last == [c EXCEPT !.step = "decide", !.from = @ \cup {place}, !.since = 0, !.read = read,
                             !.source = source]
           first == [c EXCEPT !.step = "stat", !.from = {}, !.since = 0, !.read = Unread]
<1>1. c # None /\ c \in Call
  BY CallFields DEF ReadDiff, Reads
<1>2. checkout \in Checkout /\ place \in Place
  BY DEF TypeOK
<1>3. read \in Snapshot
  <2>1. c.read \in Snapshot
    BY <1>1 DEF Call
  <2>2. c.read.head \in Content \cup {None}
    BY <2>1 DEF Snapshot
  <2>3. base \in Content \cup {None} /\ checkout.files \in Content
    BY <1>2 DEF Checkout
  <2>4. DiffFrom(base, checkout.files) \in SUBSET ((Content \cup {None}) \X Content)
    BY <2>3 DEF DiffFrom
  <2> QED
    BY <2>2, <2>4 DEF Snapshot
<1>4. c.since = changes /\ c.read.head = checkout.head => read = SnapshotOf(checkout)
  <2>1. c.read.head = checkout.head => base = checkout.head
    OBVIOUS
  <2> HIDE DEF base
  <2> QED
    BY <2>1 DEF SnapshotOf
<1>5. source \in Checkout \cup {None}
  BY <1>2
<1>6. /\ c.since # changes => source = None
      /\ c.since = changes => source = checkout
  BY Zenon
<1>7. Unread \in Snapshot /\ 0 \in 0..MaxChanges
  BY DEF Unread, Snapshot
<1>8. Resolves(c, read) /\ Goes(p, IF c.kind = "save" \/ c.place # None THEN last ELSE first)
  BY DEF ReadDiff
<1> HIDE DEF read, source
<1>9. /\ last \in Call
      /\ last.kind = c.kind /\ last.step = "decide" /\ last.setup = c.setup
      /\ last.approval = c.approval /\ last.scan = c.scan /\ last.place = c.place
      /\ last.from = c.from \cup {place} /\ last.since = 0 /\ last.read = read
      /\ last.source = source
  BY <1>1, <1>2, <1>3, <1>5, <1>7 DEF Call
<1>10. /\ first \in Call
       /\ first.kind = c.kind /\ first.step = "stat" /\ first.setup = c.setup
       /\ first.approval = c.approval /\ first.scan = c.scan /\ first.place = c.place
       /\ first.from = {} /\ first.since = 0
  BY <1>1, <1>7 DEF Call
<1> HIDE DEF last, first
<1>11. CASE c.kind = "save" \/ c.place # None
  <2>1. Goes(p, last)
    BY <1>8, <1>11
  <2>2. /\ call'[p] = last /\ call' \in [Process -> Call \cup {None}]
        /\ \A q \in Process \ {p} : call'[q] = call[q]
    BY <1>9, <2>1, GoesTo
  <2>3. last # None
    BY <1>9
  <2> QED
    BY <1>1, <1>4, <1>6, <1>8, <1>9, <1>11, <2>2, <2>3 DEF SameCall
<1>12. CASE ~(c.kind = "save" \/ c.place # None)
  <2>1. Goes(p, first)
    BY <1>8, <1>12
  <2>2. /\ call'[p] = first /\ call' \in [Process -> Call \cup {None}]
        /\ \A q \in Process \ {p} : call'[q] = call[q]
    BY <1>10, <2>1, GoesTo
  <2>3. first # None
    BY <1>10
  <2> QED
    BY <1>1, <1>10, <1>12, <2>2, <2>3 DEF SameCall
<1> QED
  BY <1>11, <1>12

\* The three ways in which a call begins.
LEMMA SaveBegins ==
  ASSUME TypeOK, NEW p \in Process, BeginSave(p)
  PROVE  /\ call[p] = None /\ call'[p] # None /\ call'[p].kind = "save"
         /\ call' \in [Process -> Call \cup {None}]
         /\ \A q \in Process \ {p} : call'[q] = call[q]
         /\ call'[p].step \in {"head", "decide"} /\ call'[p].place = None
         /\ call'[p].since = 0 /\ call'[p].source = None
<1> PICK mode \in {"standard", "diff"} :
        Begins(p, "save", [mode |-> mode, selected |-> None], "decide", None, None)
  BY DEF BeginSave
<1>1. [mode |-> mode, selected |-> None] \in Setup \cup [mode : {"diff"}, selected : {None}]
  BY DEF Setup
<1>2. call'[p] \in Call
  BY <1>1, BeginsCall
<1> QED
  BY <1>1, <1>2, BeginsCall DEF BeginSave

LEMMA StartBegins ==
  ASSUME TypeOK, NEW p \in Process, BeginStart(p)
  PROVE  /\ call[p] = None /\ call'[p] # None /\ call'[p].kind = "start"
         /\ call' \in [Process -> Call \cup {None}]
         /\ \A q \in Process \ {p} : call'[q] = call[q]
         /\ call'[p].setup = workspace.setup /\ workspace.setup \in Setup
         /\ call'[p].approval # None
         /\ call'[p].approval.stamp = workspace.stamp /\ call'[p].approval.known = Known
         /\ call'[p].step \in {"head", "stat"} /\ call'[p].place = None /\ call'[p].from = {}
         /\ call'[p].since = 0 /\ call'[p].source = None
<1> DEFINE approval == [revision |-> workspace.revision, stamp |-> workspace.stamp, known |-> Known]
<1>1. workspace.setup \in Setup
  BY DEF BeginStart, TypeOK
<1>2. approval \in Approval
  BY DEF Approval, TypeOK, Known
<1>3. approval.stamp = workspace.stamp /\ approval.known = Known /\ approval # None
  BY <1>2
<1>4. Begins(p, "start", workspace.setup, "stat", approval, None)
  BY DEF BeginStart
<1> HIDE DEF approval
<1>5. call'[p] \in Call
  BY <1>1, <1>2, <1>4, BeginsCall
<1> QED
  BY <1>1, <1>2, <1>3, <1>4, <1>5, BeginsCall DEF BeginStart

LEMMA CompleteBegins ==
  ASSUME TypeOK, NEW p \in Process, BeginComplete(p)
  PROVE  /\ call[p] = None /\ call'[p] # None /\ call'[p].kind = "complete"
         /\ call' \in [Process -> Call \cup {None}]
         /\ \A q \in Process \ {p} : call'[q] = call[q]
         /\ call'[p].scan \in Running /\ ~IsLocked(call'[p].scan)
         /\ call'[p].setup \in Setup
         /\ call'[p].step \in {"head", "stat"} /\ call'[p].place = None /\ call'[p].from = {}
         /\ call'[p].since = 0 /\ call'[p].source = None
<1> PICK i \in Running : ~IsLocked(i) /\ Begins(p, "complete", scans[i].setup, "stat", None, i)
  BY DEF BeginComplete
<1>1. i \in Scan /\ scans[i] \in ScanRow
  BY DEF Running, Known, TypeOK
<1>2. scans[i].setup \in Setup
  BY <1>1 DEF ScanRow
<1>3. call'[p] \in Call
  BY <1>1, <1>2, BeginsCall
<1> QED
  BY <1>1, <1>2, <1>3, BeginsCall DEF BeginComplete

\* A saved setup.
LEMMA SaveRow ==
  ASSUME TypeOK, ScansAreActive, NEW p \in Process, Save(p)
  PROVE  /\ workspace' \in [setup : Setup \cup {None}, revision : 0..MaxUpdates, stamp : Nat,
                            active : Scan \cup {None}]
         /\ workspace'.setup # None /\ workspace'.revision # 0
         /\ workspace'.active = None /\ workspace'.stamp = workspace.stamp + 1
         /\ Known = {} /\ scans' = scans
<1> DEFINE c == call[p]
           setup == [mode |-> c.setup.mode, selected |-> IF IsDiff(c) THEN c.read ELSE None]
<1>1. c \in Call
  BY CallFields DEF Save, At
<1>2. setup \in Setup
  <2>1. c.read \in Snapshot
    BY <1>1 DEF Call
  <2>2. c.setup \in Setup \cup [mode : {"diff"}, selected : {None}]
    BY <1>1 DEF Call
  <2>3. c.setup.mode = "standard" \/ c.setup.mode = "diff"
    BY <2>2 DEF Setup
  <2>4. CASE c.setup.mode = "diff"
    BY <2>1, <2>4 DEF IsDiff, Setup
  <2>5. CASE c.setup.mode = "standard"
    BY <2>5 DEF IsDiff, Setup
  <2> QED
    BY <2>3, <2>4, <2>5
<1>3. workspace' = [workspace EXCEPT !.setup = setup, !.revision = @ + 1, !.stamp = @ + 1]
      /\ workspace.active = None /\ workspace.revision < MaxUpdates /\ scans' = scans
  BY DEF Save, MaySave
<1> HIDE DEF setup
<1>4. workspace \in [setup : Setup \cup {None}, revision : 0..MaxUpdates, stamp : Nat,
                     active : Scan \cup {None}]
  BY DEF TypeOK
<1>5. setup # None
  BY <1>2
<1>6. workspace.revision + 1 \in 0..MaxUpdates /\ workspace.revision + 1 # 0
      /\ workspace.stamp + 1 \in Nat
  <2>1. workspace.revision \in Nat /\ workspace.stamp \in Nat
    BY <1>4
  <2> QED
    BY <1>3, <2>1
<1>7. /\ workspace' \in [setup : Setup \cup {None}, revision : 0..MaxUpdates, stamp : Nat,
                         active : Scan \cup {None}]
      /\ workspace'.setup = setup /\ workspace'.revision = workspace.revision + 1
      /\ workspace'.active = workspace.active /\ workspace'.stamp = workspace.stamp + 1
  BY <1>2, <1>3, <1>4, <1>6
<1> QED
  BY <1>3, <1>5, <1>6, <1>7 DEF ScansAreActive

\* A published scan.
LEMMA PublishRow ==
  ASSUME TypeOK, CallsHaveSubject, DiffsAreSelected, NEW p \in Process, Publish(p)
  PROVE  \E i \in Scan \ Known :
         /\ scans' \in [Scan -> ScanRow \cup {None}]
         /\ Known' = Known \cup {i}
         /\ scans'[i].setup = call[p].setup /\ scans'[i].place = call[p].place
         /\ scans'[i].from = call[p].from /\ scans'[i].snapshot = call[p].read
         /\ scans'[i].source = call[p].source
         /\ \A j \in Scan \ {i} : scans'[j] = scans[j]
         /\ workspace' \in [setup : Setup \cup {None}, revision : 0..MaxUpdates, stamp : Nat,
                            active : Scan \cup {None}]
         /\ workspace'.setup = workspace.setup /\ workspace'.revision = workspace.revision
         /\ workspace'.active = i /\ workspace'.stamp = workspace.stamp + 1
<1> DEFINE c == call[p]
           row == [running |-> TRUE, setup |-> c.setup, place |-> c.place, from |-> c.from,
                   snapshot |-> c.read, source |-> c.source]
<1>1. c # None /\ c \in Call /\ c.kind = "start" /\ c.step = "decide"
  BY CallFields DEF Publish, At
<1>2. c.setup \in Setup /\ c.place # None
  BY <1>1 DEF CallsHaveSubject, DiffsAreSelected
<1>3. row \in ScanRow
  BY <1>1, <1>2 DEF Call, ScanRow
<1>4. row.setup = c.setup /\ row.place = c.place /\ row.from = c.from /\ row.snapshot = c.read
      /\ row.source = c.source
  OBVIOUS
<1> PICK i \in Scan \ Known :
        scans' = [scans EXCEPT ![i] = row]
        /\ workspace' = [workspace EXCEPT !.active = i, !.stamp = @ + 1]
  BY DEF Publish
<1> HIDE DEF row
<1>5. /\ scans'[i] = row /\ \A j \in Scan \ {i} : scans'[j] = scans[j]
      /\ scans' \in [Scan -> ScanRow \cup {None}]
  BY <1>3 DEF TypeOK
<1>6. Known' = Known \cup {i}
  BY <1>3, <1>5 DEF Known
<1>7. workspace \in [setup : Setup \cup {None}, revision : 0..MaxUpdates, stamp : Nat,
                     active : Scan \cup {None}]
  BY DEF TypeOK
<1>8. workspace.stamp + 1 \in Nat /\ i \in Scan \cup {None}
  BY <1>7
<1>9. /\ workspace' \in [setup : Setup \cup {None}, revision : 0..MaxUpdates, stamp : Nat,
                         active : Scan \cup {None}]
      /\ workspace'.setup = workspace.setup /\ workspace'.revision = workspace.revision
      /\ workspace'.active = i /\ workspace'.stamp = workspace.stamp + 1
  BY <1>7, <1>8
<1> QED
  BY <1>4, <1>5, <1>6, <1>9

\* The end of a scan, by the call that completes it or otherwise.
LEMMA CompleteRow ==
  ASSUME TypeOK, CallsHaveSubject, NEW p \in Process, Complete(p)
  PROVE  /\ call[p] # None /\ call[p].kind = "complete" /\ call[p].step = "decide"
         /\ call[p].scan \in Running /\ call[p].scan \in Known
         /\ scans' = [scans EXCEPT ![call[p].scan].running = FALSE]
         /\ call'[p] = None /\ call' \in [Process -> Call \cup {None}]
         /\ \A q \in Process \ {p} : call'[q] = call[q]
<1>1. call[p] # None /\ call[p].kind = "complete" /\ call[p].step = "decide" /\ Goes(p, None)
      /\ scans' = [scans EXCEPT ![call[p].scan].running = FALSE]
  BY DEF Complete, At, Ends
<1>2. call[p].scan \in Running
  BY <1>1 DEF CallsHaveSubject
<1> QED
  BY <1>1, <1>2, GoesTo DEF Running

\* A call that ends changes no other.
LEMMA CallEnds ==
  ASSUME TypeOK, NEW p \in Process, EndCall(p) \/ Save(p) \/ Publish(p)
  PROVE  /\ call[p] # None /\ call'[p] = None
         /\ call' \in [Process -> Call \cup {None}]
         /\ \A q \in Process \ {p} : call'[q] = call[q]
<1>1. call[p] # None /\ Goes(p, None)
  BY DEF EndCall, Save, Publish, At, Ends
<1> QED
  BY <1>1, GoesTo

-----------------------------------------------------------------------------
\* The steps by kind: reads, beginnings, ends, and the world.
ReadsTarget(p) == ReadHead(p) \/ ReadDiff(p) \/ Stat(p)
BeginsAny(p) == BeginSave(p) \/ BeginStart(p) \/ BeginComplete(p)

LEMMA ReadKeeps ==
  ASSUME TypeOK, NEW p \in Process, ReadsTarget(p)
  PROVE  /\ call[p] # None /\ SameCall(p)
         /\ call' \in [Process -> Call \cup {None}]
         /\ \A q \in Process \ {p} : call'[q] = call[q]
         /\ UNCHANGED <<workspace, scans, place, checkout, changes>>
<1>1. UNCHANGED <<workspace, scans, place, checkout, changes>>
  BY DEF ReadsTarget, ReadHead, ReadDiff, Stat, target
<1> QED
  BY <1>1, ReadHeadCall, ReadDiffCall, StatCall DEF ReadsTarget

LEMMA BeginKeeps ==
  ASSUME TypeOK, NEW p \in Process, BeginsAny(p)
  PROVE  /\ call[p] = None
         /\ call' \in [Process -> Call \cup {None}]
         /\ \A q \in Process \ {p} : call'[q] = call[q]
         /\ UNCHANGED <<workspace, scans, place, checkout, changes>>
<1>1. UNCHANGED <<workspace, scans, place, checkout, changes>>
  BY DEF BeginsAny, BeginSave, BeginStart, BeginComplete, target
<1> QED
  BY <1>1, SaveBegins, StartBegins, CompleteBegins DEF BeginsAny

\* The world changes the target only, and no directory comes back.
World == ChangeTarget \/ ReplaceTarget

LEMMA WorldKeeps ==
  ASSUME TypeOK, World
  PROVE  /\ UNCHANGED <<workspace, scans, call>>
         /\ place' \in Place /\ place <= place' /\ checkout' \in Checkout
         /\ changes' = changes + 1 /\ changes' \in 0..MaxChanges
<1>1. UNCHANGED <<workspace, scans, call>> /\ changes' = changes + 1 /\ changes < MaxChanges
  BY DEF World, ChangeTarget, ReplaceTarget
<1>2. checkout' \in Checkout
  BY DEF World, ChangeTarget, ReplaceTarget
<1>3. place' \in Place /\ place <= place'
  BY DEF World, ChangeTarget, ReplaceTarget, Place, TypeOK
<1> QED
  BY <1>1, <1>2, <1>3 DEF TypeOK

\* Every step is one of these.
LEMMA StepKinds ==
  ASSUME [Next]_vars
  PROVE  \/ \E p \in Process : ReadsTarget(p)
         \/ \E p \in Process : BeginsAny(p)
         \/ \E p \in Process : Save(p)
         \/ \E p \in Process : Publish(p)
         \/ \E p \in Process : Complete(p)
         \/ \E p \in Process : EndCall(p)
         \/ \E i \in Scan : EndScan(i)
         \/ World
         \/ UNCHANGED vars
  BY DEF Next, ReadsTarget, BeginsAny, World

\* What else stays as it is.
LEMMA RowKeeps ==
  /\ \A p \in Process : Save(p) => UNCHANGED <<scans, place, checkout, changes>>
  /\ \A p \in Process : Publish(p) => UNCHANGED <<place, checkout, changes>>
  /\ \A p \in Process : Complete(p) => UNCHANGED <<workspace, place, checkout, changes>>
  /\ \A p \in Process : EndCall(p) => UNCHANGED <<workspace, scans, place, checkout, changes>>
  /\ \A i \in Scan : EndScan(i) =>
        /\ UNCHANGED <<workspace, place, checkout, changes, call>>
        /\ i \in Running /\ i \in Known /\ ~IsLocked(i)
        /\ scans' = [scans EXCEPT ![i].running = FALSE]
  /\ UNCHANGED vars => UNCHANGED <<workspace, scans, place, checkout, changes, call>>
  BY DEF Save, Publish, Complete, EndCall, EndScan, vars, target, Running

-----------------------------------------------------------------------------
\* Every step keeps the types.
LEMMA TypeStep ==
  ASSUME TypeOK, CallsHaveSubject, DiffsAreSelected, ScansAreActive, [Next]_vars
  PROVE  TypeOK'
<1>1. ASSUME NEW p \in Process, ReadsTarget(p) PROVE TypeOK'
  BY <1>1, ReadKeeps DEF TypeOK, Known
<1>2. ASSUME NEW p \in Process, BeginsAny(p) PROVE TypeOK'
  BY <1>2, BeginKeeps DEF TypeOK, Known
<1>3. ASSUME NEW p \in Process, Save(p) PROVE TypeOK'
  BY <1>3, SaveRow, CallEnds, RowKeeps DEF TypeOK
<1>4. ASSUME NEW p \in Process, Publish(p) PROVE TypeOK'
  <2> PICK i \in Scan \ Known :
         /\ scans' \in [Scan -> ScanRow \cup {None}]
         /\ Known' = Known \cup {i}
         /\ workspace' \in [setup : Setup \cup {None}, revision : 0..MaxUpdates, stamp : Nat,
                            active : Scan \cup {None}]
         /\ workspace'.setup = workspace.setup /\ workspace'.revision = workspace.revision
         /\ workspace'.active = i
    BY <1>4, PublishRow
  <2> QED
    BY <1>4, CallEnds, RowKeeps DEF TypeOK
<1>5. ASSUME NEW p \in Process, Complete(p) PROVE TypeOK'
  <2>1. /\ call[p].scan \in Known /\ call' \in [Process -> Call \cup {None}]
        /\ scans' = [scans EXCEPT ![call[p].scan].running = FALSE]
    BY <1>5, CompleteRow
  <2>2. scans' \in [Scan -> ScanRow \cup {None}] /\ Known' = Known
    BY <2>1, ScanEnds
  <2>3. UNCHANGED <<workspace, place, checkout, changes>>
    BY <1>5, RowKeeps
  <2> QED
    BY <2>1, <2>2, <2>3 DEF TypeOK
<1>6. ASSUME NEW p \in Process, EndCall(p) PROVE TypeOK'
  BY <1>6, CallEnds, RowKeeps DEF TypeOK, Known
<1>7. ASSUME NEW i \in Scan, EndScan(i) PROVE TypeOK'
  BY <1>7, ScanEnds, RowKeeps DEF TypeOK
<1>8. CASE World
  BY <1>8, WorldKeeps DEF TypeOK, Known
<1>9. CASE UNCHANGED vars
  BY <1>9, RowKeeps DEF TypeOK, Known
<1> QED
  BY <1>1, <1>2, <1>3, <1>4, <1>5, <1>6, <1>7, <1>8, <1>9, StepKinds

\* A call is about what it was about; scans end only under their lock.
LEMMA SubjectStep ==
  ASSUME TypeOK, CallsHaveSubject, DiffsAreSelected, ScansAreActive, [Next]_vars
  PROVE  CallsHaveSubject'
<1>1. ASSUME NEW p \in Process, ReadsTarget(p) PROVE CallsHaveSubject'
  BY <1>1, ReadKeeps DEF CallsHaveSubject, SameCall, Running, Known
<1>2. ASSUME NEW p \in Process, BeginsAny(p) PROVE CallsHaveSubject'
  <2>1. Running' = Running /\ \A q \in Process \ {p} : call'[q] = call[q]
    BY <1>2, BeginKeeps DEF Running, Known
  <2>2. CASE BeginSave(p)
    BY <2>1, <2>2, SaveBegins DEF CallsHaveSubject
  <2>3. CASE BeginStart(p)
    BY <2>1, <2>3, StartBegins DEF CallsHaveSubject
  <2>4. CASE BeginComplete(p)
    BY <2>1, <2>4, CompleteBegins DEF CallsHaveSubject, IsLocked
  <2> QED
    BY <1>2, <2>2, <2>3, <2>4 DEF BeginsAny
<1>3. ASSUME NEW p \in Process, Save(p) \/ EndCall(p) PROVE CallsHaveSubject'
  <2>1. Running' = Running /\ call'[p] = None /\ \A q \in Process \ {p} : call'[q] = call[q]
    BY <1>3, CallEnds, RowKeeps DEF Running, Known
  <2> QED
    BY <2>1 DEF CallsHaveSubject
<1>4. ASSUME NEW p \in Process, Publish(p) PROVE CallsHaveSubject'
  <2>1. call'[p] = None /\ \A q \in Process \ {p} : call'[q] = call[q]
    BY <1>4, CallEnds
  <2>2. Running \subseteq Running'
    <3> PICK i \in Scan \ Known : Known' = Known \cup {i}
                                 /\ \A j \in Scan \ {i} : scans'[j] = scans[j]
      BY <1>4, PublishRow
    <3>1. Known \subseteq Scan
      BY DEF Known
    <3> QED
      BY <3>1 DEF Running
  <2> QED
    BY <2>1, <2>2 DEF CallsHaveSubject
<1>5. ASSUME NEW p \in Process, Complete(p) PROVE CallsHaveSubject'
  <2>1. /\ call[p] # None /\ call[p].kind = "complete" /\ call'[p] = None
        /\ \A q \in Process \ {p} : call'[q] = call[q]
    BY <1>5, CompleteRow
  <2>2. Running' = Running \ {call[p].scan}
    BY <1>5, CompleteRow, ScanEnds
  <2> QED
    BY <2>1, <2>2 DEF CallsHaveSubject
<1>6. ASSUME NEW i \in Scan, EndScan(i) PROVE CallsHaveSubject'
  <2>1. Running' = Running \ {i} /\ call' = call /\ ~IsLocked(i)
    BY <1>6, ScanEnds, RowKeeps
  <2> QED
    BY <2>1 DEF CallsHaveSubject, IsLocked
<1>7. CASE World
  BY <1>7, WorldKeeps DEF CallsHaveSubject, Running, Known
<1>8. CASE UNCHANGED vars
  BY <1>8, RowKeeps DEF CallsHaveSubject, Running, Known
<1> QED
  BY <1>1, <1>2, <1>3, <1>4, <1>5, <1>6, <1>7, <1>8, StepKinds

\* Saving and starting give the workspace a new stamp.
LEMMA StampStep ==
  ASSUME TypeOK, CallsHaveSubject, DiffsAreSelected, ScansAreActive, StampsAreTrue, [Next]_vars
  PROVE  StampsAreTrue' /\ ScansAreActive'
<1>0. /\ workspace.stamp \in Nat
      /\ \A p \in Process : call[p] # None /\ call[p].kind = "start" =>
            call[p].approval.stamp \in Nat
  <2>1. workspace.stamp \in Nat
    BY DEF TypeOK
  <2>2. ASSUME NEW p \in Process, call[p] # None, call[p].kind = "start"
        PROVE  call[p].approval.stamp \in Nat
    <3>1. call[p] \in Call /\ call[p].approval # None
      BY <2>2, CallFields DEF CallsHaveSubject
    <3>2. call[p].approval \in Approval
      BY <3>1 DEF Call
    <3> QED
      BY <3>2 DEF Approval
  <2> QED
    BY <2>1, <2>2
<1>1. ASSUME NEW p \in Process, ReadsTarget(p) PROVE StampsAreTrue' /\ ScansAreActive'
  BY <1>1, ReadKeeps DEF StampsAreTrue, ScansAreActive, SameCall, Known
<1>2. ASSUME NEW p \in Process, BeginsAny(p) PROVE StampsAreTrue' /\ ScansAreActive'
  <2>1. /\ Known' = Known /\ workspace' = workspace
        /\ \A q \in Process \ {p} : call'[q] = call[q]
    BY <1>2, BeginKeeps DEF Known
  <2>2. call'[p].kind = "start" =>
            call'[p].approval.stamp = workspace.stamp /\ call'[p].approval.known = Known
    BY <1>2, SaveBegins, StartBegins, CompleteBegins DEF BeginsAny
  <2> QED
    BY <1>0, <2>1, <2>2 DEF StampsAreTrue, ScansAreActive
<1>3. ASSUME NEW p \in Process, Save(p) PROVE StampsAreTrue' /\ ScansAreActive'
  <2>1. call'[p] = None /\ \A q \in Process \ {p} : call'[q] = call[q]
    BY <1>3, CallEnds
  <2>2. workspace'.stamp = workspace.stamp + 1 /\ Known' = {}
    BY <1>3, SaveRow DEF Known
  <2> QED
    BY <1>0, <2>1, <2>2 DEF StampsAreTrue, ScansAreActive
<1>4. ASSUME NEW p \in Process, Publish(p) PROVE StampsAreTrue' /\ ScansAreActive'
  <2>1. call'[p] = None /\ \A q \in Process \ {p} : call'[q] = call[q]
    BY <1>4, CallEnds
  <2>2. workspace'.stamp = workspace.stamp + 1 /\ workspace'.active # None
    BY <1>4, PublishRow
  <2> QED
    BY <1>0, <2>1, <2>2 DEF StampsAreTrue, ScansAreActive
<1>5. ASSUME NEW p \in Process, Complete(p) PROVE StampsAreTrue' /\ ScansAreActive'
  <2>1. /\ Known' = Known /\ workspace' = workspace
        /\ call'[p] = None /\ \A q \in Process \ {p} : call'[q] = call[q]
    BY <1>5, CompleteRow, ScanEnds, RowKeeps
  <2> QED
    BY <2>1 DEF StampsAreTrue, ScansAreActive
<1>6. ASSUME NEW i \in Scan, EndScan(i) PROVE StampsAreTrue' /\ ScansAreActive'
  <2>1. Known' = Known /\ workspace' = workspace /\ call' = call
    BY <1>6, ScanEnds, RowKeeps
  <2> QED
    BY <2>1 DEF StampsAreTrue, ScansAreActive
<1>7. ASSUME NEW p \in Process, EndCall(p) PROVE StampsAreTrue' /\ ScansAreActive'
  <2>1. /\ Known' = Known /\ workspace' = workspace
        /\ call'[p] = None /\ \A q \in Process \ {p} : call'[q] = call[q]
    BY <1>7, CallEnds, RowKeeps DEF Known
  <2> QED
    BY <2>1 DEF StampsAreTrue, ScansAreActive
<1>8. CASE World \/ UNCHANGED vars
  BY <1>8, WorldKeeps, RowKeeps DEF StampsAreTrue, ScansAreActive, Known
<1> QED
  BY <1>1, <1>2, <1>3, <1>4, <1>5, <1>6, <1>7, <1>8, StepKinds

\* What a call has read stays between the directory it looked at and today's.
LEMMA PlaceStep ==
  ASSUME TypeOK, ReadsAreOfPlace, CallsHaveSubject, [Next]_vars
  PROVE  ReadsAreOfPlace'
<1> DEFINE Good(c, now) ==
        /\ c.step = "stat" => c.from = {}
        /\ c.place # None =>
            /\ c.place <= now
            /\ \A q \in c.from : c.place <= q /\ q <= now
            /\ c.step \in {"diff", "decide"} => c.from # {}
<1>0. place \in Nat /\ \A p \in Process : call[p] # None =>
        call[p].place \in Nat \cup {None} /\ call[p].from \subseteq Nat
  <2>1. Place \subseteq Nat
    BY DEF Place
  <2> QED
    BY <2>1, CallFields DEF TypeOK, Call
<1>1. ASSUME NEW p \in Process, ReadsTarget(p) PROVE ReadsAreOfPlace'
  <2>1. /\ call[p] # None /\ place' = place
        /\ \A q \in Process \ {p} : call'[q] = call[q]
    BY <1>1, ReadKeeps
  <2>2. Good(call[p], place)
    BY <2>1 DEF ReadsAreOfPlace
  <2>3. CASE ReadHead(p)
    <3>1. call'[p].step = "diff" /\ call'[p].from = call[p].from \cup {place}
          /\ call'[p].place = call[p].place
      BY <2>3, ReadHeadCall
    <3>2. Good(call'[p], place)
      BY <1>0, <2>1, <2>2, <3>1
    <3> QED
      BY <2>1, <3>2 DEF ReadsAreOfPlace
  <2>4. CASE ReadDiff(p)
    <3>1. /\ call'[p].place = call[p].place
          /\ \/ call'[p].step = "decide" /\ call'[p].from = call[p].from \cup {place}
             \/ call'[p].step = "stat" /\ call'[p].from = {} /\ call[p].place = None
      BY <2>4, ReadDiffCall
    <3>2. Good(call'[p], place)
      BY <1>0, <2>1, <2>2, <3>1
    <3> QED
      BY <2>1, <3>2 DEF ReadsAreOfPlace
  <2>5. CASE Stat(p)
    <3>1. /\ call[p].step = "stat" /\ call'[p].step = "head"
          /\ call'[p].from = call[p].from /\ call'[p].place = place
      BY <2>5, StatCall
    <3>2. Good(call'[p], place)
      BY <1>0, <2>1, <2>2, <3>1
    <3> QED
      BY <2>1, <3>2 DEF ReadsAreOfPlace
  <2> QED
    BY <1>1, <2>3, <2>4, <2>5 DEF ReadsTarget
<1>2. ASSUME NEW p \in Process, BeginsAny(p) PROVE ReadsAreOfPlace'
  <2>1. place' = place /\ \A q \in Process \ {p} : call'[q] = call[q]
    BY <1>2, BeginKeeps
  <2>2. call'[p].place = None /\ (call'[p].step = "stat" => call'[p].from = {})
    BY <1>2, SaveBegins, StartBegins, CompleteBegins DEF BeginsAny
  <2> QED
    BY <2>1, <2>2 DEF ReadsAreOfPlace
<1>3. ASSUME NEW p \in Process, Save(p) \/ Publish(p) \/ EndCall(p) \/ Complete(p)
      PROVE  ReadsAreOfPlace'
  <2>1. place' = place /\ call'[p] = None /\ \A q \in Process \ {p} : call'[q] = call[q]
    BY <1>3, CallEnds, CompleteRow, RowKeeps
  <2> QED
    BY <2>1 DEF ReadsAreOfPlace
<1>4. ASSUME World PROVE ReadsAreOfPlace'
  <2>1. call' = call /\ place <= place' /\ place' \in Nat
    BY <1>4, WorldKeeps DEF Place
  <2>2. ASSUME NEW p \in Process, call[p] # None PROVE Good(call[p], place')
    <3>1. Good(call[p], place)
      BY <2>2 DEF ReadsAreOfPlace
    <3> QED
      BY <1>0, <2>1, <2>2, <3>1
  <2> HIDE DEF Good
  <2>3. \A p \in Process : call'[p] # None => Good(call'[p], place')
    BY <2>1, <2>2
  <2> QED
    BY <2>3 DEF ReadsAreOfPlace, Good
<1>5. ASSUME \/ \E i \in Scan : EndScan(i)
             \/ UNCHANGED vars
      PROVE  ReadsAreOfPlace'
  BY <1>5, RowKeeps DEF ReadsAreOfPlace
<1> QED
  BY <1>1, <1>2, <1>3, <1>4, <1>5, StepKinds

\* A decision on a diff is about what was selected.
LEMMA SelectedStep ==
  ASSUME TypeOK, DiffsAreSelected, CallsHaveSubject, [Next]_vars
  PROVE  DiffsAreSelected'
<1>1. ASSUME NEW p \in Process, ReadsTarget(p) PROVE DiffsAreSelected'
  <2>1. /\ call[p] # None /\ SameCall(p) /\ \A q \in Process \ {p} : call'[q] = call[q]
    BY <1>1, ReadKeeps
  <2>2. CASE ReadHead(p) \/ Stat(p)
    <3>1. call'[p].step # "decide"
      BY <2>2, ReadHeadCall, StatCall
    <3> QED
      BY <2>1, <3>1 DEF DiffsAreSelected
  <2>3. CASE ReadDiff(p)
    <3>1. call[p].kind # "save" => call[p].setup \in Setup
      BY <2>1 DEF CallsHaveSubject
    <3>2. call[p].kind # "save" /\ IsDiff(call[p]) => call[p].setup.selected # None
      <4>1. Snapshot \subseteq Checkout \cup Snapshot
        OBVIOUS
      <4> QED
        BY <3>1, NoneIsNoRecord DEF IsDiff, Setup
    <3>3. /\ call'[p].place = call[p].place
          /\ call'[p].step = "decide" =>
                Resolves(call[p], call'[p].read) /\ (call[p].kind = "save" \/ call[p].place # None)
      BY <2>3, ReadDiffCall
    <3>4. call[p].kind # "save" /\ call'[p].step = "decide" =>
            /\ call'[p].place # None
            /\ IsDiff(call[p]) => call'[p].read = call[p].setup.selected
      BY <3>2, <3>3 DEF Resolves
    <3> QED
      BY <2>1, <3>4 DEF DiffsAreSelected, SameCall, IsDiff
  <2> QED
    BY <1>1, <2>2, <2>3 DEF ReadsTarget
<1>2. ASSUME NEW p \in Process, BeginsAny(p) PROVE DiffsAreSelected'
  <2>1. \A q \in Process \ {p} : call'[q] = call[q]
    BY <1>2, BeginKeeps
  <2>2. call'[p].kind = "save" \/ call'[p].step # "decide"
    BY <1>2, SaveBegins, StartBegins, CompleteBegins DEF BeginsAny
  <2> QED
    BY <2>1, <2>2 DEF DiffsAreSelected
<1>3. ASSUME NEW p \in Process, Save(p) \/ Publish(p) \/ EndCall(p) \/ Complete(p)
      PROVE  DiffsAreSelected'
  <2>1. call'[p] = None /\ \A q \in Process \ {p} : call'[q] = call[q]
    BY <1>3, CallEnds, CompleteRow
  <2> QED
    BY <2>1 DEF DiffsAreSelected
<1>4. ASSUME World \/ (\E i \in Scan : EndScan(i)) \/ UNCHANGED vars
      PROVE  DiffsAreSelected'
  BY <1>4, WorldKeeps, RowKeeps DEF DiffsAreSelected
<1> QED
  BY <1>1, <1>2, <1>3, <1>4, StepKinds

\* An undisturbed capture is of one state of the target.
LEMMA CaptureStep ==
  ASSUME TypeOK, CallsHaveSubject, DiffsAreSelected, CapturesAreTrue, [Next]_vars
  PROVE  CapturesAreTrue'
<1> DEFINE Kept == /\ Known' = Known
                   /\ \A i \in Known : /\ scans'[i].source = scans[i].source
                                       /\ scans'[i].snapshot = scans[i].snapshot
<1>0. changes \in Nat /\ \A p \in Process : call[p] # None => call[p].since \in Nat
  BY CallFields DEF TypeOK, Call
<1>1. ASSUME NEW p \in Process, ReadsTarget(p) PROVE CapturesAreTrue'
  <2>1. /\ call[p] # None /\ \A q \in Process \ {p} : call'[q] = call[q]
        /\ changes' = changes /\ checkout' = checkout /\ Kept
    BY <1>1, ReadKeeps DEF Known
  <2>2. /\ call'[p].since <= changes
        /\ call'[p].step = "diff" /\ call'[p].since = changes => call'[p].read.head = checkout.head
        /\ call'[p].step = "decide" /\ call'[p].source # None =>
                call'[p].read = SnapshotOf(call'[p].source)
    <3>1. CASE ReadHead(p)
      BY <1>0, <3>1, ReadHeadCall
    <3>2. CASE Stat(p)
      BY <1>0, <2>1, <3>2, StatCall DEF CapturesAreTrue
    <3>3. CASE ReadDiff(p)
      <4>1. call[p].step = "diff"
        BY <3>3 DEF ReadDiff, Reads
      <4>2. call[p].since = changes => call[p].read.head = checkout.head
        BY <2>1, <4>1 DEF CapturesAreTrue
      <4>3. call'[p].since = 0 /\ call'[p].step \in {"decide", "stat"}
        BY <3>3, ReadDiffCall
      <4>4. call'[p].step = "decide" /\ call'[p].source # None =>
                call'[p].source = checkout /\ call'[p].read = SnapshotOf(checkout)
        BY <3>3, <4>2, ReadDiffCall
      <4> QED
        BY <1>0, <4>3, <4>4
    <3> QED
      BY <1>1, <3>1, <3>2, <3>3 DEF ReadsTarget
  <2> QED
    BY <2>1, <2>2 DEF CapturesAreTrue
<1>2. ASSUME NEW p \in Process, BeginsAny(p) PROVE CapturesAreTrue'
  <2>1. /\ \A q \in Process \ {p} : call'[q] = call[q]
        /\ changes' = changes /\ checkout' = checkout /\ Kept
    BY <1>2, BeginKeeps DEF Known
  <2>2. call'[p].since = 0 /\ call'[p].source = None /\ call'[p].step # "diff"
    BY <1>2, SaveBegins, StartBegins, CompleteBegins DEF BeginsAny
  <2> QED
    BY <1>0, <2>1, <2>2 DEF CapturesAreTrue
<1>3. ASSUME NEW p \in Process, Save(p) \/ EndCall(p) \/ Complete(p) PROVE CapturesAreTrue'
  <2>1. /\ call'[p] = None /\ \A q \in Process \ {p} : call'[q] = call[q]
        /\ changes' = changes /\ checkout' = checkout
    BY <1>3, CallEnds, CompleteRow, RowKeeps
  <2>2. Kept
    BY <1>3, CompleteRow, ScanEnds, RowKeeps DEF Known
  <2> QED
    BY <2>1, <2>2 DEF CapturesAreTrue
<1>4. ASSUME NEW p \in Process, Publish(p) PROVE CapturesAreTrue'
  <2>1. /\ call[p] # None /\ call[p].step = "decide" /\ call'[p] = None
        /\ \A q \in Process \ {p} : call'[q] = call[q]
        /\ changes' = changes /\ checkout' = checkout
    BY <1>4, CallEnds, RowKeeps DEF Publish, At
  <2> PICK i \in Scan \ Known : /\ Known' = Known \cup {i}
                                /\ scans'[i].snapshot = call[p].read
                                /\ scans'[i].source = call[p].source
                                /\ \A j \in Scan \ {i} : scans'[j] = scans[j]
    BY <1>4, PublishRow
  <2>2. Known \subseteq Scan \ {i}
    BY DEF Known
  <2> QED
    BY <2>1, <2>2 DEF CapturesAreTrue
<1>5. ASSUME NEW i \in Scan, EndScan(i) PROVE CapturesAreTrue'
  <2>1. Kept /\ call' = call /\ changes' = changes /\ checkout' = checkout
    BY <1>5, ScanEnds, RowKeeps
  <2> QED
    BY <2>1 DEF CapturesAreTrue
<1>6. ASSUME World PROVE CapturesAreTrue'
  <2>1. Kept /\ call' = call /\ changes' = changes + 1
    BY <1>6, WorldKeeps DEF Known
  <2> QED
    BY <1>0, <2>1 DEF CapturesAreTrue
<1>7. ASSUME UNCHANGED vars PROVE CapturesAreTrue'
  BY <1>7, RowKeeps DEF CapturesAreTrue, Known
<1> QED
  BY <1>1, <1>2, <1>3, <1>4, <1>5, <1>6, <1>7, StepKinds

-----------------------------------------------------------------------------
\* The scans of a workspace and their fields, after each step that is not a start.
LEMMA RowsStay ==
  ASSUME TypeOK, CallsHaveSubject, ScansAreActive, [Next]_vars, \A p \in Process : ~Publish(p)
  PROVE  /\ Known' = Known
         /\ \A i \in Known :
                /\ scans'[i].setup = scans[i].setup /\ scans'[i].place = scans[i].place
                /\ scans'[i].from = scans[i].from /\ scans'[i].snapshot = scans[i].snapshot
                /\ scans'[i].source = scans[i].source
         /\ workspace' = workspace \/ Known = {}
<1>1. ASSUME scans' = scans, workspace' = workspace \/ Known = {}
      PROVE  /\ Known' = Known
             /\ \A i \in Known : scans'[i] = scans[i]
             /\ workspace' = workspace \/ Known = {}
  BY <1>1 DEF Known
<1>2. ASSUME NEW p \in Process, ReadsTarget(p) PROVE scans' = scans /\ workspace' = workspace
  BY <1>2, ReadKeeps
<1>3. ASSUME NEW p \in Process, BeginsAny(p) PROVE scans' = scans /\ workspace' = workspace
  BY <1>3, BeginKeeps
<1>4. ASSUME NEW p \in Process, Save(p) PROVE scans' = scans /\ Known = {}
  BY <1>4, SaveRow
<1>5. ASSUME World \/ UNCHANGED vars \/ (\E p \in Process : EndCall(p))
      PROVE  scans' = scans /\ workspace' = workspace
  BY <1>5, WorldKeeps, RowKeeps
<1>6. CASE \E p \in Process : Complete(p)
  BY <1>6, CompleteRow, ScanEnds, RowKeeps
<1>7. CASE \E i \in Scan : EndScan(i)
  BY <1>7, ScanEnds, RowKeeps
<1> QED
  BY <1>1, <1>2, <1>3, <1>4, <1>5, <1>6, <1>7, StepKinds

\* A start publishes the setup that it has read and approved.
LEMMA SetupStep ==
  ASSUME TypeOK, CallsHaveSubject, ScansAreActive, DiffsAreSelected, ScansHaveTheSetup, [Next]_vars
  PROVE  ScansHaveTheSetup'
<1>1. ASSUME NEW p \in Process, Publish(p) PROVE ScansHaveTheSetup'
  <2> PICK i \in Scan \ Known : /\ Known' = Known \cup {i}
                                /\ scans'[i].setup = call[p].setup
                                /\ \A j \in Scan \ {i} : scans'[j] = scans[j]
                                /\ workspace'.setup = workspace.setup
    BY <1>1, PublishRow
  <2>1. call[p].setup = workspace.setup
    BY <1>1 DEF Publish, MayPublish, Approves
  <2>2. Known \subseteq Scan \ {i}
    BY DEF Known
  <2> QED
    BY <2>1, <2>2 DEF ScansHaveTheSetup
<1>2. ASSUME \A p \in Process : ~Publish(p) PROVE ScansHaveTheSetup'
  BY <1>2, RowsStay DEF ScansHaveTheSetup
<1> QED
  BY <1>1, <1>2

\* The directory at the end of a start is the one it began with, and so was any
\* that was read in between.
LEMMA SnapshotStep ==
  ASSUME TypeOK, CallsHaveSubject, ScansAreActive, DiffsAreSelected, ReadsAreOfPlace,
         SnapshotIsOfTarget, [Next]_vars
  PROVE  SnapshotIsOfTarget'
<1>1. ASSUME NEW p \in Process, Publish(p) PROVE SnapshotIsOfTarget'
  <2> DEFINE c == call[p]
  <2> PICK i \in Scan \ Known : /\ Known' = Known \cup {i}
                                /\ scans'[i].setup = c.setup /\ scans'[i].place = c.place
                                /\ scans'[i].from = c.from /\ scans'[i].snapshot = c.read
                                /\ \A j \in Scan \ {i} : scans'[j] = scans[j]
    BY <1>1, PublishRow
  <2>1. c # None /\ c \in Call /\ c.kind = "start" /\ c.step = "decide" /\ place = c.place
    BY <1>1, CallFields DEF Publish, At, MayPublish
  <2>2. c.place # None /\ (c.setup.mode = "diff" => c.read = c.setup.selected)
    BY <2>1 DEF DiffsAreSelected, IsDiff
  <2>3. c.from # {} /\ \A q \in c.from : c.place <= q /\ q <= place
    BY <2>1, <2>2 DEF ReadsAreOfPlace
  <2>4. c.from \subseteq Nat /\ place \in Nat
    BY <2>1 DEF Call, Place, TypeOK
  <2>5. c.from = {c.place}
    BY <2>1, <2>3, <2>4
  <2>6. Known \subseteq Scan \ {i}
    BY DEF Known
  <2> QED
    BY <2>2, <2>5, <2>6 DEF SnapshotIsOfTarget
<1>2. ASSUME \A p \in Process : ~Publish(p) PROVE SnapshotIsOfTarget'
  BY <1>2, RowsStay DEF SnapshotIsOfTarget
<1> QED
  BY <1>1, <1>2

\* The inductive invariant.
THEOREM Inductive == Spec => []IInv
<1>1. Init => IInv
  BY InitIInv
<1>2. IInv /\ [Next]_vars => IInv'
  BY TypeStep, SubjectStep, StampStep, PlaceStep, SelectedStep, CaptureStep, SetupStep,
     SnapshotStep DEF IInv
<1> QED
  BY <1>1, <1>2, PTL DEF Spec

-----------------------------------------------------------------------------
\* Every variable keeps its type.
THEOREM TypeCorrect == Spec => []TypeOK
<1>1. IInv => TypeOK
  BY DEF IInv
<1> QED
  BY <1>1, Inductive, PTL

\* Every scan of a workspace was started with the setup the workspace has.
THEOREM OneSetup == Spec => []ScansHaveTheSetup
<1>1. IInv => ScansHaveTheSetup
  BY DEF IInv
<1> QED
  BY <1>1, Inductive, PTL

\* A snapshot is of the directory of its scan, and of what was selected.
THEOREM RightTarget == Spec => []SnapshotIsOfTarget
<1>1. IInv => SnapshotIsOfTarget
  BY DEF IInv
<1> QED
  BY <1>1, Inductive, PTL

\* A start adds a scan only to the scans it saw.
THEOREM OneStart == Spec => NoScanTwice
<1> DEFINE Now == \A p \in Process :
                    Known' # Known /\ call'[p] # call[p] => call[p].approval.known = Known
<1>1. IInv /\ [Next]_vars => [Now]_vars
  <2> SUFFICES ASSUME IInv, [Next]_vars, NEW p \in Process, Known' # Known, call'[p] # call[p]
               PROVE  call[p].approval.known = Known
    OBVIOUS
  <2>1. PICK q \in Process : Publish(q)
    BY RowsStay DEF IInv
  <2>2. q = p
    BY <2>1, CallEnds DEF IInv
  <2>3. call[p] # None /\ call[p].kind = "start" /\ call[p].approval.stamp = workspace.stamp
    BY <2>1, <2>2 DEF Publish, At, MayPublish
  <2> QED
    BY <2>3 DEF IInv, StampsAreTrue
<1> HIDE DEF Now
<1>2. [][Now]_vars => NoScanTwice
  BY PTL DEF Now, NoScanTwice
<1> QED
  BY <1>1, <1>2, Inductive, PTL DEF Spec

\* Two states of the target with one snapshot are one state.
LEMMA SnapshotsTell ==
  ASSUME NEW a \in Checkout, NEW b \in Checkout, SnapshotOf(a) = SnapshotOf(b)
  PROVE  a = b
<1>1. a.head = b.head /\ DiffFrom(a.head, a.files) = DiffFrom(b.head, b.files)
  BY DEF SnapshotOf
<1>2. a.files \in Content /\ b.files \in Content
  BY DEF Checkout
<1>3. a.files = b.files
  <2>1. CASE a.head = a.files
    <3>1. DiffFrom(a.head, a.files) = {}
      BY <1>2, <2>1 DEF DiffFrom
    <3>2. <<b.head, b.files>> \in {<<t, t>> : t \in Content}
      BY <1>1, <3>1 DEF DiffFrom
    <3>3. b.head = b.files
      BY <3>2
    <3> QED
      BY <1>1, <2>1, <3>3
  <2>2. CASE a.head # a.files
    <3>1. <<a.head, a.files>> \in DiffFrom(a.head, a.files)
      BY <1>2, <2>2 DEF DiffFrom
    <3>2. <<a.head, a.files>> \in DiffFrom(b.head, b.files)
      BY <1>1, <3>1
    <3>3. <<a.head, a.files>> = <<b.head, b.files>>
      BY <3>2 DEF DiffFrom
    <3> QED
      BY <3>3
  <2> QED
    BY <2>1, <2>2
<1> QED
  BY <1>1, <1>3 DEF Checkout

\* What an undisturbed completion sees is what the scan was started on.
THEOREM SameState == Spec => ResultIsOfTarget
<1> DEFINE Now == \A p \in Process :
                    /\ At(p, "complete", "decide") /\ scans'[call[p].scan] # scans[call[p].scan]
                    /\ call[p].source # None /\ scans[call[p].scan].source # None
                    => call[p].source = scans[call[p].scan].source
<1>1. IInv /\ [Next]_vars => [Now]_vars
  <2> SUFFICES ASSUME IInv, [Next]_vars, NEW p \in Process, At(p, "complete", "decide"),
                      scans'[call[p].scan] # scans[call[p].scan],
                      call[p].source # None, scans[call[p].scan].source # None
               PROVE  call[p].source = scans[call[p].scan].source
    OBVIOUS
  <2> DEFINE i == call[p].scan
  <2>1. TypeOK /\ CallsHaveSubject /\ DiffsAreSelected /\ CapturesAreTrue /\ ScansAreActive
    BY DEF IInv
  <2>2. call[p] # None /\ call[p] \in Call /\ call[p].kind = "complete" /\ call[p].step = "decide"
    BY <2>1, CallFields DEF At
  <2>3. i \in Running /\ i \in Known /\ i \in Scan /\ IsLocked(i)
    BY <2>1, <2>2 DEF CallsHaveSubject, Running, Known, IsLocked
  <2>4. Complete(p)
    <3>1. ASSUME NEW q \in Process, Publish(q) PROVE FALSE
      <4> PICK j \in Scan \ Known : \A k \in Scan \ {j} : scans'[k] = scans[k]
        BY <2>1, <3>1, PublishRow
      <4> QED
        BY <2>3
    <3>2. ASSUME NEW q \in Process, Complete(q) PROVE q = p
      <4>1. /\ call[q] # None /\ call[q].kind = "complete" /\ call[q].scan \in Known
            /\ scans' = [scans EXCEPT ![call[q].scan].running = FALSE]
        BY <2>1, <3>2, CompleteRow
      <4>2. call[q].scan = i
        BY <2>1, <2>3, <4>1, ScanEnds
      <4> QED
        BY <2>1, <2>2, <4>1, <4>2 DEF CallsHaveSubject
    <3>3. ASSUME NEW j \in Scan, EndScan(j) PROVE FALSE
      <4>1. j # i /\ j \in Known /\ scans' = [scans EXCEPT ![j].running = FALSE]
        BY <2>3, <3>3, RowKeeps
      <4> QED
        BY <2>1, <2>3, <4>1, ScanEnds
    <3>4. scans' # scans
      OBVIOUS
    <3> QED
      BY <2>1, <3>1, <3>2, <3>3, <3>4, StepKinds, ReadKeeps, BeginKeeps, WorldKeeps, RowKeeps
  <2>5. call[p].read = scans[i].snapshot
    BY <2>4 DEF Complete, SameTarget
  <2>6. SnapshotOf(call[p].source) = SnapshotOf(scans[i].source)
    BY <2>1, <2>2, <2>3, <2>5 DEF CapturesAreTrue
  <2>7. call[p].source \in Checkout
    BY <2>2 DEF Call
  <2>8. scans[i].source \in Checkout
    BY <2>1, <2>3 DEF TypeOK, Known, ScanRow
  <2> QED
    BY <2>6, <2>7, <2>8, SnapshotsTell
<1> HIDE DEF Now
<1>2. [][Now]_vars => ResultIsOfTarget
  BY PTL DEF Now, ResultIsOfTarget
<1> QED
  BY <1>1, <1>2, Inductive, PTL DEF Spec
=============================================================================
