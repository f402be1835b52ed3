------------------------------ MODULE ScanStart ------------------------------
(***************************************************************************)
(* The setup of one workspace, the start of its scans, and the target they  *)
(* are of.  A chat saves the setup, the user approves exactly that setup,   *)
(* and the chat starts a scan of it.  A start reads the workspace, captures *)
(* the target without any transaction, and then decides in a transaction on *)
(* the workspace as it is by then.  Completion captures the target again.   *)
(*                                                                          *)
(* A capture reads the commit that is checked out and then the changes of   *)
(* the files against the commit, and a diff is captured twice.  Whoever     *)
(* works in the target may change it between any two reads.                 *)
(*                                                                          *)
(* All calls are of the chat that owns the workspace.  A chat has more than *)
(* one call under way when its client gave up waiting for one and called    *)
(* again, through a new server process.                                     *)
(*                                                                          *)
(* Abstractions.  The files of the target are one value, which also names   *)
(* the commit that holds them; the changes are read at one moment, and a    *)
(* digest is what it is of.  Deep mode is as standard mode; a diff is of    *)
(* the working tree, as commits do not change.  A request may name what it  *)
(* selects, but is refused unless that is what is read; so the selection is *)
(* what is read.  A directory that was replaced does not come back to the   *)
(* path.  Two writes of a workspace have different times.                   *)
(***************************************************************************)
EXTENDS Naturals

CONSTANTS
    Process,        \* server processes that serve the chat
    Content,        \* what the files, or a commit, may hold
    None,           \* nothing
    MaxUpdates,     \* bound on saved setups
    MaxScans,       \* bound on scans
    MaxPlaces,      \* bound on directories that are put at the path
    MaxChanges      \* bound on changes of the target

ASSUME BoundAssumption ==
    MaxUpdates \in Nat /\ MaxScans \in Nat /\ MaxPlaces \in Nat \ {0} /\ MaxChanges \in Nat
ASSUME NoneAssumption == None \notin Content

\* Without a commit the target is a plain directory.
Checkout == [head : Content \cup {None}, files : Content]

\* The changes against a commit; those of a plain directory are all it holds.
DiffFrom(head, files) == {<<head, files>>} \ {<<t, t>> : t \in Content}

\* A revision, and what goes into the digest.
Snapshot == [head : Content \cup {None}, diff : SUBSET ((Content \cup {None}) \X Content)]
Unread == [head |-> None, diff |-> {}]

Setup == [mode : {"standard"}, selected : {None}] \cup [mode : {"diff"}, selected : Snapshot]
Place == 1..MaxPlaces
Scan == 1..MaxScans

Approval == [revision : 0..MaxUpdates, stamp : Nat, known : SUBSET Scan]
Call == [kind : {"save", "start", "complete"},
         step : {"stat", "head", "diff", "decide"},
         setup : Setup \cup [mode : {"diff"}, selected : {None}],
         approval : Approval \cup {None}, scan : Scan \cup {None}, place : Place \cup {None}, from : SUBSET Place,
         since : 0..MaxChanges, read : Snapshot, source : Checkout \cup {None}]
ScanRow == [running : BOOLEAN, setup : Setup, place : Place, from : SUBSET Place,
            snapshot : Snapshot, source : Checkout \cup {None}]

ASSUME NoneIsNoRecord ==
    None \notin Checkout \cup Snapshot \cup Setup \cup Place \cup Scan \cup Approval \cup Call \cup ScanRow

VARIABLES
    workspace,      \* the row of the workspace
    scans,          \* the rows of its scans
    place, checkout,\* the directory at the target's path, and what it holds
    changes,        \* history: how often the target was changed
    call            \* the call of a process, and what it has read so far

target == <<place, checkout, changes>>
vars == <<workspace, scans, target, call>>

\* create_workspace leaves a draft that is not submitted.
Init ==
    /\ workspace = [setup |-> None, revision |-> 0, stamp |-> 0, active |-> None]
    /\ scans = [i \in Scan |-> None]
    /\ place = 1
    /\ checkout \in Checkout
    /\ changes = 0
    /\ call = [p \in Process |-> None]

Known == {i \in Scan : scans[i] # None}
Running == {i \in Known : scans[i].running}

At(p, kind, step) == call[p] # None /\ call[p].kind = kind /\ call[p].step = step
Reads(p, step) == call[p] # None /\ call[p].step = step
Goes(p, news) == call' = [call EXCEPT ![p] = news]
Ends(p) == Goes(p, None)

\* A call that inspects a setup.  Only a diff is resolved for that.
Begins(p, kind, setup, first, approval, scan) ==
    Goes(p, [kind |-> kind, step |-> IF setup.mode = "diff" THEN "head" ELSE first, setup |-> setup,
             approval |-> approval, scan |-> scan,
             place |-> None, from |-> {}, since |-> 0, read |-> Unread, source |-> None])

-----------------------------------------------------------------------------
(* The target: inspect_setup and capture. *)

IsDiff(c) == c.setup.mode = "diff"

\* A diff needs a commit to start from.
ReadHead(p) ==
    /\ Reads(p, "head")
    /\ IsDiff(call[p]) => checkout.head # None
    /\ Goes(p, [call[p] EXCEPT !.step = "diff", !.from = @ \cup {place}, !.since = changes,
                               !.read = [head |-> checkout.head, diff |-> {}]])
    /\ UNCHANGED <<workspace, scans, target>>

AnyResolves(c, read) == TRUE
\* What was selected before is still there.
Resolves(c, read) == IsDiff(c) /\ c.setup.selected # None => read = c.setup.selected

\* Git compares with the commit that is checked out by now, if there was one.
\* A diff is resolved to inspect it and, after a look at the directory, once more.
ReadDiff(p) ==
    /\ Reads(p, "diff")
    /\ LET c == call[p]
           base == IF c.read.head = None THEN None ELSE checkout.head
           read == [head |-> c.read.head, diff |-> DiffFrom(base, checkout.files)] IN
        /\ c.read.head # None => base # None
        /\ Resolves(c, read)
        /\ Goes(p, IF c.kind = "save" \/ c.place # None
                   THEN [c EXCEPT !.step = "decide", !.from = @ \cup {place}, !.since = 0, !.read = read,
                                  !.source = IF c.since = changes THEN checkout ELSE None]
                   ELSE [c EXCEPT !.step = "stat", !.from = {}, !.since = 0, !.read = Unread])
    /\ UNCHANGED <<workspace, scans, target>>

Stat(p) ==
    /\ Reads(p, "stat")
    /\ Goes(p, [call[p] EXCEPT !.step = "head", !.place = place])
    /\ UNCHANGED <<workspace, scans, target>>

-----------------------------------------------------------------------------
(* update_workspace_setup: inspection, then one transaction. *)

BeginSave(p) ==
    /\ call[p] = None
    /\ \E mode \in {"standard", "diff"} :
        Begins(p, "save", [mode |-> mode, selected |-> None], "decide", None, None)
    /\ UNCHANGED <<workspace, scans, target>>

SavesAnytime(p) == TRUE
\* The setup is locked from the first scan on.
MaySave(p) == workspace.active = None

Save(p) ==
    /\ At(p, "save", "decide")
    /\ MaySave(p)
    /\ workspace.revision < MaxUpdates
    /\ LET c == call[p] IN
       workspace' = [workspace EXCEPT
            !.setup = [mode |-> c.setup.mode, selected |-> IF IsDiff(c) THEN c.read ELSE None],
            !.revision = @ + 1, !.stamp = @ + 1]
    /\ Ends(p)
    /\ UNCHANGED <<scans, target>>

-----------------------------------------------------------------------------
(* start_scan. *)

\* The call is for the setup as it is saved, in this revision.  That there is a
\* number left for the scan is the bound.
BeginStart(p) ==
    /\ call[p] = None
    /\ workspace.setup # None
    /\ Running = {}
    /\ Known # Scan
    /\ Begins(p, "start", workspace.setup, "stat",
              [revision |-> workspace.revision, stamp |-> workspace.stamp, known |-> Known], None)
    /\ UNCHANGED <<workspace, scans, target>>

\* The caller approves the setup as it is saved, in this revision.
Approves(c) == c.approval.revision = workspace.revision /\ c.setup = workspace.setup

\* What a careless transaction would leave unchecked, and the one of the code.
IgnoresTime(c) == Approves(c) /\ Running = {} /\ place = c.place
MayPublish(c) ==
    /\ Approves(c)
    /\ Running = {}
    /\ workspace.stamp = c.approval.stamp
    /\ place = c.place

Publish(p) ==
    /\ At(p, "start", "decide")
    /\ MayPublish(call[p])
    /\ \E i \in Scan \ Known :
        /\ \A j \in 1..(i - 1) : j \in Known
        /\ scans' = [scans EXCEPT ![i] =
                [running |-> TRUE, setup |-> call[p].setup, place |-> call[p].place,
                 from |-> call[p].from, snapshot |-> call[p].read, source |-> call[p].source]]
        /\ workspace' = [workspace EXCEPT !.active = i, !.stamp = @ + 1]
    /\ Ends(p)
    /\ UNCHANGED target

\* A call that is refused, that finds a scan running and returns it, or whose
\* process dies, changes nothing.
EndCall(p) ==
    /\ call[p] # None
    /\ Ends(p)
    /\ UNCHANGED <<workspace, scans, target>>

-----------------------------------------------------------------------------
(* The end of a scan, under its lock. *)

IsLocked(i) == \E p \in Process : call[p] # None /\ call[p].kind = "complete" /\ call[p].scan = i

\* A scan with a seal is not looked at again, and is no concern here.
BeginComplete(p) ==
    /\ call[p] = None
    /\ \E i \in Running :
        /\ ~IsLocked(i)
        /\ Begins(p, "complete", scans[i].setup, "stat", None, i)
    /\ UNCHANGED <<workspace, scans, target>>

SameDigest(c) == c.read.diff = scans[c.scan].snapshot.diff
\* The revision and the digest are those of the scan.
SameTarget(c) == c.read = scans[c.scan].snapshot

\* What follows, the seal and its publication, does not look at the target.
Complete(p) ==
    /\ At(p, "complete", "decide")
    /\ SameTarget(call[p])
    /\ scans' = [scans EXCEPT ![call[p].scan].running = FALSE]
    /\ Ends(p)
    /\ UNCHANGED <<workspace, target>>

\* A scan is failed or canceled.
EndScan(i) ==
    /\ i \in Running
    /\ ~IsLocked(i)
    /\ scans' = [scans EXCEPT ![i].running = FALSE]
    /\ UNCHANGED <<workspace, target, call>>

-----------------------------------------------------------------------------
\* Files are edited, or something is committed or checked out.
ChangeTarget ==
    /\ changes < MaxChanges
    /\ checkout' \in Checkout \ {checkout}
    /\ changes' = changes + 1
    /\ UNCHANGED <<workspace, scans, place, call>>

ReplaceTarget ==
    /\ changes < MaxChanges /\ place < MaxPlaces
    /\ place' = place + 1
    /\ checkout' \in Checkout
    /\ changes' = changes + 1
    /\ UNCHANGED <<workspace, scans, call>>

Next ==
    \/ \E p \in Process :
        \/ ReadHead(p) \/ ReadDiff(p) \/ Stat(p)
        \/ BeginSave(p) \/ Save(p)
        \/ BeginStart(p) \/ Publish(p)
        \/ BeginComplete(p) \/ Complete(p)
        \/ EndCall(p)
    \/ \E i \in Scan : EndScan(i)
    \/ ChangeTarget
    \/ ReplaceTarget

Spec == Init /\ [][Next]_vars

-----------------------------------------------------------------------------
\* The type invariant of every variable.  A workspace has a saved setup from its
\* first revision on, and an active scan only if it has one.
TypeOK ==
    /\ workspace \in [setup : Setup \cup {None}, revision : 0..MaxUpdates, stamp : Nat,
                      active : Scan \cup {None}]
    /\ workspace.setup = None <=> workspace.revision = 0
    /\ workspace.active \in Known \cup {None}
    /\ scans \in [Scan -> ScanRow \cup {None}]
    /\ place \in Place /\ checkout \in Checkout /\ changes \in 0..MaxChanges
    /\ call \in [Process -> Call \cup {None}]

\* Every scan of a workspace was started with the setup the workspace has: the
\* setup that was saved while a start was capturing the target is not mistaken
\* for the one that was captured, and none is saved behind a scan.
ScansHaveTheSetup == \A i \in Known : scans[i].setup = workspace.setup

\* All of the snapshot of a scan was read from the directory whose identity the
\* scan records, and that of a diff scan is what was selected and approved.
SnapshotIsOfTarget ==
    \A i \in Known :
        /\ scans[i].from = {scans[i].place}
        /\ scans[i].setup.mode = "diff" => scans[i].snapshot = scans[i].setup.selected

\* A start adds a scan only to those it saw: of two starts that find none running
\* one starts a scan, and one that was slow, and whose client started another
\* scan meanwhile, starts none when that is over.
NoScanTwice ==
    [][\A p \in Process : Known' # Known /\ call'[p] # call[p] => call[p].approval.known = Known]_vars

\* The target is the same when a scan is completed as when it was captured,
\* whatever was committed, checked out or edited in between; for the captures
\* that were not disturbed, as a snapshot that was may be of no state at all.
ResultIsOfTarget ==
    [][\A p \in Process :
        /\ At(p, "complete", "decide") /\ scans'[call[p].scan] # scans[call[p].scan]
        /\ call[p].source # None /\ scans[call[p].scan].source # None
        => call[p].source = scans[call[p].scan].source]_vars
=============================================================================
