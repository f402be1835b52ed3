------------------------------ MODULE SetupView ------------------------------
(***************************************************************************)
(* The panel of one window: the buttons of the page it shows last, the one  *)
(* action it carries out at a time, the admin process that an action starts  *)
(* for its call on the workbench, and the refreshes that read the dashboard  *)
(* and the open folders and replace the page.                               *)
(*                                                                          *)
(* An action ends with a refresh of its own; a change of the workspace       *)
(* folders starts one more, outside the busy flag, so that refreshes overlap *)
(* and may end in any order.  The workbench is also changed from elsewhere:   *)
(* by chats and by other windows.                                           *)
(*                                                                          *)
(* A scan has one finding, which is there once the scan is complete.  The    *)
(* attempts to remedy a finding are one row, whose version counts on when an *)
(* attempt supersedes another; so are its tracking requests.  An admin        *)
(* process that is killed at its timeout has committed or never will.        *)
(*                                                                          *)
(* A call that changes a recovery request takes its time before it waits for *)
(* the database, and the dashboard orders requests by those times: no two     *)
(* calls take the same one.  What a call tells is what it committed.         *)
(***************************************************************************)
EXTENDS Integers, Absent

CONSTANTS
    Scan,           \* scans of the workbench
    Folder,         \* folders that can be open
    Home,           \* the folder in which the target of a scan lies
    MaxRequests,    \* bound on recovery requests
    MaxVersion,     \* bound on versions
    MaxRefreshes,   \* bound on refreshes under way beside the panel's own
    MaxEvents       \* bound on clicks, changes of folders and changes made elsewhere

Request == 1..MaxRequests
Own == 0
Refresh == {Own} \cup (1..MaxRefreshes)

RecoveryCommand == {"createRecovery", "cancelRecovery"}

\* These need the scan's folder to be open; these need it only while the panel
\* is limited to the current workspace; these make no call ("local" stands for
\* refresh, connectIntegration, copyScanPrompt and the three that show a file).
SourceCommand == {"createRecovery", "cancelRecovery", "requestRemediation",
                  "copyRemediationPrompt"}
VisibleCommand == {"openTriage", "closeTriage", "trackFinding", "exportScan", "openArtifact"}
LocalCommand == {"selectRepositoryScope", "local"}

Message == [command : (SourceCommand \ {"cancelRecovery"}) \cup VisibleCommand,
            scan : Scan, request : {None}]
           \cup [command : {"cancelRecovery"}, scan : Scan, request : Request]
           \cup [command : LocalCommand, scan : {None}, request : {None}]

ASSUME HomeAssumption == Home \in [Scan -> Folder]
ASSUME ViewBoundAssumption ==
    /\ MaxRequests \in Nat \ {0} /\ MaxVersion \in Nat \ {0}
    /\ MaxRefreshes \in Nat \ {0} /\ MaxEvents \in Nat

\* The workbench, as far as the panel sees it.
Status == {"running", "complete"}
Row == [version : 0..MaxVersion, state : {"none", "pending", "live", "final"}]
NoRow == [version |-> 0, state |-> "none"]
\* With the time a call took for its last change, and when that and the first
\* one were committed.
RecoveryRow == [scan : Scan, status : {"pending", "claimed", "canceled", "delivered"},
                version : 1..MaxVersion, updated : Nat, changed : Nat, created : Nat]
Workbench == [status : [Scan -> Status], recovery : [Request -> {None} \cup RecoveryRow],
              remedy : [Scan -> Row], tracking : [Scan -> Row], closed : SUBSET Scan]

\* The projection; what has not been read yet is None.
Told == [id : Request, scan : Scan, status : {"pending", "claimed", "canceled", "delivered"},
         version : 1..MaxVersion]
Projection(S) == [asOf : Nat, findings : SUBSET Scan, recovery : [Scan -> {None} \cup Told],
                  remedy : [Scan -> Row], closed : SUBSET Scan, status : S]
Dashboard == Projection([Scan -> Status])
Scope == {"current", "all"}
Page == [dashboard : {None} \cup Dashboard, roots : SUBSET Folder, scope : Scope]

\* What a prompt names, an action and a refresh.
Ticket == [about : {"recovery", "remediation", "tracking"}, id : Request \cup Scan,
           version : 0..MaxVersion]
JobState == [message : {None} \cup Message,
             stage : {"asking", "calling", "copying", "notifying", "refreshing"},
             process : {"started", "committed", "ended"}, reply : SUBSET Ticket,
             folders : SUBSET Folder, good : SUBSET Ticket, at : {None} \cup Nat]
RefreshState == [stage : {"inspecting", "halfway", "rendering"}, number : Nat,
                 read : {None} \cup Projection({None}), roots : SUBSET Folder]

ASSUME ViewNoneAssumption ==
    None \notin Scan \cup Folder \cup Request \cup RecoveryRow \cup Told \cup Dashboard
             \cup Page \cup Message \cup JobState \cup RefreshState \cup Nat

VARIABLES
    db,             \* the workbench, as far as the panel sees it
    time,           \* the last time taken, and those of calls under way elsewhere
    mine,           \* history: how many calls of this panel have changed it
    folders,        \* the open folders
    dashboard,      \* the projection the panel has read last
    scope,          \* "current" or "all" repositories
    shown,          \* the page: what it was rendered from
    message,        \* a click on its way from the page
    job,            \* the action under way; the panel is busy as long as there is one
    refresh,        \* the refreshes under way
    clipboard,      \* the prompt copied last
    order,          \* history: which refreshes have got how far
    events          \* how many clicks and changes there have been (a bound)

viewVars == <<db, time, mine, folders, dashboard, scope, shown, message, job, refresh, clipboard, order, events>>

Happens == events < MaxEvents /\ events' = events + 1

\* A refresh that starts as the n-th one.
Started(n) == [stage |-> "inspecting", number |-> n, read |-> None, roots |-> {}]

\* How many refreshes have started since there was none, the last of them that
\* has received an answer or rendered the page, and whether one was overtaken.
Order(n, overtaken) ==
    [started |-> n, answered |-> 0, rendered |-> 0, overtaken |-> overtaken]

\* A request of a call that took the time at and committed it at the time now.
NewRequest(s, at, now) ==
    [scan |-> s, status |-> "pending", version |-> 1, updated |-> at, changed |-> now, created |-> now]

\* The panel is opened on a workbench where scans run or are complete, and where
\* a running one may have a recovery request.
ViewInit ==
    /\ \E done \in SUBSET Scan, asked \in {None} \cup Scan :
        /\ asked \notin done
        /\ db = [status |-> [s \in Scan |-> IF s \in done THEN "complete" ELSE "running"],
                 recovery |-> [i \in Request |->
                    IF i = 1 /\ asked # None
                    THEN NewRequest(asked, 1, 1) ELSE None],
                 remedy |-> [s \in Scan |-> NoRow],
                 tracking |-> [s \in Scan |-> NoRow],
                 closed |-> {}]
    /\ time = [now |-> 1, taken |-> {}]
    /\ mine = 0
    /\ folders \in SUBSET Folder
    /\ dashboard = None
    /\ scope = "current"
    /\ shown = None
    /\ message = None
    /\ job = None
    /\ refresh = [r \in Refresh |-> IF r = 1 THEN Started(1) ELSE None]
    /\ clipboard = None
    /\ order = Order(1, FALSE)
    /\ events = 0

-----------------------------------------------------------------------------
(* The transactions of the workbench that a panel can ask for. *)

IsOpen(i) == db.recovery[i] # None /\ db.recovery[i].status \in {"pending", "claimed"}
OpenFor(s) == {i \in Request : IsOpen(i) /\ db.recovery[i].scan = s}

\* The time is at least that of the call.
NowAt(at) == IF at > time.now THEN at ELSE time.now

Creates(s, at) ==
    \E i \in Request :
        /\ db.recovery[i] = None /\ \A j \in 1..(i - 1) : db.recovery[j] # None
        /\ db' = [db EXCEPT !.recovery[i] = NewRequest(s, at, NowAt(at))]
\* A new request, whatever there is.
CreatesAnother(s, at) == db.status[s] = "running" /\ Creates(s, at)
\* An open request of the scan is told again.
CreateRecovery(s, at) ==
    /\ db.status[s] = "running"
    /\ \/ OpenFor(s) # {} /\ UNCHANGED db
       \/ OpenFor(s) = {} /\ Creates(s, at)

Moves(i, status, at) ==
    /\ db.recovery[i].version < MaxVersion
    /\ db' = [db EXCEPT !.recovery[i] =
            [scan |-> @.scan, status |-> status, version |-> @.version + 1,
             updated |-> at, changed |-> NowAt(at), created |-> @.created]]

\* A canceled request can be canceled again.  Who cancels one has seen it.
CancelRecovery(i, at) ==
    /\ db.recovery[i] # None /\ db.recovery[i].status # "delivered"
    /\ at > db.recovery[i].created
    /\ Moves(i, "canceled", at)

HasFinding(s) == db.status[s] = "complete"

RequestRemediation(s) ==
    /\ HasFinding(s) /\ s \notin db.closed /\ db.remedy[s].state # "pending"
    /\ db.remedy[s].version < MaxVersion
    /\ db' = [db EXCEPT !.remedy[s] = [version |-> @.version + 1, state |-> "pending"]]

\* Closing is refused while an attempt is live.
SetTriage(s, command) ==
    /\ command \in {"openTriage", "closeTriage"} /\ HasFinding(s)
    /\ \/ command = "openTriage" /\ db' = [db EXCEPT !.closed = @ \ {s}]
       \/ /\ command = "closeTriage"
          /\ db.remedy[s].state \notin {"pending", "live"}
          /\ db' = [db EXCEPT !.closed = @ \cup {s}]

CreateTracking(s) ==
    /\ HasFinding(s)
    /\ \/ db.tracking[s].state = "pending" /\ UNCHANGED db
       \/ /\ db.tracking[s].state # "pending" /\ db.tracking[s].version < MaxVersion
          /\ db' = [db EXCEPT !.tracking[s] = [version |-> @.version + 1, state |-> "pending"]]

\* The admin process carries out the operation it was given; that of a prompt
\* copied again is the dashboard, which must show the action still pending.
Carries(m, at) ==
    \/ m.command = "createRecovery" /\ CreateRecovery(m.scan, at)
    \/ m.command = "cancelRecovery" /\ CancelRecovery(m.request, at)
    \/ m.command = "requestRemediation" /\ RequestRemediation(m.scan)
    \/ SetTriage(m.scan, m.command)
    \/ m.command = "trackFinding" /\ CreateTracking(m.scan)
    \/ m.command = "exportScan" /\ HasFinding(m.scan) /\ UNCHANGED db
    \/ m.command = "copyRemediationPrompt" /\ db.remedy[m.scan].state = "pending" /\ UNCHANGED db

\* What a prompt names: the request and the version it expects.
RecoveryTickets(s, d) ==
    {[about |-> "recovery", id |-> i, version |-> d.recovery[i].version] :
        i \in {j \in Request : /\ d.recovery[j] # None /\ d.recovery[j].scan = s
                               /\ d.recovery[j].status \in {"pending", "claimed"}}}
RowTickets(about, s, row) ==
    IF row.state = "pending"
    THEN {[about |-> about, id |-> s, version |-> row.version]} ELSE {}
Tickets(s, d) == RecoveryTickets(s, d) \cup RowTickets("remediation", s, d.remedy[s])
                 \cup RowTickets("tracking", s, d.tracking[s])

\* The prompt that an action copies.
PromptOf(m, d) ==
    CASE m.command = "createRecovery" -> RecoveryTickets(m.scan, d)
      [] m.command \in {"requestRemediation", "copyRemediationPrompt"} ->
            RowTickets("remediation", m.scan, d.remedy[m.scan])
      [] m.command = "trackFinding" -> RowTickets("tracking", m.scan, d.tracking[m.scan])
      [] OTHER -> {}

\* The panel remembers (for its properties) every ticket of its subject that was
\* good at some time since the click.
Noted(d) ==
    IF job = None \/ job.message = None THEN job
    ELSE [job EXCEPT !.good = @ \cup Tickets(job.message.scan, d)]

-----------------------------------------------------------------------------
(* What others do to the workbench. *)

Completes(s) == db.status[s] = "running" /\ db' = [db EXCEPT !.status[s] = "complete"]

\* A chat claims a recovery request, also one whose claim is over, releases or
\* delivers it.  It knows the version, so it has begun after the last change.
HandsOver(i, at) ==
    /\ IsOpen(i)
    /\ at > db.recovery[i].changed
    /\ \/ Moves(i, "claimed", at)
       \/ db.recovery[i].status = "claimed" /\ Moves(i, "pending", at)
       \/ /\ db.recovery[i].status = "claimed" /\ db.status[db.recovery[i].scan] = "running"
          /\ Moves(i, "delivered", at)

\* A chat claims, works on or ends an attempt.
WorksOn(row) ==
    {[version |-> row.version + 1, state |-> to] : to \in {"pending", "live", "final"}}
Remedies(s) ==
    /\ db.remedy[s].state = "pending" /\ db.remedy[s].version < MaxVersion
    /\ \E row \in WorksOn(db.remedy[s]) : db' = [db EXCEPT !.remedy[s] = row]

\* A time is taken, or one that was taken before is used.
NextTime == time.now + 1
Uses(at) ==
    time' = IF db'.recovery = db.recovery THEN time
            ELSE [now |-> NowAt(at), taken |-> time.taken \ {at}]

\* Another process that is to change a request takes its time and waits for the
\* database.
TakesTime ==
    /\ \/ \E s \in Scan : db.status[s] = "running"
       \/ \E i \in Request : db.recovery[i] # None
    /\ time' = [now |-> NextTime, taken |-> time.taken \cup {NextTime}]
    /\ Happens
    /\ UNCHANGED <<db, mine, folders, dashboard, scope, shown, message, job, refresh, clipboard, order>>

Elsewhere ==
    /\ \/ /\ \/ \E s \in Scan : Completes(s) \/ Remedies(s)
             \/ \E m \in Message : m.command \notin RecoveryCommand /\ Carries(m, None)
          /\ UNCHANGED time
       \/ \E at \in time.taken \cup {NextTime} :
          /\ \/ \E i \in Request : HandsOver(i, at)
             \/ \E m \in Message : m.command \in RecoveryCommand /\ Carries(m, at)
          /\ Uses(at)
    /\ db' # db
    /\ job' = Noted(db')
    /\ Happens
    /\ UNCHANGED <<mine, folders, dashboard, scope, shown, message, refresh, clipboard, order>>

-----------------------------------------------------------------------------
(* Refreshes. *)

Active(r) == refresh[r] # None

\* The refresh starts; the numbers begin anew when there is no other.
Starts(r) ==
    /\ refresh' = [refresh EXCEPT ![r] = Started(order.started + 1)]
    /\ order' = IF \A q \in Refresh : ~Active(q) THEN Order(1, FALSE)
                ELSE [order EXCEPT !.started = @ + 1]

\* Request j of a scan has a later time than request i.
IsLater(j, i) ==
    /\ db.recovery[i] # None /\ db.recovery[j] # None
    /\ db.recovery[j].scan = db.recovery[i].scan
    /\ db.recovery[j].updated > db.recovery[i].updated
\* The request of a scan that the dashboard tells: the one with the latest time.
LatestOf(s) ==
    LET latest == {i \in Request : /\ db.recovery[i] # None /\ db.recovery[i].scan = s
                                   /\ \A j \in Request : ~IsLater(j, i)}
    IN  IF latest = {} THEN None
        ELSE LET i == CHOOSE k \in latest : TRUE IN
             [id |-> i, scan |-> s, status |-> db.recovery[i].status, version |-> db.recovery[i].version]

\* The scans are read first.
ReadsScansFirst(part, read) ==
    IF part = 1
    THEN [asOf |-> mine, findings |-> None, recovery |-> None, remedy |-> None, closed |-> None,
          status |-> db.status]
    ELSE [read EXCEPT !.findings = {s \in Scan : HasFinding(s)},
                      !.recovery = [s \in Scan |-> LatestOf(s)],
                      !.remedy = db.remedy, !.closed = db.closed]
\* What the dashboard's process reads first and last: findings and requests in
\* statements of their own, and then the row of every scan.
Reads(part, read) ==
    IF part = 1
    THEN [asOf |-> mine,
          findings |-> {s \in Scan : HasFinding(s)},
          recovery |-> [s \in Scan |-> LatestOf(s)],
          remedy |-> db.remedy, closed |-> db.closed, status |-> None]
    ELSE [read EXCEPT !.status = db.status]

ReadFindings(r) ==
    /\ Active(r) /\ refresh[r].stage = "inspecting"
    /\ refresh' = [refresh EXCEPT ![r].stage = "halfway", ![r].read = Reads(1, None)]
    /\ UNCHANGED <<db, time, mine, folders, dashboard, scope, shown, message, job, clipboard,
                   order, events>>

\* The result of the call, or of its failure, replaces the dashboard of the
\* panel; the open folders are read next.
Receive(r, result) ==
    /\ dashboard' = result
    /\ refresh' = [refresh EXCEPT ![r].stage = "rendering", ![r].read = None,
                                  ![r].roots = folders]
    /\ order' = [order EXCEPT
            !.answered = IF @ < refresh[r].number THEN refresh[r].number ELSE @,
            !.overtaken = @ \/ refresh[r].number < order.answered]
    /\ UNCHANGED <<db, time, mine, folders, scope, shown, message, job, clipboard, events>>

Answer(r) ==
    /\ Active(r) /\ refresh[r].stage = "halfway"
    /\ Receive(r, Reads(2, refresh[r].read))

\* There is no runtime, or its process fails or is killed at the timeout.
ReadFails(r) ==
    /\ Active(r) /\ refresh[r].stage # "rendering"
    /\ Receive(r, None)

\* The page is rendered from the dashboard that the panel has by now and the
\* folders that this refresh has read; the panel is busy until its own is over.
Render(r) ==
    /\ Active(r) /\ refresh[r].stage = "rendering"
    /\ shown' = [dashboard |-> dashboard, roots |-> refresh[r].roots, scope |-> scope]
    /\ refresh' = [refresh EXCEPT ![r] = None]
    /\ order' = LET overtaken == order.overtaken \/ refresh[r].number < order.rendered
                IN  IF \A q \in Refresh \ {r} : ~Active(q) THEN Order(0, overtaken)
                    ELSE [order EXCEPT !.overtaken = overtaken,
                            !.rendered = IF @ < refresh[r].number THEN refresh[r].number ELSE @]
    /\ job' = IF r = Own THEN None ELSE job
    /\ UNCHANGED <<db, time, mine, folders, dashboard, scope, message, clipboard, events>>

\* The user opens or closes folders.
ChangeFolders ==
    /\ folders' \in SUBSET Folder \ {folders}
    /\ Happens
    /\ \E r \in Refresh \ {Own} :
        /\ ~Active(r) /\ \A q \in 1..(r - 1) : Active(q)
        /\ Starts(r)
    /\ UNCHANGED <<db, time, mine, dashboard, scope, shown, message, job, clipboard>>

-----------------------------------------------------------------------------
(* Clicks. *)

Visible(s) == shown.scope = "all" \/ Home[s] \in shown.roots
SourceReady(s) == Home[s] \in shown.roots
\* The dashboard shows an open recovery request of a scan that runs.
ShowsResume(s) ==
    /\ shown.dashboard.status[s] = "running"
    /\ shown.dashboard.recovery[s] # None
    /\ shown.dashboard.recovery[s].status \in {"pending", "claimed"}

\* The buttons of the page.
OffersRecovery(m) == Visible(m.scan) /\ SourceReady(m.scan) /\ ShowsResume(m.scan)
OffersRemedy(m) ==
    /\ Visible(m.scan) /\ SourceReady(m.scan)
    /\ m.scan \in shown.dashboard.findings
    /\ \/ m.command = "copyRemediationPrompt" /\ shown.dashboard.remedy[m.scan].state = "pending"
       \/ m.command = "requestRemediation" /\ shown.dashboard.remedy[m.scan].state # "pending"
OffersFinding(m) ==
    /\ Visible(m.scan) /\ m.scan \in shown.dashboard.findings
    /\ m.command = "openTriage" => m.scan \in shown.dashboard.closed
    /\ m.command = "closeTriage" => m.scan \notin shown.dashboard.closed
Offers(m) ==
    \/ m.command \in LocalCommand
    \/ /\ shown.dashboard # None
       /\ \/ m.command = "createRecovery" /\ OffersRecovery(m)
          \/ /\ m.command = "cancelRecovery" /\ OffersRecovery(m)
             /\ m.request = shown.dashboard.recovery[m.scan].id
          \/ m.command \in {"requestRemediation", "copyRemediationPrompt"} /\ OffersRemedy(m)
          \/ m.command \in {"openTriage", "closeTriage", "trackFinding"} /\ OffersFinding(m)
          \/ /\ m.command \in {"exportScan", "openArtifact"} /\ Visible(m.scan)
             /\ shown.dashboard.status[m.scan] = "complete"

\* The page posts a message; the page may be replaced before it arrives.
Click ==
    /\ message = None /\ shown # None
    /\ \E m \in Message : Offers(m) /\ message' = m
    /\ Happens
    /\ UNCHANGED <<db, time, mine, folders, dashboard, scope, shown, job, refresh, clipboard, order>>

\* The panel looks for what the message names in the dashboard it has now.
Known(m) ==
    /\ dashboard # None
    /\ m.command = "cancelRecovery" =>
        dashboard.recovery[m.scan] # None /\ dashboard.recovery[m.scan].id = m.request
    /\ m.command \notin {"createRecovery", "cancelRecovery", "exportScan", "openArtifact"} =>
        m.scan \in dashboard.findings
    /\ m.command = "copyRemediationPrompt" => dashboard.remedy[m.scan].version > 0
    /\ m.command = "openArtifact" => dashboard.status[m.scan] = "complete"

\* The scan must belong to the current workspace, as its folders are now.
InScope(m) ==
    \/ Home[m.scan] \in folders
    \/ m.command \in VisibleCommand /\ scope = "all"

Job(m, stage) ==
    [message |-> m, stage |-> stage, process |-> "started", reply |-> {}, folders |-> folders,
     good |-> Tickets(m.scan, db), at |-> None]

Done(stage) == [message |-> None, stage |-> stage, process |-> "ended", reply |-> {},
                folders |-> {}, good |-> {}, at |-> None]
\* The action ends; its refresh starts.
Ends == job' = Done("refreshing") /\ Starts(Own)
\* A dialog stays until the user dismisses it.
Notifies == job' = Done("notifying") /\ UNCHANGED <<refresh, order>>

\* The handler drops a message that finds the panel busy.
Handle ==
    /\ message # None
    /\ message' = None
    /\ \/ /\ job # None
          /\ UNCHANGED <<scope, job, refresh, order>>
       \/ /\ job = None /\ message.command \in LocalCommand
          /\ scope' \in IF message.command = "selectRepositoryScope" THEN Scope
                        ELSE {scope}
          /\ Ends \/ Notifies
       \/ /\ job = None /\ message.command \notin LocalCommand
          /\ ~(Known(message) /\ InScope(message))
          /\ Notifies
          /\ UNCHANGED scope
       \/ /\ job = None /\ message.command = "openArtifact"
          /\ Known(message) /\ InScope(message)
          /\ Ends \/ Notifies
          /\ UNCHANGED scope
       \/ /\ job = None /\ message.command \notin LocalCommand \cup {"openArtifact"}
          /\ Known(message) /\ InScope(message)
          /\ job' = Job(message, IF message.command = "closeTriage" THEN "asking" ELSE "calling")
          /\ UNCHANGED <<scope, refresh, order>>
    /\ UNCHANGED <<db, time, mine, folders, dashboard, shown, clipboard, events>>

-----------------------------------------------------------------------------
(* The action under way. *)

JobAt(stage) == job # None /\ job.stage = stage

\* The user picks why the finding is closed, or picks nothing.
Pick ==
    /\ JobAt("asking")
    /\ \/ job' = [job EXCEPT !.stage = "calling"] /\ UNCHANGED <<refresh, order>>
       \/ Ends
    /\ UNCHANGED <<db, time, mine, folders, dashboard, scope, shown, message, clipboard, events>>

\* The process takes the time for a change of a request and waits for the database.
Waits ==
    /\ JobAt("calling") /\ job.process = "started"
    /\ job.message.command \in RecoveryCommand /\ job.at = None
    /\ time' = [time EXCEPT !.now = NextTime]
    /\ job' = [job EXCEPT !.at = NextTime]
    /\ UNCHANGED <<db, mine, folders, dashboard, scope, shown, message, refresh, clipboard,
                   order, events>>

\* The database is open to the process.
CanCommit ==
    /\ JobAt("calling") /\ job.process = "started"
    /\ job.message.command \in RecoveryCommand => job.at # None

\* A prompt is copied again from the dashboard that the panel has.
CommitFromCache ==
    /\ CanCommit
    /\ Carries(job.message, job.at) /\ Uses(job.at)
    /\ mine' = IF db' = db THEN mine ELSE mine + 1
    /\ job' = [Noted(db') EXCEPT !.process = "committed", !.at = None,
                 !.reply = IF job.message.command = "copyRemediationPrompt" /\ dashboard # None
                           THEN RowTickets("remediation", job.message.scan,
                                           dashboard.remedy[job.message.scan])
                           ELSE PromptOf(job.message, db')]
    /\ UNCHANGED <<folders, dashboard, scope, shown, message, refresh, clipboard, order, events>>
\* The process commits; the prompt it has to tell is that of its own result.
Commit ==
    /\ CanCommit
    /\ Carries(job.message, job.at) /\ Uses(job.at)
    /\ mine' = IF db' = db THEN mine ELSE mine + 1
    /\ job' = [Noted(db') EXCEPT !.process = "committed", !.at = None,
                                 !.reply = PromptOf(job.message, db')]
    /\ UNCHANGED <<folders, dashboard, scope, shown, message, refresh, clipboard, order, events>>

\* The process has exited well.  An export is opened, if it is there.
Reply ==
    /\ JobAt("calling") /\ job.process = "committed"
    /\ \/ /\ job.reply # {}
          /\ job' = [job EXCEPT !.stage = "copying"]
          /\ UNCHANGED <<refresh, order>>
       \/ job.reply = {} /\ Ends
       \/ job.message.command = "exportScan" /\ Notifies
    /\ UNCHANGED <<db, time, mine, folders, dashboard, scope, shown, message, clipboard, events>>

\* The process cannot be started, says too much, exits with an error.
CallFails ==
    /\ JobAt("calling")
    /\ Notifies
    /\ UNCHANGED <<db, time, mine, folders, dashboard, scope, shown, message, clipboard, events>>

\* There is no timer.
NeverTimesOut == FALSE /\ UNCHANGED viewVars
\* The time of a call is over: its process is killed, whether it has committed
\* or not.
TimeOut ==
    /\ JobAt("calling")
    /\ Notifies
    /\ UNCHANGED <<db, time, mine, folders, dashboard, scope, shown, message, clipboard, events>>

Copy ==
    /\ JobAt("copying")
    /\ clipboard' \in job.reply
    /\ Ends
    /\ UNCHANGED <<db, time, mine, folders, dashboard, scope, shown, message, events>>

\* A failed action ends without a refresh.
DismissOnly ==
    /\ JobAt("notifying")
    /\ job' = None
    /\ UNCHANGED <<db, time, mine, folders, dashboard, scope, shown, message, refresh, clipboard,
                   order, events>>
\* The user dismisses the dialog; the panel refreshes after a failure, too.
Dismiss ==
    /\ JobAt("notifying")
    /\ Ends
    /\ UNCHANGED <<db, time, mine, folders, dashboard, scope, shown, message, clipboard, events>>

-----------------------------------------------------------------------------
ViewNext ==
    \/ TakesTime \/ Elsewhere \/ ChangeFolders \/ Click \/ Handle
    \/ Pick \/ Waits \/ Commit \/ Reply \/ CallFails \/ TimeOut \/ Copy \/ Dismiss
    \/ \E r \in Refresh : ReadFindings(r) \/ Answer(r) \/ ReadFails(r) \/ Render(r)

\* A call is over at its timeout, that of a refresh too, what follows needs only
\* the window itself, and the user does not leave a dialog open for ever.
Fairness ==
    /\ WF_viewVars(TimeOut \/ Copy \/ Dismiss \/ Pick)
    /\ WF_viewVars(ReadFails(Own) \/ Render(Own))

ViewSpec == ViewInit /\ [][ViewNext]_viewVars /\ Fairness

-----------------------------------------------------------------------------
(* Properties. *)

\* The type invariant of every variable.
ViewTypeOK ==
    /\ db \in Workbench /\ time \in [now : Nat, taken : SUBSET Nat] /\ mine \in Nat /\ folders \subseteq Folder
    /\ dashboard \in {None} \cup Dashboard /\ scope \in Scope
    /\ shown \in {None} \cup Page /\ message \in {None} \cup Message
    /\ job \in {None} \cup JobState /\ refresh \in [Refresh -> {None} \cup RefreshState]
    /\ clipboard \in {None} \cup Ticket
    /\ order \in [started : Nat, answered : Nat, rendered : Nat, overtaken : BOOLEAN]
    /\ events \in 0..MaxEvents

\* A panel at rest, whose page no refresh is about to replace.
AtRest == shown # None /\ job = None /\ \A r \in Refresh : ~Active(r)

\* The page at rest shows the folders that are open and a dashboard that was
\* read after everything this panel has done, also by a call that was reported
\* as failed.  The one exception are refreshes that overtook each other: the
\* one that ends last wins, although it may have read first.
RestIsCurrent ==
    AtRest /\ ~order.overtaken =>
        /\ shown.roots = folders
        /\ shown.dashboard # None => shown.dashboard.asOf = mine

\* A prompt that is copied names a request that was open, with the version it
\* expects, at some time since the click, and of a scan whose repository was
\* open unless the prompt is for tracking.  (The dashboard that allowed the
\* click may be older than that.)
PromptsAreCurrent ==
    [][clipboard' # clipboard =>
        /\ clipboard' \in job.good
        /\ job.message.command \in SourceCommand => Home[job.message.scan] \in job.folders]_viewVars

\* A finding is never projected next to a scan that still runs: findings come
\* into being with the completion of their scan and are read before it.
FindingsAreOfCompleteScans ==
    dashboard # None => \A s \in dashboard.findings : dashboard.status[s] = "complete"

\* A request that is open is the one of its scan that the dashboard shows, until
\* somebody cancels an older one once more, whose row is then the latest; unless
\* the call that created it had taken its time before the last change of an older
\* one was committed.
OpenIsLatest ==
    [][\A i, j \in Request :
        IsOpen(i)' /\ IsLater(j, i)' /\ ~(IsOpen(i) /\ IsLater(j, i)) =>
            \/ /\ db.recovery[j] # None
               /\ db.recovery[j].status = "canceled" /\ db'.recovery[j].status = "canceled"
            \/ /\ db.recovery[i] = None /\ db.recovery[j] # None
               /\ db'.recovery[i].updated <= db.recovery[j].changed]_viewVars

\* The panel does not stay busy: every action ends, whatever its process does.
BusyEnds == job # None ~> job = None

=============================================================================
