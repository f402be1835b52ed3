----------------------------- MODULE Integration -----------------------------
(***************************************************************************)
(* How the windows of the extension connect it to the host.  Each window    *)
(* takes the installation key from the shared state directory, or creates   *)
(* it, and on request installs: the runtime that servers are started from,  *)
(* steering, hook bridge and hook as files of their own, and then an entry  *)
(* in each of two files that belong to the user, the MCP configuration and  *)
(* the permission file.  Runtime and user files are changed under a lock    *)
(* file each, which the user's editor does not take.                        *)
(*                                                                          *)
(* Windows may run different versions of the extension, may be killed at    *)
(* any step, and may fail at any step; both end the install.  The lock of a *)
(* killed window becomes stale and is taken over.                           *)
(*                                                                          *)
(* Abstractions.  A user file is the set of the user's own entries and the  *)
(* set of keys for which it holds what the extension writes; Clash stands   *)
(* for user entries the extension would contradict.  A random key is named  *)
(* by the window that made it.  A directory or file is the version it was   *)
(* written by.  An inspection of several files is one step: whatever it     *)
(* finds is inspected again by the step that writes.                        *)
(***************************************************************************)
EXTENDS Naturals, Absent

CONSTANTS
    Window,         \* windows of the extension
    Version,        \* versions of the extension
    Entry,          \* the user's own entries
    Clash,          \* one that the extension contradicts
    OldKey,         \* the key of an earlier installation
    MaxEdits        \* bound on the user's edits

ASSUME EntryAssumption == Clash \in Entry /\ OldKey \notin Window
ASSUME BoundAssumption == MaxEdits \in Nat
ASSUME NoneAssumption == None \notin Window \cup Version \cup {OldKey}

Key == Window \cup {OldKey}
File == {"mcp", "policy"}
Document == [user : SUBSET Entry, keys : SUBSET Key]
Step == {"activate", "create", "idle", "runtime", "moving", "placing", "initialize", "steering",
         "bridge", "hook", "lock", "snapshot", "check", "rename", "after", "ready"}

VARIABLES
    version,        \* the version a window runs
    identity,       \* integration-identity.json
    runtime,        \* the directory direct-mcp
    steering, bridge, hook,
    config,         \* the user files
    window,         \* where a window is, with what it has read
    edits,          \* how often the user edited a user file
    wanted,         \* what the user made of his entries
    past            \* what has happened: see Event

vars == <<version, identity, runtime, steering, bridge, hook, config, window, edits, wanted, past>>

\* The runtime was there; a window was killed while it was away; the user edited
\* a file when a window had checked it; the user took our key for an entry of his
\* when a window had inspected the MCP configuration and not read it; an install
\* ended that owed the permission file the removal of old keys.
Event == {"placed", "killed", "late", "unseen", "orphaned"}

Closed == [step |-> "activate", key |-> None, file |-> "mcp", read |-> [user |-> {}, keys |-> {}],
           removed |-> {}, previous |-> None]

\* A first installation, one that is upgraded, and one whose state was deleted.
Init ==
    /\ version \in [Window -> Version]
    /\ \E old \in Version \cup {None}, keys \in {{}, {OldKey}} :
        /\ old # None => keys # {}
        /\ runtime = old
        /\ identity = IF old = None THEN None ELSE OldKey
        /\ steering = old /\ bridge = old
        /\ hook = IF keys = {} THEN None ELSE OldKey
        /\ past = IF old = None THEN {} ELSE {"placed"}
        /\ \E user \in SUBSET (Entry \ {Clash}) :
            /\ config = [f \in File |-> [user |-> user, keys |-> keys]]
            /\ wanted = [f \in File |-> user]
    /\ window = [w \in Window |-> Closed]
    /\ edits = 0

Goes(w, step) == window' = [window EXCEPT ![w].step = step]
At(w, step) == window[w].step = step
Others == <<version, edits, wanted>>
Files == <<identity, runtime, steering, bridge, hook, config>>

-----------------------------------------------------------------------------
(* The installation key. *)

ReadIdentity(w) ==
    /\ At(w, "activate")
    /\ window' = [window EXCEPT ![w].step = IF identity = None THEN "create" ELSE "idle",
                                ![w].key = identity]
    /\ UNCHANGED <<Files, Others, past>>

TakesOwn(w) == w
\* A link does not replace the file of a window that was faster.
Linked(w) == IF identity = None THEN w ELSE identity

CreateIdentity(w) ==
    /\ At(w, "create")
    /\ identity' = Linked(w)
    /\ window' = [window EXCEPT ![w].step = "idle", ![w].key = Linked(w)]
    /\ UNCHANGED <<runtime, steering, bridge, hook, config, Others, past>>

-----------------------------------------------------------------------------
(* What an inspection finds. *)

RuntimeIsCurrent(w) == runtime = version[w]

Conflicts(f) == Clash \in config[f].user

\* Entries of this installation under a key it does not have any more.
Stale(w, keys) == keys \ {window[w].key}
IgnoresStaleRules(w, f) ==
    window[w].key \in config[f].keys /\ (f = "mcp" => Stale(w, config[f].keys) = {})
\* The key has its entry, and what is stale is gone.
Registered(w, f) ==
    /\ window[w].key \in config[f].keys
    /\ IF f = "mcp" THEN Stale(w, config[f].keys) = {}
                    ELSE window[w].removed \cap config[f].keys = {}

IsReady(w) ==
    /\ RuntimeIsCurrent(w)
    /\ steering = version[w] /\ bridge = version[w] /\ hook = window[w].key
    /\ \A f \in File : window[w].key \in config[f].keys /\ ~Conflicts(f)
    /\ Stale(w, config["mcp"].keys) = {}

BeginInstall(w) ==
    /\ At(w, "idle") \/ At(w, "ready")
    /\ \A f \in File : ~Conflicts(f)
    /\ Goes(w, IF IsReady(w) THEN "ready" ELSE "runtime")
    /\ UNCHANGED <<Files, Others, past>>

-----------------------------------------------------------------------------
(* The runtime. *)

\* No window is at one of the steps that hold a lock (for user files, of file f).
IsFree(steps, f) == \A v \in Window : ~(window[v].step \in steps /\ window[v].file = f)

AlwaysNeeds(w) == TRUE
\* Inspected again under the lock.
NeedsRuntime(w) == ~RuntimeIsCurrent(w)

LockRuntime(w) ==
    /\ At(w, "runtime")
    /\ IsFree({"moving", "placing"}, "mcp")
    /\ Goes(w, IF NeedsRuntime(w) THEN "moving" ELSE "initialize")
    /\ UNCHANGED <<Files, Others, past>>

MoveAway(w) ==
    /\ At(w, "moving")
    /\ window' = [window EXCEPT ![w].step = "placing", ![w].previous = runtime]
    /\ runtime' = None
    /\ UNCHANGED <<identity, steering, bridge, hook, config, Others, past>>

Place(w) ==
    /\ At(w, "placing")
    /\ runtime = None
    /\ runtime' = version[w]
    /\ past' = past \cup {"placed"}
    /\ window' = [window EXCEPT ![w].step = "initialize", ![w].previous = None]
    /\ UNCHANGED <<identity, steering, bridge, hook, config, Others>>

LeavesNothing(w) == None
\* The directory that was moved away is moved back.
MovedBack(w) == window[w].previous

FailToPlace(w) ==
    /\ At(w, "placing")
    /\ runtime' = MovedBack(w)
    /\ window' = [window EXCEPT ![w].step = "idle", ![w].previous = None]
    /\ UNCHANGED <<identity, steering, bridge, hook, config, Others, past>>

\* The launcher of the runtime is run, without the lock.
Initialize(w) ==
    /\ At(w, "initialize")
    /\ Goes(w, IF runtime # None THEN "steering" ELSE "idle")
    /\ UNCHANGED <<Files, Others, past>>

-----------------------------------------------------------------------------
(* The files that are the extension's own. *)

InstallSteering(w) ==
    /\ At(w, "steering")
    /\ steering' = version[w]
    /\ Goes(w, "bridge")
    /\ UNCHANGED <<identity, runtime, bridge, hook, config, Others, past>>

MaterializeHookBridge(w) ==
    /\ At(w, "bridge")
    /\ bridge' = version[w]
    /\ Goes(w, "hook")
    /\ UNCHANGED <<identity, runtime, steering, hook, config, Others, past>>

InstallHook(w) ==
    /\ At(w, "hook")
    /\ hook' = window[w].key
    /\ window' = [window EXCEPT ![w].step = "lock", ![w].file = "mcp"]
    /\ UNCHANGED <<identity, runtime, steering, bridge, config, Others, past>>

-----------------------------------------------------------------------------
(* The user files. *)

\* After the MCP configuration comes the permission file.
Following(w) ==
    IF window[w].file = "mcp"
    THEN [Closed EXCEPT !.step = "lock", !.file = "policy", !.key = window[w].key]
    ELSE [Closed EXCEPT !.step = "after", !.key = window[w].key]

\* Steps with the lock of a user file.
Locked == {"snapshot", "check", "rename"}

\* The inspection under the lock.  That of the permission file is of what was
\* read for the update; the MCP configuration is read again for it.
LockConfig(w) ==
    LET f == window[w].file IN
    /\ At(w, "lock")
    /\ IsFree(Locked, f)
    /\ ~Conflicts(f)
    /\ window' = [window EXCEPT ![w] =
            IF Registered(w, f) THEN Following(w)
            ELSE IF f = "mcp" THEN [@ EXCEPT !.step = "snapshot"]
            ELSE [@ EXCEPT !.step = "check", !.read = config[f]]]
    /\ UNCHANGED <<Files, Others, past>>

ReadConfig(w) ==
    /\ At(w, "snapshot")
    /\ window' = [window EXCEPT ![w].step = "check", ![w].read = config["mcp"]]
    /\ UNCHANGED <<Files, Others, past>>

WritesAnyway(w) == TRUE
IsUnchanged(w) == config[window[w].file] = window[w].read

CheckConfig(w) ==
    /\ At(w, "check")
    /\ IsUnchanged(w)
    /\ Goes(w, "rename")
    /\ UNCHANGED <<Files, Others, past>>

\* The keys whose entries were removed from the MCP configuration, and whose rules
\* are to be removed next.
Removed(w) == Stale(w, window[w].read.keys)

\* What was read, with the entry of the key, and without stale ones.  In the MCP
\* configuration it takes the place of whatever entry had the key.
Updated(w) ==
    IF window[w].file = "mcp"
    THEN [user |-> window[w].read.user \ {Clash},
          keys |-> (window[w].read.keys \ Removed(w)) \cup {window[w].key}]
    ELSE [user |-> window[w].read.user,
          keys |-> (window[w].read.keys \ window[w].removed) \cup {window[w].key}]

RenameConfig(w) ==
    /\ At(w, "rename")
    /\ config' = [config EXCEPT ![window[w].file] = Updated(w)]
    /\ window' = [window EXCEPT ![w] =
            [Following(w) EXCEPT !.removed = IF window[w].file = "mcp" THEN Removed(w) ELSE {}]]
    /\ UNCHANGED <<identity, runtime, steering, bridge, hook, Others, past>>

Finish(w) ==
    /\ At(w, "after")
    /\ Goes(w, IF IsReady(w) THEN "ready" ELSE "idle")
    /\ UNCHANGED <<Files, Others, past>>

-----------------------------------------------------------------------------
(* Failures. *)

\* What an install that ends here leaves behind.
Ended(w) ==
    past \cup (IF window[w].removed \cap config["policy"].keys # {} THEN {"orphaned"} ELSE {})

\* A lock that is held, a conflict, a file that changed, or an I/O error.
Abort(w) ==
    /\ window[w].step \notin {"activate", "idle", "placing", "ready"}
    /\ window' = [window EXCEPT ![w] = [Closed EXCEPT !.step = IF At(w, "create") THEN "activate" ELSE "idle",
                                                      !.key = window[w].key]]
    /\ past' = Ended(w)
    /\ UNCHANGED <<Files, Others>>

Kill(w) ==
    /\ window[w].step # "activate"
    /\ window' = [window EXCEPT ![w] = Closed]
    /\ past' = Ended(w) \cup (IF At(w, "placing") THEN {"killed"} ELSE {})
    /\ UNCHANGED <<Files, Others>>

\* What a window does not see of a change of the user's entries to these.
Overlooked(f, user) ==
    IF Clash \in user \ config[f].user /\ ~IsFree({"snapshot"}, f) THEN {"unseen"} ELSE {}
Overtaken(f) == IF IsFree({"rename"}, f) THEN {} ELSE {"late"}

\* The user adds or removes an entry, or removes what the extension wrote.
Edit(f) ==
    /\ edits < MaxEdits
    /\ edits' = edits + 1
    /\ \/ \E e \in Entry :
            LET user == IF e \in config[f].user THEN config[f].user \ {e} ELSE config[f].user \cup {e} IN
            /\ config' = [config EXCEPT ![f].user = user]
            /\ wanted' = [wanted EXCEPT ![f] = user]
            /\ past' = past \cup Overlooked(f, user) \cup Overtaken(f)
       \/ /\ config' = [config EXCEPT ![f].keys = {}]
          /\ past' = past \cup Overtaken(f)
          /\ UNCHANGED wanted
    /\ UNCHANGED <<version, identity, runtime, steering, bridge, hook, window>>

Next ==
    \/ \E w \in Window :
        \/ ReadIdentity(w) \/ CreateIdentity(w)
        \/ BeginInstall(w)
        \/ LockRuntime(w) \/ MoveAway(w) \/ Place(w) \/ FailToPlace(w) \/ Initialize(w)
        \/ InstallSteering(w) \/ MaterializeHookBridge(w) \/ InstallHook(w)
        \/ LockConfig(w) \/ ReadConfig(w) \/ CheckConfig(w) \/ RenameConfig(w)
        \/ Finish(w)
        \/ Abort(w) \/ Kill(w)
    \/ \E f \in File : Edit(f)

Spec == Init /\ [][Next]_vars

-----------------------------------------------------------------------------
\* The type invariant of every variable; at most one window is past each lock.
TypeOK ==
    /\ version \in [Window -> Version]
    /\ identity \in Key \cup {None}
    /\ {runtime, steering, bridge} \subseteq Version \cup {None}
    /\ hook \in Key \cup {None}
    /\ config \in [File -> Document]
    /\ window \in [Window -> [step : Step, key : Key \cup {None}, file : File, read : Document,
                              removed : SUBSET Key, previous : Version \cup {None}]]
    /\ \A v, w \in Window : v # w =>
        /\ {window[v].step, window[w].step} \subseteq Locked => window[v].file # window[w].file
        /\ ~({window[v].step, window[w].step} \subseteq {"moving", "placing"})
    /\ edits \in 0..MaxEdits
    /\ wanted \in [File -> SUBSET Entry]
    /\ past \subseteq Event

\* All windows use the key that is on disk, though several may have made one.
OneInstallationKey ==
    \A w \in Window : window[w].step \notin {"activate", "create"} => window[w].key = identity

\* A runtime that was installed is gone only while a window replaces it, unless a
\* window was killed doing so: neither a failed replacement nor a second window
\* leaves the servers without one.
RuntimeIsThere ==
    "placed" \in past /\ runtime = None =>
        "killed" \in past \/ \E w \in Window : At(w, "placing")

\* An install that reports success stays complete, as long as no other version
\* installs and the user edits nothing, whatever windows do or fail to do.
SuccessLasts ==
    edits = 0 /\ (\A v, w \in Window : version[v] = version[w]) =>
        \A w \in Window : At(w, "ready") => IsReady(w)

\* The user's own entries are what the user made of them, but for two cases: a
\* file was edited between the last check of a window and its rename, or our key
\* was given to another server between the inspection of the MCP configuration and
\* the read for its update; that entry alone is lost then.
EditsSurvive ==
    "late" \notin past =>
        \A f \in File :
            \/ config[f].user = wanted[f]
            \/ f = "mcp" /\ "unseen" \in past /\ config[f].user = wanted[f] \ {Clash}

\* Rules of a key that is not registered any more are about to be removed, unless
\* the install that was to do so has ended before, or the user has edited.
StaleRulesAreOwed ==
    edits = 0 /\ "orphaned" \notin past =>
        \A k \in config["policy"].keys \ config["mcp"].keys :
            \E w \in Window : k \in window[w].removed
=============================================================================
