-------------------------------- MODULE Desk --------------------------------
(***************************************************************************)
(* The desktop around the runtime: what it keeps on disk (settings/,       *)
(* app/startup_profile.rs, the credential, the Run key of app/autostart.rs,*)
(* workspace/registry.rs), how it starts (app/startup.rs, main.rs,         *)
(* app/single_instance.rs) and the commands of its window (commands/ui.rs, *)
(* commands/onboarding.rs), each of which is a sequence of reads and       *)
(* writes on a thread of its own.                                          *)
(*                                                                         *)
(* No lock joins a command's load of a file to its save, and none joins    *)
(* the files to the desired state.  The operations on the runtime are      *)
(* those of Lifecycle, which has their steps; here an operation is its     *)
(* announcement, its launch and its end.                                   *)
(***************************************************************************)
EXTENDS Convergence, Naturals, Sequences

CONSTANTS
    Callers,    \* threads of commands
    Scenarios   \* bounds: what is on disk to begin with, the calls of each caller,
                \* the launches, and how often each part of the environment moves

VARIABLES
    settings,   \* settings.json, or None
    backup,     \* settings.json.bak, or None
    profile,    \* startup-profile.json
    credential, \* the runtime API key in the Windows credential store, or None
    runKey,     \* whether the Run key starts the desktop at logon
    missing,    \* projects whose folder is gone, or is another folder now
    process,    \* "down", "booting" or "up"
    mode,       \* StartupMode of the process
    closes,     \* close_window_continue_running, as cached in memory
    window,     \* "closed", "loading" or "open"
    wake,       \* the wake event of the single instance
    staged,     \* foreground_start_pending
    desired,    \* DesiredStateOwner
    runtime,    \* the registered runtime, or None
    inactive,   \* observed_inactive: what is observed while none is registered
    operation,  \* who holds runtime_operation
    generation, \* runtime_control_generation
    thread,     \* the callers, and the threads "starter" and "exiter"
    stopWanted, \* history: the user's last word on the services was to stop them
    disturbed,  \* history: "overlap" of two commands, a failed "rollback" of the Run
                \* key, an "onboarding" that saved a tunnel and then failed, a failed
                \* "replace" that left no file, an "epoch" that a save took back, a
                \* "window" that could not be shown
    budget      \* what the environment may still do

diskVars == <<settings, backup, profile, credential, runKey, missing>>
shellVars == <<process, mode, closes, window, wake, staged>>
runtimeVars == <<desired, runtime, inactive, operation, generation>>
historyVars == <<stopWanted, disturbed>>
vars == <<diskVars, shellVars, runtimeVars, thread, historyVars, budget>>

Threads == Callers \cup {"starter", "exiter"}

-----------------------------------------------------------------------------
(* settings.json.  A project is its identity: upsert_entry keeps one entry *)
(* per identity, and a folder that has another identity now is missing.    *)

CurrentVersion == 4

DefaultSettings ==
    [version |-> 4, auto |-> FALSE, close |-> TRUE, onboarded |-> FALSE,
     projects |-> {}, active |-> None, pending |-> FALSE]

FromV1(f) == [f EXCEPT !.version = 2]

\* A legacy project becomes the active project only if both its id and its identity
\* were recorded; otherwise it waits for the user's confirmation.
FaultyFromV2(f) ==
    LET old == f.workspace
    IN [version  |-> 3, auto |-> f.auto, onboarded |-> f.onboarded,
        projects |-> IF old # None THEN {old.project} ELSE {},
        active   |-> IF old # None THEN old.project ELSE None,
        pending  |-> FALSE]

FromV2(f) ==
    LET old == f.workspace
        complete == old # None /\ old.hasId /\ old.hasIdentity
    IN [version  |-> 3, auto |-> f.auto, onboarded |-> f.onboarded,
        projects |-> IF complete THEN {old.project} ELSE {},
        active   |-> IF complete THEN old.project ELSE None,
        pending  |-> old # None /\ ~complete]

FromV3(f) ==
    [version |-> 4, auto |-> f.auto, close |-> TRUE, onboarded |-> f.onboarded,
     projects |-> f.projects, active |-> f.active, pending |-> f.pending]

\* A legacy project without a path is refused.  The id and the identity are either
\* blank, and then count as absent, or valid.
Convertible(f) == f.version < 3 => f.workspace = None \/ f.workspace.hasPath

\* migrate_bytes; a file that cannot be parsed has version 0.
Migrated(f) ==
    LET two == IF f.version = 1 THEN FromV1(f) ELSE f
        three == IF two.version = 2 THEN FromV2(two) ELSE two
    IN IF three.version = 3 THEN FromV3(three) ELSE three

\* AppData::validate.
Valid(data) ==
    /\ data.version = CurrentVersion
    /\ data.active # None => data.active \in data.projects

Readable(f) == f.version \in 1..CurrentVersion /\ Convertible(f) /\ Valid(Migrated(f))

\* SettingsStore::load, None for an error.  Reading an older file also saves it.
Load(f) == IF f = None THEN DefaultSettings ELSE IF Readable(f) THEN Migrated(f) ELSE None

\* What each command makes of the settings it loaded.
Edited(cmd, data) ==
    CASE cmd.name = "set_auto"  -> [data EXCEPT !.auto = cmd.arg = "on"]
      [] cmd.name = "set_close" -> [data EXCEPT !.close = cmd.arg = "on"]
      [] cmd.name = "complete"  -> [data EXCEPT !.onboarded = TRUE]
      [] cmd.name = "defer"     -> [data EXCEPT !.projects = @ \cup {cmd.arg}]
      [] cmd.name \in {"add", "select"} ->
            [data EXCEPT !.projects = @ \cup {cmd.arg}, !.active = cmd.arg]
      [] cmd.name = "remove" ->
            [data EXCEPT !.projects = @ \ {cmd.arg}, !.active = IF @ = cmd.arg THEN None ELSE @]

-----------------------------------------------------------------------------
(* What is observed of the runtime, and the work gate.                     *)

Stopped == [state |-> "stopped", workspace |-> None, connection |-> None]
Snapshot == IF runtime = None THEN inactive ELSE runtime
Observed ==
    [broker |-> "disabled", runtime |-> Snapshot.state,
     workspace |-> Snapshot.workspace, connection |-> Snapshot.connection]
Authorized == WorkIsAuthorized(Effective(desired, Observed))

Idle == [cmd |-> None, at |-> "idle", data |-> None, config |-> None, gen |-> 0, extra |-> None]
At(c, place) == process = "up" /\ thread[c].at = place
Cmd(c) == thread[c].cmd
Goto(c, place) == thread' = [thread EXCEPT ![c].at = place]
Return(c) == thread' = [thread EXCEPT ![c] = Idle]
Quiet == process = "up" /\ \A c \in Threads : thread[c] = Idle

Spend(field) == budget[field] > 0 /\ budget' = [budget EXCEPT ![field] = @ - 1]

\* A command is issued from the open window.
Entry(name) ==
    CASE name \in {"set_auto", "set_close", "defer", "add", "select", "remove"} -> "load"
      [] name = "complete" -> "ready"
      [] name = "restart" -> "latch"
      [] name \in {"stop", "save_tunnel", "onboard"} -> "profile"
      [] name = "save_key" -> "compare"
      [] name = "delete_key" -> "credential"
      [] name = "retry" -> "retry"

Issue(c) ==
    /\ process = "up" /\ window = "open"
    /\ thread[c] = Idle
    /\ budget.calls[c] # <<>>
    /\ LET cmd == Head(budget.calls[c])
       IN thread' = [thread EXCEPT ![c] = [Idle EXCEPT !.cmd = cmd, !.at = Entry(cmd.name)]]
    /\ budget' = [budget EXCEPT !.calls[c] = Tail(@)]
    /\ disturbed' = disturbed \cup IF \E d \in Threads : thread[d] # Idle THEN {"overlap"} ELSE {}
    /\ UNCHANGED <<diskVars, shellVars, runtimeVars, stopWanted>>

-----------------------------------------------------------------------------
(* Commands on settings.json.                                              *)

\* Where a command stops once it has loaded the settings.
Refuses(cmd, data) ==
    \/ cmd.name = "set_auto" /\ data.auto = (cmd.arg = "on")
    \/ cmd.name \in {"add", "defer"} /\ cmd.arg \in missing
    \/ cmd.name = "select" /\ (cmd.arg \notin data.projects \/ cmd.arg \in missing)
    \/ cmd.name = "remove" /\ cmd.arg \notin data.projects

AfterLoad(name) ==
    CASE name = "set_auto" -> "register"
      [] name \in {"add", "select"} -> "latch"
      [] OTHER -> "store"

LoadSettings(c) ==
    /\ At(c, "load")
    /\ \/ /\ LET data == Load(settings)
             IN IF Refuses(Cmd(c), data) THEN Return(c)
                ELSE thread' = [thread EXCEPT ![c].data = data, ![c].at = AfterLoad(Cmd(c).name)]
          /\ UNCHANGED budget
       \/ Spend("faults") /\ Return(c)
    /\ UNCHANGED <<diskVars, shellVars, runtimeVars, historyVars>>

\* complete_onboarding looks at the readiness before it loads the settings.
CheckReadiness(c) ==
    /\ At(c, "ready")
    /\ IF Snapshot.state = "ready" THEN Goto(c, "load") ELSE Return(c)
    /\ UNCHANGED <<diskVars, shellVars, runtimeVars, historyVars, budget>>

\* set_auto_start writes the Run key first.
Register(c) ==
    /\ At(c, "register")
    /\ \/ /\ runKey' = (Cmd(c).arg = "on")
          /\ Goto(c, "store")
          /\ UNCHANGED budget
       \/ /\ Spend("faults")
          /\ Return(c)
          /\ UNCHANGED runKey
    /\ UNCHANGED <<settings, backup, profile, credential, missing, shellVars, runtimeVars, historyVars>>

AfterStore(cmd, data) ==
    CASE cmd.name = "set_close" -> "flag"
      [] cmd.name \in {"add", "select"} -> "intend"
      [] cmd.name = "remove" /\ data.active = cmd.arg -> "withdraw"
      [] OTHER -> "idle"

FaultyAfterFailedStore(name) == "idle"
AfterFailedStore(name) == IF name = "set_auto" THEN "rollback" ELSE "idle"

Leave(c, place) == IF place = "idle" THEN Return(c) ELSE Goto(c, place)

\* atomic_replace: the file that was there becomes the backup.
Replaced(data) ==
    /\ settings' = data
    /\ backup' = IF settings = None THEN backup ELSE settings
    /\ UNCHANGED disturbed

\* A save that fails leaves the file as it was, with or without its stale backup; or
\* ReplaceFileW moved the file to the backup and could not move the new one, which is
\* then removed.
NotReplaced ==
    \/ UNCHANGED <<settings, backup, disturbed>>
    \/ settings # None /\ backup # None /\ backup' = None /\ UNCHANGED <<settings, disturbed>>
    \/ /\ settings # None
       /\ settings' = None /\ backup' = settings
       /\ disturbed' = disturbed \cup {"replace"}

\* SettingsStore::save replaces the file by what the command made of the one it loaded.
Store(c) ==
    /\ At(c, "store")
    /\ \/ /\ Valid(Edited(Cmd(c), thread[c].data))
          /\ Replaced(Edited(Cmd(c), thread[c].data))
          /\ Leave(c, AfterStore(Cmd(c), thread[c].data))
          /\ UNCHANGED budget
       \/ /\ Spend("faults")
          /\ NotReplaced
          /\ Leave(c, AfterFailedStore(Cmd(c).name))
    /\ UNCHANGED <<profile, credential, runKey, missing, shellVars, runtimeVars, stopWanted>>

Rollback(c) ==
    /\ At(c, "rollback")
    /\ \/ /\ runKey' = thread[c].data.auto
          /\ UNCHANGED <<disturbed, budget>>
       \/ /\ Spend("faults")
          /\ disturbed' = disturbed \cup {"rollback"}
          /\ UNCHANGED runKey
    /\ Return(c)
    /\ UNCHANGED <<settings, backup, profile, credential, missing, shellVars, runtimeVars, stopWanted>>

CacheFlag(c) ==
    /\ At(c, "flag")
    /\ closes' = (Cmd(c).arg = "on")
    /\ Return(c)
    /\ UNCHANGED <<diskVars, process, mode, window, wake, staged, runtimeVars, historyVars, budget>>

-----------------------------------------------------------------------------
(* Commands on startup-profile.json and on the credential.                 *)

\* StartupProfileStore::save without success: ReplaceFileW is given no backup, and may
\* have removed the old profile by then.
NoProfile == [tunnel |-> None, latched |-> FALSE]

ProfileNotReplaced ==
    \/ UNCHANGED <<profile, disturbed>>
    \/ profile' = NoProfile /\ disturbed' = disturbed \cup {"replace"}

\* clear_manual_stop_for_explicit_action: the first of two steps if it has to save.
AfterLatch(name) == IF name = "restart" THEN "enable" ELSE "store"

CheckLatch(c) ==
    /\ At(c, "latch")
    /\ IF profile.latched
       THEN thread' = [thread EXCEPT ![c].extra = profile, ![c].at = "unlatch"]
       ELSE Goto(c, AfterLatch(Cmd(c).name))
    /\ UNCHANGED <<diskVars, shellVars, runtimeVars, historyVars, budget>>

ClearLatch(c) ==
    /\ At(c, "unlatch")
    /\ \/ /\ profile' = [thread[c].extra EXCEPT !.latched = FALSE]
          /\ stopWanted' = FALSE
          /\ Goto(c, AfterLatch(Cmd(c).name))
          /\ UNCHANGED <<disturbed, budget>>
       \/ /\ Spend("faults")
          /\ ProfileNotReplaced
          /\ Return(c)
          /\ UNCHANGED stopWanted
    /\ UNCHANGED <<settings, backup, credential, runKey, missing, shellVars, runtimeVars>>

\* save_tunnel_id, save_onboarding_connection and manual_stop_services load the profile;
\* the first does nothing when the tunnel is the one it has.
LoadProfile(c) ==
    /\ At(c, "profile")
    /\ \/ /\ IF Cmd(c).name = "save_tunnel" /\ profile.tunnel = Cmd(c).arg THEN Return(c)
             ELSE thread' = [thread EXCEPT ![c].extra = profile, ![c].at = "persist"]
          /\ UNCHANGED budget
       \/ Spend("faults") /\ Return(c)
    /\ UNCHANGED <<diskVars, shellVars, runtimeVars, historyVars>>

EditedProfile(cmd, loaded) ==
    IF cmd.name = "stop" THEN [loaded EXCEPT !.latched = TRUE] ELSE [loaded EXCEPT !.tunnel = cmd.arg]

AfterPersist(cmd) ==
    CASE cmd.name = "stop" -> "halt"
      [] cmd.name = "save_tunnel" -> "epoch"
      [] cmd.name = "onboard" -> IF cmd.key = None THEN "has_key" ELSE "credential"

SaveProfile(c) ==
    /\ At(c, "persist")
    /\ \/ /\ profile' = EditedProfile(Cmd(c), thread[c].extra)
          /\ stopWanted' = (stopWanted \/ Cmd(c).name = "stop")
          /\ Goto(c, AfterPersist(Cmd(c)))
          /\ UNCHANGED <<disturbed, budget>>
       \/ /\ Spend("faults")
          /\ ProfileNotReplaced
          /\ Return(c)
          /\ UNCHANGED stopWanted
    /\ UNCHANGED <<settings, backup, credential, runKey, missing, shellVars, runtimeVars>>

\* save_onboarding_connection without a key needs one in the store; the tunnel is saved by then.
RequireKey(c) ==
    /\ At(c, "has_key")
    /\ \/ credential # None /\ Goto(c, "epoch") /\ UNCHANGED <<disturbed, budget>>
       \/ /\ IF credential = None THEN UNCHANGED budget ELSE Spend("faults")
          /\ Return(c) /\ disturbed' = disturbed \cup {"onboarding"}
    /\ UNCHANGED <<diskVars, shellVars, runtimeVars, stopWanted>>

CompareKey(c) ==
    /\ At(c, "compare")
    /\ \/ /\ IF credential = Cmd(c).key THEN Return(c) ELSE Goto(c, "credential")
          /\ UNCHANGED budget
       \/ Spend("faults") /\ Return(c)
    /\ UNCHANGED <<diskVars, shellVars, runtimeVars, historyVars>>

\* The store takes the key before the desired connection says that it changed.
AfterCredential(name) == IF name = "onboard" THEN "epoch" ELSE "mark"

WriteCredential(c) ==
    /\ At(c, "credential")
    /\ \/ /\ Cmd(c).name = "delete_key" /\ credential = None
          /\ Return(c)
          /\ UNCHANGED <<credential, disturbed, budget>>
       \/ /\ Cmd(c).name = "delete_key" => credential # None
          /\ credential' = Cmd(c).key
          /\ Goto(c, AfterCredential(Cmd(c).name))
          /\ UNCHANGED <<disturbed, budget>>
       \/ /\ Spend("faults")
          /\ Return(c)
          /\ disturbed' = disturbed \cup IF Cmd(c).name = "onboard" THEN {"onboarding"} ELSE {}
          /\ UNCHANGED credential
    /\ UNCHANGED <<settings, backup, profile, runKey, missing, shellVars, runtimeVars, stopWanted>>

\* mark_credentials_changed.
FaultyMarked(connection) == connection
Marked(connection) ==
    IF connection = None THEN None ELSE [connection EXCEPT !.epoch = @ + 1]

MarkChanged(c) ==
    /\ At(c, "mark")
    /\ desired' = [desired EXCEPT !.connection = Marked(@)]
    /\ Goto(c, "refresh")
    /\ UNCHANGED <<diskVars, shellVars, runtime, inactive, operation, generation, historyVars, budget>>

\* refresh_settings_snapshot reads the settings again; if it cannot, nothing reconnects.
Refresh(c) ==
    /\ At(c, "refresh")
    /\ \/ Goto(c, "plan") /\ UNCHANGED budget
       \/ Return(c) /\ Spend("faults")
    /\ UNCHANGED <<diskVars, shellVars, runtimeVars, historyVars>>

\* The epoch is read from the desired connection, and written back with the tunnel: a
\* mark set in between is taken back.
ReadEpoch(c) ==
    /\ At(c, "epoch")
    /\ LET epoch == IF desired.connection = None THEN 0 ELSE desired.connection.epoch
           changed == Cmd(c).name = "onboard" /\ Cmd(c).key # None
       IN thread' = [thread EXCEPT
              ![c].extra = [tunnel |-> Cmd(c).arg, epoch |-> IF changed THEN epoch + 1 ELSE epoch],
              ![c].at = "connect"]
    /\ UNCHANGED <<diskVars, shellVars, runtimeVars, historyVars, budget>>

TakesBack(connection, current) ==
    /\ current # None
    /\ connection.tunnel = current.tunnel
    /\ connection.epoch < current.epoch

Connect(c) ==
    /\ At(c, "connect")
    /\ desired' = [desired EXCEPT !.connection = thread[c].extra]
    /\ disturbed' = disturbed \cup IF TakesBack(thread[c].extra, desired.connection) THEN {"epoch"} ELSE {}
    /\ Leave(c, IF Cmd(c).name = "onboard" THEN "idle" ELSE "plan")
    /\ UNCHANGED <<diskVars, shellVars, runtime, inactive, operation, generation, stopWanted, budget>>

-----------------------------------------------------------------------------
(* From the desired state to the runtime.                                  *)

\* activate_project, once the settings are saved.
Intended(c) == Cmd(c).arg

Intend(c) ==
    /\ At(c, "intend")
    /\ desired' = [desired EXCEPT !.workspace = Intended(c)]
    /\ Goto(c, "enable")
    /\ UNCHANGED <<diskVars, shellVars, runtime, inactive, operation, generation, historyVars, budget>>

Enable(c) ==
    /\ At(c, "enable")
    /\ desired' = [desired EXCEPT !.services = "enabled"]
    /\ Goto(c, IF Cmd(c).name = "restart" THEN "configure" ELSE "plan")
    /\ UNCHANGED <<diskVars, shellVars, runtime, inactive, operation, generation, historyVars, budget>>

\* remove_project of the active project.
Withdraw(c) ==
    /\ At(c, "withdraw")
    /\ desired' = [desired EXCEPT !.workspace = None]
    /\ Goto(c, "halt")
    /\ UNCHANGED <<diskVars, shellVars, runtime, inactive, operation, generation, historyVars, budget>>

\* reconcile_runtime_from_desired_state plans once, and takes one action.  A runtime
\* that is on its way is not waited for: the command answers that it is converging.
Places(plan) ==
    CASE plan \in {"start", "restart"} -> "configure"
      [] plan = "stop" -> "halt"
      [] plan = "apply" -> "switch"
      [] OTHER -> "idle"

Reconcile(c) ==
    /\ At(c, "plan")
    /\ LET plan == PlanRuntime(desired, Observed)
       IN IF Places(plan) = "idle" THEN Return(c)
          ELSE thread' = [thread EXCEPT ![c].at = Places(plan),
                              ![c].extra = IF plan = "apply" THEN desired.workspace ELSE plan]
    /\ UNCHANGED <<diskVars, shellVars, runtimeVars, historyVars, budget>>

\* production_runtime_config_for_path, for the project of the command or for the active one.
Configure(c) ==
    /\ At(c, "configure")
    /\ LET project == IF Cmd(c).name \in {"add", "select"} THEN Cmd(c).arg ELSE Load(settings).active
       IN IF project = None \/ project \in missing \/ profile.tunnel = None THEN Return(c)
          ELSE thread' = [thread EXCEPT ![c].config = [workspace |-> project, tunnel |-> profile.tunnel],
                              ![c].at = "begin"]
    /\ UNCHANGED <<diskVars, shellVars, runtimeVars, historyVars, budget>>

\* The announcement of a start or of a restart.
Begin(c) ==
    /\ At(c, "begin")
    /\ desired' = [desired EXCEPT !.services = "enabled"]
    /\ staged' = None
    /\ generation' = generation + 1
    /\ inactive' = [state |-> "starting", workspace |-> thread[c].config.workspace,
                    connection |-> desired.connection]
    /\ thread' = [thread EXCEPT ![c].gen = generation + 1, ![c].at = "launch"]
    /\ UNCHANGED <<diskVars, process, mode, closes, window, wake, runtime, operation, historyVars, budget>>

Restarts(c) == Cmd(c) # None /\ (Cmd(c).name = "restart" \/ thread[c].extra = "restart")

\* start_production_runtime_locked takes the tunnel from the configuration, and the
\* connection it will report from the desired state of that moment.
FaultyLaunch(c) ==
    /\ At(c, "launch")
    /\ operation = None
    /\ operation' = c
    /\ IF thread[c].gen # generation \/ (runtime # None /\ ~Restarts(c))
       THEN Return(c) /\ UNCHANGED runtime
       ELSE /\ runtime' = None
            /\ thread' = [thread EXCEPT ![c].extra = desired.connection, ![c].at = "run"]
    /\ UNCHANGED <<diskVars, shellVars, desired, inactive, generation, historyVars, budget>>

Launch(c) ==
    /\ At(c, "launch")
    /\ operation = None
    /\ IF thread[c].gen # generation \/ (runtime # None /\ ~Restarts(c))
       THEN Return(c) /\ UNCHANGED <<runtime, operation>>
       ELSE /\ operation' = c
            /\ runtime' = None
            /\ thread' = [thread EXCEPT ![c].extra = desired.connection, ![c].at = "run"]
    /\ UNCHANGED <<diskVars, shellVars, desired, inactive, generation, historyVars, budget>>

\* The tunnel reads the credential when it starts; a start that was superseded is undone.
Run(c) ==
    /\ At(c, "run")
    /\ operation' = None
    /\ LET config == thread[c].config
           current == thread[c].gen = generation
       IN \/ /\ credential # None
             /\ runtime' = IF current
                           THEN [state |-> "ready", workspace |-> config.workspace,
                                 connection |-> thread[c].extra, tunnel |-> config.tunnel, key |-> credential]
                           ELSE runtime
             /\ UNCHANGED <<inactive, budget>>
          \/ /\ IF credential = None THEN UNCHANGED budget ELSE Spend("faults")
             /\ inactive' = IF current
                            THEN [state |-> "faulted", workspace |-> config.workspace,
                                  connection |-> desired.connection]
                            ELSE inactive
             /\ UNCHANGED runtime
    /\ Return(c)
    /\ UNCHANGED <<diskVars, shellVars, desired, generation, historyVars>>

\* switch_workspace stops and starts the registered runtime, under both locks.
Switch(c) ==
    /\ At(c, "switch")
    /\ operation = None
    /\ \/ /\ runtime # None /\ credential # None
          /\ runtime' = [runtime EXCEPT !.state = "ready", !.workspace = thread[c].extra, !.key = credential]
          /\ UNCHANGED budget
       \/ /\ runtime # None
          /\ IF credential = None THEN UNCHANGED budget ELSE Spend("faults")
          /\ \E w \in {runtime.workspace, thread[c].extra} :
                 runtime' = [runtime EXCEPT !.state = "faulted", !.workspace = w]
       \/ runtime = None /\ UNCHANGED <<runtime, budget>>
    /\ Return(c)
    /\ UNCHANGED <<diskVars, shellVars, desired, inactive, operation, generation, historyVars>>

\* manual_retry_after_attention restarts the tunnel of a runtime that faulted.
Retry(c) ==
    /\ At(c, "retry")
    /\ operation = None
    /\ \/ /\ runtime # None /\ runtime.state \in {"faulted", "recovering"} /\ credential # None
          /\ runtime' = [runtime EXCEPT !.state = "ready", !.key = credential]
       \/ /\ runtime # None /\ runtime.state \in {"faulted", "recovering"}
          /\ runtime' = [runtime EXCEPT !.state = "faulted"]
       \/ UNCHANGED runtime
    /\ Return(c)
    /\ UNCHANGED <<diskVars, shellVars, desired, inactive, operation, generation, historyVars, budget>>

\* stop_services_for_manual_action, stop_runtime_for_control_plane and shutdown.
Halt(c) ==
    /\ At(c, "halt")
    /\ desired' = [desired EXCEPT !.services = "disabled"]
    /\ staged' = None
    /\ generation' = generation + 1
    /\ Goto(c, "stopping")
    /\ UNCHANGED <<diskVars, process, mode, closes, window, wake, runtime, inactive, operation, historyVars, budget>>

TakeDown(c) ==
    /\ At(c, "stopping") /\ c # "exiter"
    /\ operation = None
    /\ runtime' = None
    /\ inactive' = Stopped
    /\ Return(c)
    /\ UNCHANGED <<diskVars, shellVars, desired, operation, generation, historyVars, budget>>

\* The runtime loses its tunnel, and the watchdog recovers it or gives up.
Outage ==
    /\ process = "up" /\ operation = None
    /\ runtime # None /\ runtime.state = "ready"
    /\ Spend("faults")
    /\ runtime' = [runtime EXCEPT !.state = "recovering"]
    /\ UNCHANGED <<diskVars, shellVars, desired, inactive, operation, generation, thread, historyVars>>

Recover ==
    /\ process = "up" /\ operation = None
    /\ runtime # None /\ runtime.state = "recovering"
    /\ \/ /\ credential # None
          /\ runtime' = [runtime EXCEPT !.state = "ready", !.key = credential]
       \/ runtime' = [runtime EXCEPT !.state = "faulted"]
    /\ UNCHANGED <<diskVars, shellVars, desired, inactive, operation, generation, thread, historyVars, budget>>

-----------------------------------------------------------------------------
(* The process: startup, the single instance, the window and the exit.     *)

\* A process that ends takes its threads, its window and its runtime with it.
Down(next) ==
    /\ process' = next
    /\ window' = "closed"
    /\ wake' = FALSE
    /\ staged' = None
    /\ thread' = [c \in Threads |-> Idle]
    /\ runtime' = None
    /\ inactive' = Stopped
    /\ operation' = None
    /\ generation' = 0
    /\ desired' = [permission |-> "full", services |-> "disabled", workspace |-> None, connection |-> None]

\* SingleInstanceGuard::acquire: the first process goes on, another one wakes it and leaves.
Start ==
    /\ budget.launches # <<>>
    /\ budget' = [budget EXCEPT !.launches = Tail(@)]
    /\ IF process = "down"
       THEN process' = "booting" /\ mode' = Head(budget.launches) /\ UNCHANGED wake
       ELSE wake' = TRUE /\ UNCHANGED <<process, mode>>
    /\ UNCHANGED <<diskVars, closes, window, staged, runtimeVars, thread, historyVars>>

\* configure_desktop_startup reads the settings, and saves what it migrated; a file it
\* cannot read or save ends the process.
Older(f) == f # None /\ Readable(f) /\ f.version < CurrentVersion

BootSettings ==
    /\ process = "booting" /\ thread["starter"].data = None
    /\ LET data == Load(settings)
       IN \/ /\ data # None
             /\ IF Older(settings) THEN Replaced(data) ELSE UNCHANGED <<settings, backup, disturbed>>
             /\ closes' = data.close
             /\ thread' = [thread EXCEPT !["starter"].data = data]
             /\ UNCHANGED <<process, mode, window, wake, staged, runtimeVars, budget>>
          \/ /\ IF data = None THEN UNCHANGED budget ELSE Spend("faults")
             /\ IF Older(settings) THEN NotReplaced ELSE UNCHANGED <<settings, backup, disturbed>>
             /\ Down("down")
             /\ UNCHANGED <<mode, closes>>
    /\ UNCHANGED <<profile, credential, runKey, missing, stopWanted>>

\* build_background_resume_config.
Resumes(data) ==
    /\ data.onboarded
    /\ mode = "background" => data.auto /\ ~profile.latched
    /\ profile.tunnel # None
    /\ data.active # None

\* The desired state of a process that starts.  The Run key follows the settings.
Seed(data, services) ==
    [permission |-> "full", services |-> services, workspace |-> data.active,
     connection |-> IF profile.tunnel = None THEN None ELSE [tunnel |-> profile.tunnel, epoch |-> 0]]

Starting(config, seed) == [state |-> "starting", workspace |-> config.workspace, connection |-> seed.connection]

BootRunKey(data) == data.auto

BootRegister ==
    /\ process = "booting" /\ thread["starter"].data # None /\ thread["starter"].at = "idle"
    /\ thread["starter"].data.active \notin missing
    /\ runKey' = BootRunKey(thread["starter"].data)
    /\ Goto("starter", "registered")
    /\ UNCHANGED <<settings, backup, profile, credential, missing, shellVars, runtimeVars, historyVars, budget>>

\* An active project whose folder is gone ends the process; it is looked up again for the
\* services that resume, when the Run key is written.  Any other step may fail too.
BootFails ==
    /\ process = "booting" /\ thread["starter"].data # None
    /\ LET data == thread["starter"].data
       IN \/ /\ data.active \in missing
             /\ thread["starter"].at = "registered" => Resumes(data)
             /\ UNCHANGED budget
          \/ Spend("faults")
    /\ Down("down")
    /\ UNCHANGED <<diskVars, mode, closes, historyVars>>

\* In the foreground a start is staged until the window is ready; in the background it
\* is spawned.
BootFinish ==
    /\ process = "booting" /\ thread["starter"].at = "registered"
    /\ LET data == thread["starter"].data
           config == [workspace |-> data.active, tunnel |-> profile.tunnel]
           stages == Resumes(data) /\ mode = "foreground"
           spawns == Resumes(data) /\ mode = "background"
           seed == Seed(data, IF Resumes(data) THEN "enabled" ELSE "disabled")
       IN /\ Resumes(data) => data.active \notin missing
          /\ process' = "up"
          /\ window' = IF mode = "foreground" THEN "loading" ELSE "closed"
          /\ desired' = seed
          /\ staged' = IF stages THEN config ELSE None
          /\ generation' = IF spawns THEN 1 ELSE 0
          /\ inactive' = IF spawns THEN Starting(config, seed) ELSE Stopped
          /\ thread' = [thread EXCEPT !["starter"] =
                 IF spawns THEN [Idle EXCEPT !.at = "launch", !.config = config, !.gen = 1] ELSE Idle]
          /\ stopWanted' = (stopWanted /\ ~stages)
    /\ UNCHANGED <<diskVars, mode, closes, wake, runtime, operation, disturbed, budget>>

\* ui_ready starts what was staged, unless a runtime is registered.
UiReady ==
    /\ process = "up" /\ window = "loading"
    /\ window' = "open"
    /\ staged' = None
    /\ IF staged # None /\ runtime = None
       THEN /\ desired' = [desired EXCEPT !.services = "enabled"]
            /\ generation' = generation + 1
            /\ inactive' = Starting(staged, desired)
            /\ thread' = [thread EXCEPT !["starter"] =
                   [Idle EXCEPT !.at = "launch", !.config = staged, !.gen = generation + 1]]
       ELSE UNCHANGED <<desired, generation, inactive, thread>>
    /\ UNCHANGED <<diskVars, process, mode, closes, wake, runtime, operation, historyVars, budget>>

\* The wake listener, and the tray's "open": ensure_main_window.  The listener ignores
\* its error: the window was not built, or is not shown.
Opened(w) == IF w = "closed" THEN "loading" ELSE w

Woken ==
    /\ process = "up" /\ wake
    /\ wake' = FALSE
    /\ \/ window' = Opened(window) /\ UNCHANGED <<disturbed, budget>>
       \/ /\ Spend("faults")
          /\ window' \in {window, Opened(window)}
          /\ disturbed' = disturbed \cup {"window"}
    /\ UNCHANGED <<diskVars, process, mode, closes, staged, runtimeVars, thread, stopWanted>>

\* CloseRequested: the window goes, or the services stop and then the process exits.
CloseWindow ==
    /\ process = "up" /\ window # "closed"
    /\ Spend("closes")
    /\ IF closes
       THEN window' = "closed" /\ UNCHANGED thread
       ELSE /\ thread["exiter"] = Idle
            /\ thread' = [thread EXCEPT !["exiter"].at = "halt"]
            /\ UNCHANGED window
    /\ UNCHANGED <<diskVars, process, mode, closes, wake, staged, runtimeVars, historyVars>>

\* Exit, from the tray.
TrayExit ==
    /\ process = "up" /\ thread["exiter"] = Idle
    /\ Spend("exits")
    /\ thread' = [thread EXCEPT !["exiter"].at = "halt"]
    /\ UNCHANGED <<diskVars, shellVars, runtimeVars, historyVars>>

ShutDown ==
    /\ At("exiter", "stopping")
    /\ operation = None
    /\ runtime' = None
    /\ inactive' = Stopped
    /\ Goto("exiter", "exit")
    /\ UNCHANGED <<diskVars, shellVars, desired, operation, generation, historyVars, budget>>

Exit ==
    /\ At("exiter", "exit")
    /\ Down("down")
    /\ UNCHANGED <<diskVars, mode, closes, historyVars, budget>>

Crash ==
    /\ process # "down"
    /\ Spend("crashes")
    /\ Down("down")
    /\ UNCHANGED <<diskVars, mode, closes, historyVars>>

\* Somebody moves the folder of a project.
FolderMoves ==
    /\ Spend("folders")
    /\ \E p \in budget.movable : missing' = missing \cup {p}
    /\ UNCHANGED <<settings, backup, profile, credential, runKey, shellVars, runtimeVars, thread, historyVars>>

-----------------------------------------------------------------------------
(* The specification.                                                      *)

Init ==
    \E s \in Scenarios :
        /\ settings = s.settings /\ backup = None
        /\ profile = s.profile
        /\ credential = s.credential
        /\ runKey = s.runKey
        /\ missing = {}
        /\ process = "down" /\ mode = "foreground" /\ closes = TRUE
        /\ window = "closed" /\ wake = FALSE /\ staged = None
        /\ desired = [permission |-> "full", services |-> "disabled", workspace |-> None, connection |-> None]
        /\ runtime = None /\ inactive = Stopped
        /\ operation = None /\ generation = 0
        /\ thread = [c \in Threads |-> Idle]
        /\ stopWanted = s.profile.latched /\ disturbed = {}
        /\ budget = s.budget

\* A thread of a command goes on.
Command(c) ==
    \/ LoadSettings(c) \/ CheckReadiness(c) \/ Register(c) \/ Store(c) \/ Rollback(c) \/ CacheFlag(c)
    \/ CheckLatch(c) \/ ClearLatch(c) \/ LoadProfile(c) \/ SaveProfile(c)
    \/ RequireKey(c) \/ CompareKey(c) \/ WriteCredential(c) \/ MarkChanged(c) \/ Refresh(c)
    \/ ReadEpoch(c) \/ Connect(c)
    \/ Intend(c) \/ Enable(c) \/ Withdraw(c) \/ Reconcile(c) \/ Configure(c) \/ Begin(c)
    \/ Switch(c) \/ Retry(c) \/ TakeDown(c)

Working(c) == Halt(c) \/ Launch(c) \/ Run(c) \/ (c \in Callers /\ Command(c))

Booting == BootSettings \/ BootRegister \/ BootFails \/ BootFinish
Exiting == ShutDown \/ Exit
Showing == UiReady \/ Woken

Next ==
    \/ \E c \in Threads : Working(c)
    \/ \E c \in Callers : Issue(c)
    \/ Booting \/ Showing \/ Exiting
    \/ Start \/ CloseWindow \/ TrayExit \/ Crash \/ FolderMoves \/ Outage \/ Recover

Spec == Init /\ [][Next]_vars

FairSpec ==
    /\ Spec
    /\ \A c \in Threads : WF_vars(Working(c))
    /\ WF_vars(Booting) /\ WF_vars(Showing) /\ WF_vars(Exiting) /\ WF_vars(Recover)

-----------------------------------------------------------------------------
(* Properties.                                                             *)

\* A settings file that the desktop cannot read (another version, or invalid) is never
\* replaced: neither the startup, which fails, nor any command writes over it.
UnreadableIsKept == [][settings # None /\ ~Readable(settings) => settings' = settings]_vars

\* Rewriting an older file keeps the user's choices, and makes its project the active
\* one exactly when both the id and the identity of the project were recorded.
MigrationKeepsChoices ==
    [][ settings # None /\ settings' \notin {settings, None} /\ settings.version < CurrentVersion =>
        /\ settings'.auto = settings.auto /\ settings'.onboarded = settings.onboarded
        /\ settings.version < 3 =>
              LET old == settings.workspace
                  complete == old # None /\ old.hasId /\ old.hasIdentity
              IN /\ settings'.active = IF complete THEN old.project ELSE None
                 /\ settings'.pending = (old # None /\ ~complete)
        /\ settings.version = 3 => settings'.active = settings.active ]_vars

\* A save that fails half way may leave no settings file, and the next start begins with
\* the defaults; what the file held is in the backup, and stays there until a save after
\* the one that makes a new file.
RemovedIsInBackup ==
    /\ [][settings # None /\ settings' = None => backup' = settings]_vars
    /\ [][settings = None => backup' = backup]_vars

\* Nothing the user chose is lost to a version of the settings file, older or unknown, or
\* to a save that fails (migration.rs, store.rs).
SettingsSurvive == UnreadableIsKept /\ MigrationKeepsChoices /\ RemovedIsInBackup

\* After the user stopped the services (and did not start them since) nothing runs, in
\* this process or in one started at logon, whatever crashed in between.  Once commands
\* overlapped, or a failed replacement removed the profile, nothing is claimed.
StopIsRemembered ==
    Quiet /\ stopWanted /\ disturbed \cap {"overlap", "replace"} = {} =>
        runtime = None /\ staged = None /\ desired.services = "disabled"

\* While no command is in progress the Run key says what the settings say: a failed save
\* is rolled back, and a crash between the two writes is repaired by the next startup.
\* Nothing is claimed once commands overlapped, the rollback itself failed (its error is
\* ignored), or a failed replacement removed the settings.
RunKeyAgrees ==
    Quiet /\ disturbed \cap {"overlap", "rollback", "replace"} = {} => runKey = Load(settings).auto

\* The next logon does what the user chose: services stopped by hand stay stopped, and
\* the Run key follows the setting (startup.rs:200, ui.rs:616).
ChoicesHoldAtLogon == StopIsRemembered /\ RunKeyAgrees

\* What is served with the gate open is what the user saved: the active project, the
\* tunnel of the profile, and the key in the credential store.
ServedIsSaved ==
    Quiet /\ disturbed = {} /\ Authorized =>
        /\ runtime.workspace = Load(settings).active
        /\ runtime.tunnel = profile.tunnel
        /\ runtime.key = credential

\* Even among overlapping commands, a runtime that uses an old key is not given work: the
\* epoch of the desired connection tells, once the command that changed the key has said so.
\* The one exception: a save of the same tunnel without a key that read the epoch before
\* another command raised it, and wrote it back after (onboarding.rs:100, ui.rs:665); the
\* gate is then open for the old key until something restarts the runtime.
OldKeyIsNoticed ==
    /\ process = "up" /\ "epoch" \notin disturbed
    /\ Authorized /\ desired.connection # None /\ runtime.key # credential
    =>  \E c \in Callers : thread[c].at \in {"mark", "epoch", "connect"}

\* With the gate open, work runs for the project, tunnel and key of now (ui.rs:664,
\* convergence.rs).
ServedIsCurrent == ServedIsSaved /\ OldKeyIsNoticed

\* Every command ends: none waits for ever for the lock of the runtime operation.
CommandsEnd == \A c \in Threads : thread[c] # Idle ~> thread[c] = Idle

\* A second launch brings up the window of the process that runs, unless that one ends or
\* cannot make the window (the listener ignores that error, main.rs:48).
LaunchShowsWindow == wake ~> (window # "closed" \/ process = "down" \/ "window" \in disturbed)

\* Whatever the user asks the desktop for, it answers: commands end and a second launch
\* shows the window (single_instance.rs:89).
DesktopResponds == CommandsEnd /\ LaunchShowsWindow

=============================================================================
