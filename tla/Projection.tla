----------------------------- MODULE Projection -----------------------------
(***************************************************************************)
(* What the desktop and the work gate see: the control-plane snapshot      *)
(* (control_plane/snapshot.rs), everyone who publishes to it (the commands *)
(* and the watchdog of app/background.rs, the wake of the task projection, *)
(* the refresh of the settings, the update check of control_plane/         *)
(* update.rs and app/update.rs), and who reads it (commands/ui.rs and the  *)
(* server's gate).                                                         *)
(*                                                                         *)
(* A publication of an observation is three steps that no lock joins: the  *)
(* runtime is captured, the desired state and the broker are read and the  *)
(* effective state derived, and the snapshot is replaced under its own     *)
(* lock.  Lifecycle has the driver calls inside a runtime operation; here  *)
(* an operation is its locks, its outcome and its publications.            *)
(***************************************************************************)
EXTENDS Convergence, Naturals, Sequences

CONSTANTS
    Callers,        \* threads of commands
    Checkers,       \* update-check threads, numbered as their operation ids are
    MaxAttempts,    \* UPDATE_CHECK_MAX_ATTEMPTS
    Scenarios       \* bounds: the calls of each caller, the runtime to begin with,
                    \* how often each part of the environment moves, and whether
                    \* the window is open

ASSUME ProjectionAssumption == MaxAttempts \in Nat \ {0} /\ Checkers \subseteq Nat

VARIABLES
    desired,    \* DesiredStateOwner
    broker,     \* PrivilegeController::state
    runtime,    \* ProductionRuntimeOwner: the registered runtime, or None
    inactive,   \* ProductionRuntimeOwner::observed_inactive
    tasks,      \* the task aggregate of a registered runtime
    operation,  \* who holds runtime_operation
    held,       \* who holds the runtime mutex across steps
    generation, \* runtime_control_generation
    thread,     \* the callers and the watchdog
    file,       \* the version of settings.json
    environment,\* whether the local environment was observed: None, TRUE or FALSE
    update,     \* UpdateStateOwner
    check,      \* the lease of each checker, and what it has yet to publish
    published,  \* ControlPlaneSnapshotOwner
    window,     \* the loop that waits for a revision and fetches the projection
    crossed,    \* sections whose last change was published across another of it, or
                \* was not published because the command failed before it did
    budget      \* what the environment may still do

ownerVars == <<desired, broker, runtime, inactive, tasks>>
lockVars == <<operation, held, generation>>
sideVars == <<file, environment, update, check>>
vars == <<ownerVars, lockVars, thread, sideVars, published, window, crossed, budget>>

-----------------------------------------------------------------------------
(* Sections and the snapshot.                                              *)

ReadySection(v) == [availability |-> "ready", stale |-> FALSE, value |-> v]
FaultedSection(v) == [availability |-> "fault", stale |-> v # None, value |-> v]
StaleSection(previous) ==
    [availability |-> "unavailable", stale |-> TRUE, value |-> previous.value]
IsFresh(section) == section.availability = "ready" /\ ~section.stale
ReadyValue(section) == IF IsFresh(section) THEN section.value ELSE None

\* The runtime, authority, workspace and connection sections are always published
\* together, so one section stands for the four.  The times in it are left out.
Observation(seen, environmentSeen) ==
    LET observed == [broker     |-> seen.broker,
                     runtime    |-> seen.runtime.state,
                     workspace  |-> seen.runtime.workspace,
                     connection |-> seen.runtime.connection]
        effective == Effective(seen.desired, observed)
    IN [state       |-> seen.runtime.state,
        environment |-> environmentSeen,
        authority   |-> effective.authority,
        broker      |-> seen.broker,
        workspace   |-> [desired   |-> seen.desired.workspace, observed |-> observed.workspace,
                         effective |-> effective.workspace = "available"],
        connection  |-> [desired   |-> seen.desired.connection, observed |-> observed.connection,
                         effective |-> effective.connection = "available"]]

FaultsOf(state, brokerState) ==
    (IF state = "faulted" THEN {"runtime"} ELSE {}) \cup
    (IF brokerState = "faulted" THEN {"authority"} ELSE {})

FaultySnapshot(draft) ==
    IF draft.observation = published.observation /\ draft.settings = published.settings
    THEN published
    ELSE [draft EXCEPT !.revision = @ + 1]

\* publish_locked: equal content keeps the revision, new content takes the next.
\* Revisions are counted while the window, their only reader, is open.
Snapshot(draft) ==
    IF draft = published \/ window.at = "closed"
    THEN draft
    ELSE [draft EXCEPT !.revision = @ + 1]

FaultyNotified == window.at
Notified == IF window.at = "wait" THEN "fetch" ELSE window.at

\* ControlPlaneSnapshotOwner::update: replace, and wake whoever waits if it changed.
Publish(draft) ==
    /\ published' = Snapshot(draft)
    /\ window' = IF published' # published THEN [window EXCEPT !.at = Notified] ELSE window

\* publish_control_plane_observation, inside owner.update.
Observed(seen) ==
    [published EXCEPT
        !.observation = ReadySection(Observation(seen, IF @.value = None THEN None
                                                       ELSE @.value.environment)),
        !.activity = IF seen.tasks = None THEN StaleSection(@) ELSE ReadySection(seen.tasks),
        !.faults = (@ \cap {"settings"}) \cup FaultsOf(seen.runtime.state, seen.broker)]

ActivityIsStale == [published EXCEPT !.activity = StaleSection(@)]
ObservationIsStale ==
    [published EXCEPT !.observation = StaleSection(@), !.activity = StaleSection(@)]

\* settings_snapshot_draft.
FaultySettingsDraft(value, failed) ==
    [published EXCEPT !.settings = IF failed THEN FaultedSection(value) ELSE ReadySection(value),
                      !.faults = IF failed THEN @ \cup {"settings"} ELSE @]

SettingsDraft(value, failed) ==
    [published EXCEPT !.settings = IF failed THEN FaultedSection(value) ELSE ReadySection(value),
                      !.faults = (@ \ {"settings"}) \cup (IF failed THEN {"settings"} ELSE {})]

\* OnboardingReadiness::from_runtime(...).all_ready().
OnboardingReady ==
    LET seen == ReadyValue(published.observation)
    IN seen # None /\ seen.environment = TRUE /\ seen.state = "ready"

\* service_codes, of the tunnel and the coding service.  The only starting state a
\* command publishes is StartingMcp, and recoveries are not told apart by component.
ServiceCodes(state) ==
    CASE state = "stopped"                     -> <<"off", "off">>
      [] state = "starting"                    -> <<"off", "starting">>
      [] state = "ready"                       -> <<"online", "online">>
      [] state \in {"recovering", "switching"} -> <<"recovering", "recovering">>
      [] state = "faulted"                     -> <<"fault", "fault">>

SectionCode(section) ==
    CASE section.availability = "fault"                       -> "fault"
      [] IsFresh(section) /\ section.value # None             -> "ready"
      [] section.availability = "unavailable" /\ section.stale -> "stale"
      [] OTHER                                                -> "unavailable"

\* update_projection: a failed check may be retried if its error was for now.
UpdateProjection(lifecycle) ==
    [state     |-> lifecycle.state, lease |-> lifecycle.lease,
     attempt   |-> IF lifecycle.state \in {"checking", "failed"} THEN lifecycle.attempt ELSE None,
     retryable |-> lifecycle.state # "checking" /\ lifecycle.error # "final"]

\* current_activity_projection: the task or the detached command that runs, if any.
CurrentActivity(aggregate) == IF aggregate = "busy" THEN "running" ELSE None

\* get_main_projection_blocking: only fresh sections are shown.
MainProjection ==
    LET seen == ReadyValue(published.observation) IN
    [revision |-> published.revision,
     status   |-> <<SectionCode(published.observation), SectionCode(published.settings),
                    SectionCode(published.activity), SectionCode(published.update)>>,
     main     |-> IF seen = None THEN None
                  ELSE [seen EXCEPT !.state = ServiceCodes(seen.state),
                                    !.environment = OnboardingReady],
     settings |-> ReadyValue(published.settings),
     activity |-> CurrentActivity(ReadyValue(published.activity)),
     update   |-> IF IsFresh(published.update) THEN UpdateProjection(published.update.value) ELSE None,
     faults   |-> published.faults]

-----------------------------------------------------------------------------
(* Callers.  A publication returns to the place a thread keeps in `then'.  *)

Stopped == [state |-> "stopped", workspace |-> None, connection |-> None]
NothingSeen == [runtime |-> Stopped, tasks |-> None, broker |-> "disabled", desired |-> None]

NewThread == [at |-> "idle", then |-> "done", generation |-> 0, connection |-> None,
              value |-> None, seen |-> NothingSeen, calls |-> <<>>]

\* ProductionRuntimeOwner::snapshot and task_aggregate_snapshot.
RuntimeSnapshot == IF runtime = None THEN inactive ELSE runtime
TaskSnapshot == IF runtime = None THEN "idle" ELSE tasks

Call(c) == Head(thread[c].calls)
At(c, place) == thread[c].at = place
Calls(c, op) == At(c, "idle") /\ thread[c].calls # <<>> /\ Call(c).op = op
Runs(c, ops) == thread[c].calls # <<>> /\ Call(c).op \in ops
Goto(c, place) == thread' = [thread EXCEPT ![c].at = place]
Current(c) == thread[c].generation = generation

\* The step after which a call has returned.
Return(c) ==
    thread' = [thread EXCEPT ![c] = [NewThread EXCEPT !.calls = Tail(thread[c].calls)]]

\* Capture(c, seen, then): go on to publish what was seen of the runtime.
Capture(c, seen, activity, then) ==
    thread' = [thread EXCEPT ![c].at = "derive", ![c].then = then,
                             ![c].seen = [NothingSeen EXCEPT !.runtime = seen, !.tasks = activity]]

\* publish_current_observation: a runtime mutex that is taken leaves the sections stale.
Observe(c) ==
    /\ At(c, "observe")
    /\ IF held # None
       THEN Publish(ObservationIsStale) /\ Goto(c, thread[c].then)
       ELSE Capture(c, RuntimeSnapshot, TaskSnapshot, thread[c].then) /\ UNCHANGED <<published, window>>
    /\ UNCHANGED <<ownerVars, lockVars, sideVars, crossed, budget>>

DeriveStep(c) ==
    /\ At(c, "derive")
    /\ thread' = [thread EXCEPT ![c].at = "update", ![c].seen.broker = broker, ![c].seen.desired = desired]
    /\ UNCHANGED <<ownerVars, lockVars, sideVars, published, window, crossed, budget>>

UpdateStep(c) ==
    /\ At(c, "update")
    /\ Publish(Observed(thread[c].seen))
    /\ thread' = [thread EXCEPT ![c].at = thread[c].then, ![c].seen = NothingSeen]
    /\ UNCHANGED <<ownerVars, lockVars, sideVars, crossed, budget>>

\* A call that only had to publish has returned.
Finish(c) ==
    /\ At(c, "done")
    /\ Return(c)
    /\ UNCHANGED <<ownerVars, lockVars, sideVars, published, window, crossed, budget>>

\* set_desired_*, mark_connection_credentials_changed: publish if the revision moved.
SetDesired(c) ==
    /\ Calls(c, "set")
    /\ desired' = [desired EXCEPT ![Call(c).field] = Call(c).value]
    /\ thread' = [thread EXCEPT ![c].at = IF desired' # desired THEN "observe" ELSE "done",
                                ![c].then = "done"]
    /\ UNCHANGED <<broker, runtime, inactive, tasks, lockVars, sideVars, published, window, crossed, budget>>

\* start_production_runtime, restart_production_runtime: intent first, without publishing.
Enable(c) ==
    /\ \E op \in {"start", "spawn", "restart"} : Calls(c, op)
    /\ desired' = [desired EXCEPT !.services = "enabled"]
    /\ Goto(c, "bump")
    /\ UNCHANGED <<broker, runtime, inactive, tasks, lockVars, sideVars, published, window, crossed, budget>>

\* stop_services_for_manual_action, stop_runtime_for_control_plane, shutdown.
Disable(c) ==
    /\ Calls(c, "stop")
    /\ desired' = [desired EXCEPT !.services = "disabled"]
    /\ thread' = [thread EXCEPT ![c].at = IF desired' # desired THEN "observe" ELSE "bump",
                                ![c].then = "bump"]
    /\ UNCHANGED <<broker, runtime, inactive, tasks, lockVars, sideVars, published, window, crossed, budget>>

Bump(c) ==
    /\ At(c, "bump")
    /\ generation' = generation + 1
    /\ thread' = [thread EXCEPT ![c].generation = generation + 1,
                                ![c].at = IF Call(c).op = "stop" THEN "lock" ELSE "check"]
    /\ UNCHANGED <<ownerVars, operation, held, sideVars, published, window, crossed, budget>>

\* publish_starting_if_current.
CheckCurrent(c) ==
    /\ At(c, "check")
    /\ Goto(c, IF Current(c) THEN "announce" ELSE "lock")
    /\ UNCHANGED <<ownerVars, lockVars, sideVars, published, window, crossed, budget>>

\* observe_inactive_and_publish.
ObserveInactive(c, seen, then) ==
    /\ held = None
    /\ inactive' = seen
    /\ Capture(c, seen, "idle", then)
    /\ UNCHANGED <<desired, broker, runtime, tasks, lockVars, sideVars, published, window, crossed, budget>>

Announce(c) ==
    /\ At(c, "announce")
    /\ ObserveInactive(c, [state |-> "starting", workspace |-> Call(c).value,
                           connection |-> desired.connection], "lock")

Unlock(c) ==
    /\ At(c, "unlock")
    /\ operation' = None
    /\ Return(c)
    /\ UNCHANGED <<ownerVars, held, generation, sideVars, published, window, crossed, budget>>

-----------------------------------------------------------------------------
(* Runtime operations, under runtime_operation.                            *)

Lock(c, ops) == At(c, "lock") /\ Runs(c, ops) /\ operation = None /\ held = None
KeepAside == UNCHANGED <<sideVars, published, window, crossed, budget>>

\* start_production_runtime_locked: a spawned start that finds a runtime publishes it.
LockStart(c) ==
    /\ Lock(c, {"start", "spawn"})
    /\ \/ ~Current(c) /\ Return(c) /\ UNCHANGED operation
       \/ /\ Current(c) /\ runtime # None /\ Call(c).op = "start"
          /\ Return(c) /\ UNCHANGED operation
       \/ /\ Current(c) /\ runtime # None /\ Call(c).op = "spawn"
          /\ Capture(c, runtime, None, "unlock") /\ operation' = c
       \/ Current(c) /\ runtime = None /\ Goto(c, "launch") /\ operation' = c
    /\ UNCHANGED <<ownerVars, held, generation>> /\ KeepAside

\* restart_production_runtime: the registered runtime is taken and stopped, which may fail.
LockRestart(c) ==
    /\ Lock(c, {"restart"})
    /\ \/ ~Current(c) /\ Return(c) /\ UNCHANGED <<operation, runtime>>
       \/ Current(c) /\ operation' = c /\ runtime' = None /\ Goto(c, "launch")
       \/ Current(c) /\ runtime # None /\ operation' = c /\ runtime' = None /\ Goto(c, "fault")
    /\ UNCHANGED <<desired, broker, inactive, tasks, held, generation>> /\ KeepAside

\* The driver is made with the connection that is desired now.
Launch(c) ==
    /\ At(c, "launch")
    /\ thread' = [thread EXCEPT ![c].at = IF Current(c) THEN "run" ELSE "unlock",
                                ![c].connection = desired.connection]
    /\ UNCHANGED <<ownerVars, lockVars>> /\ KeepAside

RunEnds(c) ==
    /\ At(c, "run")
    /\ \E outcome \in {"activate", "fault"} : Goto(c, outcome)
    /\ UNCHANGED <<ownerVars, lockVars>> /\ KeepAside

\* activate_runtime_if_current_locked, which tests the generation before and after.
Activate(c) ==
    /\ At(c, "activate") /\ held = None
    /\ IF Current(c)
       THEN /\ runtime' = [state |-> "ready", workspace |-> Call(c).value,
                           connection |-> thread[c].connection]
            /\ tasks' = "idle" /\ held' = c /\ Goto(c, "confirm")
       ELSE Goto(c, "unlock") /\ UNCHANGED <<runtime, tasks, held>>
    /\ UNCHANGED <<desired, broker, inactive, operation, generation>> /\ KeepAside

Confirm(c) ==
    /\ At(c, "confirm")
    /\ held' = None
    /\ IF Current(c)
       THEN /\ thread' = [thread EXCEPT ![c].at = "admit", ![c].then = "unlock",
                                        ![c].seen = [NothingSeen EXCEPT !.runtime = runtime]]
            /\ UNCHANGED runtime
       ELSE runtime' = None /\ Goto(c, "unlock")
    /\ UNCHANGED <<desired, broker, inactive, tasks, operation, generation>> /\ KeepAside

\* and once more before it publishes what it saw.
Admit(c) ==
    /\ At(c, "admit")
    /\ IF Current(c) THEN Goto(c, "derive")
       ELSE thread' = [thread EXCEPT ![c].at = "unlock", ![c].seen = NothingSeen]
    /\ UNCHANGED <<ownerVars, lockVars>> /\ KeepAside

\* spawn_start_production_runtime cannot make its thread.
SpawnFails(c) ==
    /\ At(c, "lock") /\ Runs(c, {"spawn"})
    /\ IF Current(c) THEN ObserveInactive(c, Stopped, "done")
       ELSE Return(c) /\ UNCHANGED <<ownerVars, lockVars>> /\ KeepAside

\* publish_fault_if_current.
StartFails(c) ==
    /\ At(c, "fault")
    /\ IF Current(c)
       THEN ObserveInactive(c, [state |-> "faulted", workspace |-> Call(c).value,
                                connection |-> desired.connection], "unlock")
       ELSE Goto(c, "unlock") /\ UNCHANGED <<ownerVars, lockVars>> /\ KeepAside

\* A stop by hand also closes the broker, which may fail when one is active.
LockStop(c) ==
    /\ Lock(c, {"stop"})
    /\ operation' = c /\ runtime' = None
    /\ broker' \in IF Call(c).value # "manual" THEN {broker}
                  ELSE {"disabled"} \cup (IF broker = "active" THEN {"faulted"} ELSE {})
    /\ Goto(c, "down")
    /\ UNCHANGED <<desired, inactive, tasks, held, generation>> /\ KeepAside

\* publish_runtime_observation(inactive()).
ObserveStopped(c) ==
    /\ At(c, "down") /\ held = None
    /\ inactive' = Stopped
    /\ thread' = [thread EXCEPT ![c].at = "observe", ![c].then = "unlock"]
    /\ UNCHANGED <<desired, broker, runtime, tasks, lockVars>> /\ KeepAside

\* switch_runtime_workspace, manual_retry_after_attention: the runtime mutex is kept.
LockSwitch(c) ==
    /\ At(c, "idle") /\ Runs(c, {"switch", "retry"}) /\ operation = None /\ held = None
    /\ IF runtime = None THEN Return(c) /\ UNCHANGED <<operation, held>>
       ELSE Goto(c, "switching") /\ operation' = c /\ held' = c
    /\ UNCHANGED <<ownerVars, generation>> /\ KeepAside

Dropped == None

SwitchEnds(c) ==
    /\ At(c, "switching")
    /\ \E state \in {"ready", "faulted"},
          workspace \in {runtime.workspace} \cup (IF Call(c).op = "switch" THEN {Call(c).value} ELSE {}) :
          runtime' = [runtime EXCEPT !.state = state, !.workspace = workspace]
    /\ held' = Dropped
    /\ thread' = [thread EXCEPT ![c].at = "observe", ![c].then = "unlock"]
    /\ UNCHANGED <<desired, broker, inactive, tasks, operation, generation>> /\ KeepAside

-----------------------------------------------------------------------------
(* The watchdog: a tick every 500 ms, skipped when an operation runs.      *)

Tick ==
    /\ At("watchdog", "idle") /\ operation = None /\ held = None
    /\ operation' = "watchdog"
    /\ held' = IF runtime = None THEN None ELSE "watchdog"
    /\ IF runtime = None THEN Capture("watchdog", inactive, "idle", "release")
       ELSE Goto("watchdog", "monitor")
    /\ UNCHANGED <<ownerVars, generation>> /\ KeepAside

\* monitor_recovery_with_observer: a failed probe starts a recovery, which ends or not.
Monitor ==
    /\ At("watchdog", "monitor")
    /\ \/ UNCHANGED <<runtime, budget>>
       \/ /\ budget.outages > 0 /\ budget' = [budget EXCEPT !.outages = @ - 1]
          /\ \E state \in {"ready", "recovering", "faulted"} : runtime' = [runtime EXCEPT !.state = state]
    /\ held' = None
    /\ Capture("watchdog", runtime', tasks, "release")
    /\ UNCHANGED <<desired, broker, inactive, tasks, operation, generation, sideVars, published, window, crossed>>

Release ==
    /\ At("watchdog", "release")
    /\ operation' = None /\ thread' = [thread EXCEPT !["watchdog"] = NewThread]
    /\ UNCHANGED <<ownerVars, held, generation>> /\ KeepAside

-----------------------------------------------------------------------------
(* The settings: a command saves, then loads again and publishes.  It does *)
(* not get that far when a step between fails: the downgrade of a change   *)
(* of the permission, or the reconciliation of a change of the project.    *)

Refreshing(c) == thread[c].at \in {"load", "show"}
KeepRuntime == UNCHANGED <<ownerVars, lockVars, budget>>

\* set_permission_mode, set_close_window_continue_running, set_auto_start and the
\* project commands.  Only the first publishes a fault, over the settings shown
\* before, when its save fails.
Save(c) ==
    /\ Calls(c, "save")
    /\ \/ /\ file' = file + 1
          /\ \/ /\ crossed' = (crossed \ {"settings"}) \cup
                              (IF \E d \in Callers \ {c} : Refreshing(d) THEN {"settings"} ELSE {})
                /\ Goto(c, "load")
             \/ /\ Call(c).value \in {"permission", "project"}
                /\ crossed' = crossed \cup {"settings"}
                /\ Return(c)
          /\ UNCHANGED <<published, window>>
       \/ /\ IF Call(c).value = "permission" THEN Publish(SettingsDraft(published.settings.value, TRUE))
             ELSE UNCHANGED <<published, window>>
          /\ Return(c) /\ UNCHANGED <<file, crossed>>
    /\ KeepRuntime /\ UNCHANGED <<environment, update, check>>

Loaded == file

\* refresh_settings_snapshot; a failed load publishes nothing.
LoadSettings(c) ==
    /\ At(c, "load")
    /\ \/ thread' = [thread EXCEPT ![c].at = "show", ![c].value = Loaded] /\ UNCHANGED crossed
       \/ Return(c) /\ crossed' = crossed \cup {"settings"}
    /\ KeepRuntime /\ UNCHANGED <<sideVars, published, window>>

\* The credential's metadata may be unreadable: the section is then a fault with a value.
ShowSettings(c) ==
    /\ At(c, "show")
    /\ \E failed \in BOOLEAN : Publish(SettingsDraft(thread[c].value, failed))
    /\ Return(c)
    /\ KeepRuntime /\ UNCHANGED <<sideVars, crossed>>

\* publish_local_environment_observation, at startup.
ObserveEnvironment(c) ==
    /\ Calls(c, "environment")
    /\ environment' = Call(c).value
    /\ Publish([published EXCEPT !.observation.value.environment = Call(c).value])
    /\ Return(c)
    /\ KeepRuntime /\ UNCHANGED <<file, update, check, crossed>>

-----------------------------------------------------------------------------
(* The update check.  Its state changes under one lock and is published    *)
(* after that lock is released.                                            *)

\* publish_update.
Shown(lifecycle) == [published EXCEPT !.update = ReadySection(lifecycle)]
Untold == {k \in Checkers : check[k].at \in {"begun", "tell"}}
Tells(k, lifecycle) ==
    /\ update' = lifecycle
    /\ check' = [check EXCEPT ![k].at = "tell", ![k].news = lifecycle]

\* UpdateStateOwner::begin, for retry_update_check and at startup.
BeginCheck(c) ==
    /\ Calls(c, "check")
    /\ IF update.state = "checking"
       THEN Return(c) /\ UNCHANGED <<update, check, crossed>>
       ELSE \E k \in Checkers :
            /\ check[k].at = "none" /\ \A j \in Checkers : j < k => check[j].at # "none"
            /\ update' = [state |-> "checking", lease |-> k, attempt |-> 1, error |-> None]
            /\ check' = [check EXCEPT ![k].at = "begun", ![k].news = update']
            /\ crossed' = (crossed \ {"update"}) \cup (IF Untold # {} THEN {"update"} ELSE {})
            /\ thread' = [thread EXCEPT ![c].at = "begun", ![c].value = k]
    /\ KeepRuntime /\ UNCHANGED <<file, environment, published, window>>

AfterSpawn == {"fetch", "lost"}

\* The rest of begin, and UpdateChecker::start: a thread that cannot be spawned drops the lease.
AnnounceCheck(c) ==
    /\ At(c, "begun")
    /\ LET k == thread[c].value IN
       /\ Publish(Shown(check[k].news))
       /\ \E next \in AfterSpawn : check' = [check EXCEPT ![k].at = next]
    /\ Return(c)
    /\ KeepRuntime /\ UNCHANGED <<file, environment, update, crossed>>

\* ReleaseSource::latest finds a newer release or none, or fails: for now (timeout,
\* transport, rate limit) or for good (no release, or one that is not valid).
Outcomes == {"newer", "same", "transient", "final"}
Retryable(outcome) == outcome = "transient"
IsLastAttempt == update.attempt = MaxAttempts

Concluded(outcome) ==
    [update EXCEPT !.state = CASE outcome = "newer" -> "available" [] outcome = "same" -> "current"
                               [] OTHER -> "failed",
                   !.error = IF outcome \in {"newer", "same"} THEN None ELSE outcome]

FetchEnds(k) ==
    /\ check[k].at = "fetch"
    /\ \E outcome \in Outcomes :
          Tells(k, IF Retryable(outcome) /\ ~IsLastAttempt THEN [update EXCEPT !.attempt = @ + 1]
                   ELSE Concluded(outcome))
    /\ UNCHANGED <<ownerVars, lockVars, thread, file, environment, published, window, crossed, budget>>

\* UpdateCheckLease::drop.
LoseCheck(k) ==
    /\ check[k].at = "lost"
    /\ Tells(k, Concluded("transient"))
    /\ UNCHANGED <<ownerVars, lockVars, thread, file, environment, published, window, crossed, budget>>

Tell(k) ==
    /\ check[k].at = "tell"
    /\ Publish(Shown(check[k].news))
    /\ check' = [check EXCEPT ![k].at = IF check[k].news.state = "checking" THEN "fetch" ELSE "over"]
    /\ UNCHANGED <<ownerVars, lockVars, thread, file, environment, update, crossed, budget>>

-----------------------------------------------------------------------------
(* Readers, and what moves by itself.                                      *)

\* get_main_projection, then wait_main_projection_change since what it showed.
Fetch ==
    /\ window.at = "fetch"
    /\ window' = [at |-> "ask", shown |-> MainProjection]
    /\ UNCHANGED <<ownerVars, lockVars, thread, sideVars, published, crossed, budget>>

\* wait_after.
WaitAfter ==
    /\ window.at = "ask"
    /\ window' = [window EXCEPT !.at = IF published.revision # window.shown.revision THEN "fetch" ELSE "wait"]
    /\ UNCHANGED <<ownerVars, lockVars, thread, sideVars, published, crossed, budget>>

WaitTimesOut ==
    /\ window.at = "wait"
    /\ window' = [window EXCEPT !.at = "fetch"]
    /\ UNCHANGED <<ownerVars, lockVars, thread, sideVars, published, crossed, budget>>

\* A task changes in the server; the wake marks the activity stale.
TaskChanges ==
    /\ runtime # None /\ budget.tasks > 0
    /\ budget' = [budget EXCEPT !.tasks = @ - 1]
    /\ tasks' = IF tasks = "idle" THEN "busy" ELSE "idle"
    /\ Publish(ActivityIsStale)
    /\ UNCHANGED <<desired, broker, runtime, inactive, lockVars, thread, sideVars, crossed>>

\* The broker is the business of Privilege: here it moves as it likes.
BrokerMoves ==
    /\ budget.broker > 0
    /\ budget' = [budget EXCEPT !.broker = @ - 1]
    /\ broker' \in {"disabled", "awaiting", "active", "faulted"} \ {broker}
    /\ UNCHANGED <<desired, runtime, inactive, tasks, lockVars, thread, sideVars, published, window, crossed>>

-----------------------------------------------------------------------------
(* DesktopLifecycle::new and the first publications of the startup.        *)

Threads == Callers \cup {"watchdog"}
NoLease == [at |-> "none", news |-> None]
Idle == [state |-> "idle", lease |-> None, attempt |-> 0, error |-> None]

Init ==
    \E s \in Scenarios :
        /\ desired = s.desired
        /\ broker = "disabled" /\ tasks = "idle"
        /\ runtime = IF s.up THEN [state |-> "ready", workspace |-> s.desired.workspace,
                                  connection |-> s.desired.connection]
                    ELSE None
        /\ inactive = Stopped
        /\ operation = None /\ held = None /\ generation = 0
        /\ thread = [t \in Threads |->
                        [NewThread EXCEPT !.calls = IF t \in Callers THEN s.calls[t] ELSE <<>>]]
        /\ file = 0 /\ environment = None
        /\ update = Idle /\ check = [k \in Checkers |-> NoLease]
        /\ LET seen == [runtime |-> RuntimeSnapshot, tasks |-> "idle", broker |-> broker, desired |-> desired]
           IN published = [revision |-> 1, observation |-> ReadySection(Observation(seen, None)),
                           activity |-> ReadySection("idle"), settings |-> ReadySection(file),
                           update |-> ReadySection(update), faults |-> {}]
        /\ window = [at |-> IF s.window THEN "fetch" ELSE "closed", shown |-> None]
        /\ crossed = {}
        /\ budget = s.budget

-----------------------------------------------------------------------------
Publishing(c) == Observe(c) \/ DeriveStep(c) \/ UpdateStep(c)
Commanding(c) == \/ SetDesired(c) \/ Enable(c) \/ Disable(c) \/ Bump(c) \/ CheckCurrent(c) \/ Announce(c)
                 \/ Launch(c) \/ RunEnds(c) \/ Activate(c) \/ Confirm(c) \/ Admit(c)
                 \/ StartFails(c) \/ SpawnFails(c)
                 \/ ObserveStopped(c) \/ SwitchEnds(c) \/ Unlock(c) \/ Finish(c)
                 \/ Save(c) \/ LoadSettings(c) \/ ShowSettings(c) \/ ObserveEnvironment(c)
                 \/ BeginCheck(c) \/ AnnounceCheck(c)
Locking(c) == LockStart(c) \/ LockRestart(c) \/ LockStop(c) \/ LockSwitch(c)
Watching == Tick \/ Monitor \/ Release \/ Publishing("watchdog")
Checking(k) == FetchEnds(k) \/ LoseCheck(k) \/ Tell(k)
Reading == Fetch \/ WaitAfter \/ WaitTimesOut

Next == \/ \E c \in Callers : Publishing(c) \/ Commanding(c) \/ Locking(c)
        \/ Watching
        \/ \E k \in Checkers : Checking(k)
        \/ Reading \/ TaskChanges \/ BrokerMoves

Spec == Init /\ [][Next]_vars

\* Threads run; a mutex that is free again and again is taken, because the watchdog
\* sleeps between its ticks; the window's loop and a checker's request come back.
FairSpec ==
    /\ Spec
    /\ \A c \in Callers : WF_vars(Publishing(c) \/ Commanding(c)) /\ SF_vars(Locking(c))
    /\ WF_vars(Watching)
    /\ \A k \in Checkers : WF_vars(Checking(k))

-----------------------------------------------------------------------------
(* Properties.                                                             *)

\* A window that is parked in wait_after has seen the newest revision: no publication,
\* by whichever thread, slips between its comparison and its wait (snapshot.rs:509).
NoMissedChange == window.at = "wait" => window.shown.revision = published.revision

\* A revision names one content: while the revision the window fetched is the
\* published one, what it shows is what is published (publish_locked, snapshot.rs:429).
RevisionNamesContent ==
    window.shown # None /\ window.shown.revision = published.revision => window.shown = MainProjection

\* The window shows what is published, asleep or awake: comparing revisions is enough
\* to know that nothing has changed (snapshot.rs, wait_after and publish_locked).
WindowIsCurrent == NoMissedChange /\ RevisionNamesContent

\* The list of faults and the sections tell one story, whoever published last: a
\* settings fault outlives observations and goes with the next good refresh, a runtime
\* or broker fault outlives settings and goes with the next observation.
FaultsMatchSections ==
    /\ "settings" \in published.faults <=> published.settings.availability = "fault"
    /\ published.faults \ {"settings"} =
          FaultsOf(published.observation.value.state, published.observation.value.broker)

\* Whether the local environment works is found out once, at startup, and every later
\* publication of the runtime carries it along (background.rs:513).
EnvironmentIsRemembered == published.observation.value.environment = environment

\* Once no refresh is under way the settings shown are those on disk, unless two
\* refreshes overlapped (ui.rs:1102 takes no lock), the reload failed, or the
\* command that saved them answered an error before it refreshed them: the
\* reconciliation or the downgrade failed (ui.rs:510, 812, 854, 890).
SettingsAreShown ==
    (\A c \in Callers : ~Refreshing(c)) /\ "settings" \notin crossed =>
        published.settings.value = file

\* Once every change of the update check is published, the last one is what is shown,
\* unless a new check began before the old one had published its end (update.rs:178).
UpdateIsShown == Untold = {} /\ "update" \notin crossed => published.update.value = update

\* Publishers that each replace one part of the record do not lose each other's:
\* faults, environment, settings and update are those last found, with the exceptions
\* the parts name (snapshot.rs:417).
SectionsAreKept ==
    FaultsMatchSections /\ EnvironmentIsRemembered /\ SettingsAreShown /\ UpdateIsShown

\* Every update check ends, in at most UPDATE_CHECK_MAX_ATTEMPTS attempts.
CheckEnds == update.state = "checking" ~> update.state # "checking"

Actual == [runtime |-> RuntimeSnapshot, tasks |-> TaskSnapshot, broker |-> broker, desired |-> desired]

\* However publications overtake each other, once commands have ended the snapshot
\* settles on the runtime, desired state, broker and tasks as they are, all fresh.
PublishedCatchesUp ==
    <>[](/\ published.observation = ReadySection(Observation(Actual, environment))
         /\ published.activity = ReadySection(TaskSnapshot))

\* The projection settles: update checks end, and the snapshot becomes and stays what
\* it describes (background.rs:998, update.rs).
ProjectionSettles == CheckEnds /\ PublishedCatchesUp

=============================================================================
