# LocalBridge specifications

TLA+ models of LocalBridge, model-checked with TLC on small instances, with
machine-checked proofs about six of its components. LocalBridge is a Windows
desktop application that gives a remote client access to a workspace through an
MCP (Model Context Protocol) server. All paths below are relative to
`src-tauri/src/` unless they say otherwise.

## The system

A **tunnel** brings the client's HTTP requests to the **MCP server**
(`mcp/server.rs`). Every connection has a worker thread. A tool call finds its
session (`session_registry.rs`), registers its request (`request_registry.rs`)
and its task (`task_registry.rs`), is admitted by the **scheduler**
(`scheduler.rs`), and is run by the **facade** (`mcp/facade.rs`) under one lock,
mostly by calling the **coding runtime**, a Python process. File tools go to the
**filesystem service** (`filesystem/`) instead, administrator tools to the
**privileged broker** (`privilege/`), an elevated process behind a pipe. A command
that outlives its call becomes a detached command session, recorded in the
durable **execution registry** (`execution_registry.rs`) and driven to its end by
several paths that share no lock; its output goes through filters, handles and
pages. A coding task is a **durable workflow** over one checkpoint file.

Around this, the **runtime orchestrator** (`runtime/orchestrator.rs`) starts and
stops coding runtime, server and tunnel through a **driver** and a **process
supervisor** of Windows job objects; **automatic recovery**
(`runtime/recovery.rs`) restarts what fails; the **desktop lifecycle**
(`app/background.rs`) turns the user's commands into operations on the one
runtime there is; and the **desktop** keeps the settings, starts at logon, and
shows a **snapshot** (`snapshot.rs`) that many publishers write part by part.

`PROJECT.json` lists every part with its sources and its status, and maps every
definition to the lines it models.

## Modules

| module | models | run |
| --- | --- | --- |
| `Scheduler` | lanes, slot, queue, tickets, condition variable, cancellation, close | `scheduler` |
| `WorkSlot` | what the scheduler promises of foreground work: one place, served in order of arrival | refined in `scheduler` |
| `Requests` | `Scheduler` composed with the three registries, the workers, the cancellers, the reaper and the shutdown | `requests_safety`, `requests_progress` |
| `Executions` | the execution registry and every path that ends a command | `executions` |
| `Outputs` | pending text, stderr filter, output handles and pages of a command | `outputs` |
| `Runtime` | orchestrator and recovery, one driver call at a time | through `Lifecycle` |
| `Lifecycle` | `Runtime` composed with the control threads and the watchdog | `lifecycle` |
| `Privilege` | permission commands, controller, gateway, broker process, privileged handlers | `privilege` |
| `Files` | the filesystem service, with handles, share modes, volumes, crashes and other programs | `files` |
| `Workflow` | coding tasks and plain workflows over one checkpoint file | `workflow` |
| `Convergence` | desired, observed and effective state, the reconciler's plan (operators) | through `Projection` |
| `Projection` | the snapshot, its publishers, its readers and the update check | `projection` |
| `Desk` | settings, startup, autostart, single instance, desktop commands, exit | `desk` |
| `Supervisor` | job objects, spawn, stop and drop, one Windows call at a time | through `Driver` |
| `BoundedCommand` | a command with a time limit, its reader thread and its pipe | through `Driver` |
| `CommandLine` | the quoting of a command line and the environment block (operators) | through `Driver` |
| `Driver` | the driver's exchanges with the Python server and the tunnel client | `driver` |
| `SchedulerProofs`, `RequestsProofs`, `ExecutionsProofs`, `PrivilegeProofs`, `ConvergenceProofs`, `SupervisorProofs` | theorems about the module they extend | TLAPS |

A module `MC<X>` gives the constants of `<X>` their values. Where a constant is
called `Scenarios`, it is a set of small instances and `Init` chooses one, so that
one run covers all of them.

### Scheduler and WorkSlot

`pc[w]` is where a worker is in `admit_for_request`; `queue`, `cancelled`,
`work_running`, `active`, `rejected_total` and `closed` are the fields of
`SchedulerState`. Each step is one critical section of the scheduler's mutex.
Waiting on the condition variable is explicit: a worker goes to sleep, a
notification moves every sleeper to "woken", and a woken worker takes the lock
again and rechecks (`Recheck`); it may also wake spuriously. So a lost wakeup is a
reachable behaviour if the code forgets to notify. `arrival` numbers give the
order of the deque.

### Requests

A worker serves one tool call. `stage[w]` follows `handle_connection` through
session lookup, lease, task, registration, admission, call, completion, removal
and the drop of the lease. A cancellation is two steps, as in the code: one marks
the request and takes a copy of its target, a later one acts on the copy, by
which time the request may have moved on. A session is closed in three steps: it
leaves the registry (`CloseSession`), the requests it has active by then are marked
and copied (`SettleSession`), the queue is swept (`Sweep`). A command control call
whose work is under way goes beside it (`DirectControl`). The filesystem handler
looks whether its request is active and then redirects or registers it, in two
steps (`FsLook`, `FsActivate`), and answers a duplicate when another call of the
same id came in between (`FsDuplicate`). The accept loop ends with the stopping flag
set (a shutdown, or a failed observation of the executions) or, after an error of
accept, without it: `server` and `stopping` are two variables. The shutdown
then closes the scheduler, repeats rounds of cancellation and joins the workers.
Two workers with one key are a client that reuses an id. A response is the class of
its outcome. `early` is a history variable: the calls whose cancellation came before
their target was set.

### Executions

`mem` is the registry in memory, `disk` its file. A transaction persists and then
applies; a write may fail, and the application may crash between any two steps
and recover from the file (`Restart`). Threads are the facade with its lock, the
observer, and control calls beside them; each reads the runtime's answer and then
records it in a separate step. Time appears as the choice of an execution to have
passed its limit (`Expire`). `told`, `said`, `killed`, `hit` and `spent` are history
variables: `told` has the outcomes answered from the record or after it was written,
`said` the statuses the facade's answers had when it made them, which is before
it records them.

### Outputs

A command's stdout and stderr are sequences of tokens; the stderr filter keeps a
suffix that may be the start of a CLIXML envelope. One call of the facade is one
step, for it holds the facade's lock; calls beside the facade are steps of their
own. A result that cannot be recorded is replaced by an error, and what it
carried goes into the history variable `excused`. Handles are made, evicted at the
limit and expire. The runtime's own
truncation, trimming in the middle of an observation, the transfer of an owner and
the decoding of CLIXML escapes are left out.

### Runtime and Lifecycle

A layer (coding runtime, server, tunnel) is in one of the orchestrator's handles
(`own`) or in the local variables of the running call (`hand`). Every call of the
driver is an action, because a command may cancel the recovery epoch between any
two. Each may fail; faults are told apart only as recovery tells them apart. A
retained outage has a generation, an alert flag and a plan (`pending`) with the
permit it was made under. In `Lifecycle` a thread carries one command. It cancels
the epoch and takes a control generation without a lock, announces a start, waits
for the operation lock, and finds out under it whether it is still current. The
watchdog only tries the lock.

### Privilege

Brokers are named by their generation (`next_generation`). A caller (elevation,
downgrade, elevated start, exit) carries a broker in `hold` between taking it out
of the lifecycle and its end, or between requesting and activating it; `life` is
the lifecycle value the gateway reads. A gateway call is one step, for it holds
the lifecycle lock over the round trip. A handler polls the broker; a client's
cancellation is a mark and, later, a copy (`mail`) acted upon. `Release` is the
drop of the handles; a process may resist termination and live on without a pipe.

### Files

A file operation is its sequence of system calls; between any two another program
may write, delete or replace the root, the client may cancel, a call may fail, or
the machine may stop. What undoes a failure may fail too; `stuck` has the paths it
left. Contents are versions; a handle has the share mode the code gives it, for as
long as the code keeps it open. The search pattern matcher is checked against a
reference definition.

### Workflow

Each load of the checkpoint, temporary write, rename and effect of a step is an
action, and an error may be answered before or after the effect. A second thread
cancels, kills or settles without the facade's lock; `raced` records that two of
them shared the temporary file, `unheard` the commands whose start was answered to
verify with an error.

### Convergence and Projection

`Convergence` is pure: the plan and the authorisation as operators of desired,
observed and effective state. In `Projection` every publisher reads, computes and
writes its part in the steps the code takes; a window waits for a revision. The
four sections of an observation, always published together, are one.

### Desk

A command is a thread that loads, changes and saves the settings and drives the
profile, the credential and the runtime, in the code's steps, with their
failures. A project is its identity, a settings file is readable or not, with a
version. A failed save may have moved the old file to the backup already.
Launches, logons, the tray's exit and a crash are actions. `disturbed` records the
circumstances under which a property claims less: overlapping commands, a failed
rollback, a failed replacement, an epoch taken back.

### Supervisor, BoundedCommand, CommandLine, Driver

Every Windows call is an action with its failure. `Driver` composes the
supervisor with the launch of the Python server, its handshake and health answers,
the tunnel client, and bounded commands; an exchange that is late is told apart
from one that failed where the code tells them apart. The verification of an
installation is its sequence of checks, each of the presence, the digest or the
metadata fields of a piece. The thread that reads a bounded command's output may
fail to start: the release build then aborts, a build that unwinds leaves the job
handle open. `open_logs` starts an explorer that may inherit the write handle of the
pipe (`stray`). An argument that is not Unicode has the offending units replaced
before it is quoted (`ToStringLossy`).

## Runs

| run | instance | states | shows |
| --- | --- | --- | --- |
| `scheduler` | four workers, two sessions, queue of two, lanes of one | 19,500 | no lost wakeup (`NoLostWakeup`), every waiter returns (`WaitersReturn`), the scheduler implements `WorkSlot` |
| `requests_safety` | pairs of runtime, filesystem and control calls, one shared id, one cancellation or session end, one round before the join; two filesystem calls and a control call under one id | 1,069,000 | tasks and answers tell one story and a cancellation reaches only its own call (`OutcomesAreTrue`); it is honoured however early (`EarlyCancelHonoured`); nothing is left after the join (`QuietAfterJoin`) |
| `requests_progress` | two calls in line, one cancelled or the server stopped | 358,000 | `EveryCallEnds` |
| `executions` | one command under a call with a crash and failing writes; a runtime that leaves its protocol; two sessions; two commands over a history of one | 653,000 | an answered outcome is the recorded one (`AnswersAreDurable`), an accepted kill names the outcome and leaves no intent behind (`IntentsAreHonoured`), a running command has one party that may act for it (`OwnershipHolds`), every execution ends (`Converges`) |
| `outputs` | two commands, eight pieces of text at most, envelopes cut anywhere | 114,000 | output is not repeated, and lost only with an error in its place (`OutputIsDelivered`), handles of all tables agree (`HandlesAgree`), pages are whole (`PagesAreWhole`) |
| `lifecycle` | eight crews of one to three commands, up to two outages, two attempts | 98,000 | one stack of layers (`LayersAreExact`), an alert for every outage (`OutagesReachTheUser`), a stop that lasts (`StopIsFinal`), and nobody waits for ever (`EverythingEnds`) |
| `privilege` | crews of two callers, two brokers, two requests | 25,300 | a broker has one owner and serves only under it (`ElevationIsOwned`), a cancellation reaches its worker (`MarkedIsSignalled`), elevation ends (`ElevationEnds`) |
| `files` | every operation on files, trees and links, in and between volumes, two failing calls | 32,900 | `NothingIsLost`, `FilesStayWhole`, `ResultsAreComplete`, `OnlyOwnFilesChange` |
| `workflow` | coding tasks and plain workflows, a crash, a failed write and an error at every step | 492,000 | a step takes effect once (`StepsRunOnce`), what is persisted was verified (`PersistedIsVerified`), the slot is held and what waits does not run (`SlotIsHeld`), an ended command settles its step (`EndedCommandIsSettled`) |
| `projection` | publishers in pairs, a window, update checks | 70,700 | `WindowIsCurrent`, `SectionsAreKept`, `ProjectionSettles` |
| `desk` | settings of every version, every pair of commands, a logon, an exit | 97,200 | `ChoicesHoldAtLogon`, `ServedIsCurrent`, `SettingsSurvive`, `DesktopResponds` |
| `driver` | a start, a recovery, a bounded command and the opening of the logs | 132,000 | nothing runs outside a job (`NoOrphanRuns`), the launch is the one asked for (`LaunchIsFaithful`), `NothingIsLeft`, `WaitsEnd` |

Why the bounds are enough. Every limit is one or two (three where a limit must be
passed by one), so that each table, queue and lane fills and refuses. The races in
the code are between two parties, with a third to observe, and every pair of kinds
of party that shares state meets in some scenario. Two attempts distinguish the
first, a later and the last. Counters that nothing reads beyond a bound are capped
by a named constant (`RejectedCap`, `MaxToken`, `MaxGen`, `MaxMade`, `MaxTries`,
`MaxProbes`). In `Outputs`, text of five pieces holds an envelope, its edges and
plain text on both sides. In `Driver`, a limit of one on an output of two passes it.

`CHECK_DEADLOCK FALSE` is set everywhere: all threads done, or a server joined, is
where the system rightly stops.

### Fairness

No fairness is assumed of users, clients, failures, other programs or a choice
of outcome.

* Scheduler: a woken worker rechecks and a holder releases its permit. The permit
  is released by `Drop`, and the operating system schedules threads.
* Requests: each worker, each cancellation in flight and the shutdown go on. Calls
  of the runtime have time limits in the code.
* Executions: the clock passes a limit, the reapers run and a crashed application
  is started again. Nothing is assumed of a process ending or of any call.
* Lifecycle: everything that goes on by itself, as one action. Driver calls have
  time limits; the watchdog ticks on a timer.
* Privilege: each caller, handler, delivery, worker, and a broker's connection and
  end. A caller's waits have time limits, except for accept (below).
* Workflow: the working call, the reconciliation and the restart.
* Projection: a publisher goes on; one that waits for the lock gets it when it is
  free again and again (strong fairness: the lock is held only for short sections);
  the watchdog and the update check tick.
* Desk: each command, the boot, the window, the exit and the recovery go on.
* Driver: driver and supervisor, the bounded command, its drains and the reaper of
  each tree go on; each wait in the code has a limit.

### Where code and documents disagree, and what the properties leave out

A property that has an exception says so in its comment. These are the behaviours
of the code that the exceptions are about.

* Requests. A refused duplicate of an active id drops the lease both share, and the
  reaper may close the session under the original (`mcp/server.rs:266`; the test at
  `session_registry.rs:290` is called
  `ttl_reaper_never_closes_a_session_with_an_active_request`). The second removal
  after the filesystem handler can delete the entry of a later call with the same
  id (`mcp/server.rs:1691`): a filesystem call is then answered a duplicate and its
  task lost, which the run covers; the task of a runtime call would never end, which
  it leaves out. The theorems about `Requests` exclude both by their hypothesis,
  `FilesystemIdsAreFresh`. A control call beside the work does not look at
  the mark of its own cancellation (`mcp/server.rs:1836`).
* Executions. A poll that meets an invalid request or a capability mismatch
  withdraws the intent of a kill accepted meanwhile (`command_control.rs:209`).
  The facade answers the status it normalised even when another thread has recorded
  a different one: an exit may be answered as completed and recorded as cancelled
  by a kill, or the other way round, or recorded as lost (`facade.rs:1145`).
  Trimming goes by start order, so the outcome of an old command may be removed as
  it is recorded (`execution_registry.rs:815`).
* Outputs. When a result cannot be recorded the error that replaces it also replaces
  the pending text it had taken, which is not put back (`facade.rs:2101`). A held
  stderr suffix is not flushed at the end; a call beside the facade
  overtakes pending text; a direct kill not seen to its end answers
  `OperationTimedOut` and its output is gone; a record ended by a direct call has no
  `output_refs`; the runtime cuts stdout pages by bytes; the observer takes any
  failed poll for the end.
* Lifecycle. A start tests its generation, then publishes Starting; a stop that
  completes in between is overwritten (`app/background.rs:1557`). A start that is
  refused because a runtime is registered has already cancelled its recovery.
* Privilege. A downgrade that completes while consent is asked for is undone
  (`privilege/control.rs:171`). A cancellation spent on a closed gate is lost when a
  new broker is enabled, so `MarkedIsSignalled` speaks of the first broker. A late
  cancellation, or a missing program, faults the broker. Accept has no time limit.
* Files. A copy cancelled after its rename leaves an unverified destination; a
  mismatch after the commit deletes it; a replacement in place may be torn by a
  crash; the clean-up of a failed tree copy deletes what others put there; a
  recursive delete may fail after deleting children; a cross-volume move that fails
  leaves both trees; write and edit ignore cancellation. A tree copy that fails
  between the making of its root and the copying leaves the empty directory. A file
  created for an edit is removed by its path when the creation fails, after its handle
  was closed, whoever wrote there last (`service.rs:674`). Failures of a
  clean-up are ignored.
* Workflow. A killed verification leaves a workflow that verify, persist and resume
  all refuse; a cancellation during edit or verify is overwritten by the next save;
  cancel, settle and a stale load share one temporary file without the facade's
  lock; an error of the reaper stops the server (`mcp/server.rs:930`). An error of
  `execute_shell` in verify puts the task back to run the same command again, although
  it may have run and may still be running.
* Projection. A crossing start and stop leave the gate open against a disabled
  intent: `work_is_authorized` (`snapshot.rs:307`) ignores the services' intent
  that `convergence.rs:238` requires. Two refreshes of the settings may land in
  the wrong order, and a command that fails after its save does not refresh them.
* Desk. Load, modify and save without a lock lose updates; a change during a staged
  start never converges (`app/background.rs:931`); a missing project folder fails
  the startup. A replacement that fails half way leaves no settings file or no
  profile, and the next start begins with the defaults: the backup file is never read.
  A save of the same tunnel without a key may write back an older epoch
  (`commands/onboarding.rs:100`), which leaves the gate open for the old key.
* Driver. A health probe later than 750 ms leaves the fault Unknown; a late
  `initialized` makes the retry fail with 400; a process created but not yet
  assigned to its job survives a crash of the application, suspended. A bounded
  command waits past its time limit while an explorer holds its pipe. A reader thread
  that cannot start leaks the job in a build that unwinds. Metadata files count by
  their fields, and files of the same name further down are not digested. A child
  gets its arguments with everything that is not Unicode replaced.

## Proofs

A theorem holds for every value of the constants that satisfies the named
assumption of its module (`SchedulerConstants`, `RequestsConstants`,
`IdentityAssumption`, `PrivilegeConstants`, ...): any number of workers, sessions,
commands, callers and brokers. Each inductive invariant was checked with TLC on the
instance of the run before it was proved. One lemma per action or kind of action
shows that it keeps one conjunct; a last lemma puts them together; the theorem
follows by temporal logic. `USE ZenonT(30), SMTT(30)` at the head of the large
modules sets the order of the provers: most steps expand one action and are quick
for Zenon; the ones with arithmetic or nested `EXCEPT` name the SMT solver.

**Scheduler** (`SchedulerProofs`). Types, exclusive slot (`SlotIsExclusive`),
tickets and waiters matched (`TicketsConserved`), no lost wakeup
(`WakeupsAreNotLost`), order of service (`ServedInOrder`), lanes and queue within
their bounds (`LanesAreAccounted`, `QueueIsBounded`), nobody admitted after close
(`ClosedStaysShut`). No property is inductive alone. That the front of the queue is
awake when the slot is free needs that blocked workers are exactly the owners of
tickets; that needs every ticket to be unique, hence arrival numbers issued once and
in order (`ArrivalOrder`); and closing empties the queue. `SchedInv` joins these.

**Requests** (`RequestsProofs`, which extends `SchedulerProofs`).
`CallsUseTheScheduler` is a refinement: every behaviour of the server is a behaviour
of the scheduler, step by step, so that the scheduler's theorems hold of the server.
`OutcomesStayTrue`, `NothingAfterJoin` and `EarlyCancelsCount` state the three
invariants of `requests_safety`. Their invariant, `RequestsInv`, says:
- what scheduler and task registry hold for a worker at each stage (`StageInv`);
- that everything that can still cancel a call (a mark, a copy under way, a sweep of
  a session) has a cause that concerns it (`BlameInv`), and that copies point to calls
  of their own request (`TargetInv`);
- that a registered request has exactly one worker (`HoldInv`), who has the guard only
  at some stages (`GuardInv`);
- that a mark made before the admission lasts until the answer is normalised
  (`EarlyInv`), and that a joined server has only finished workers (`ServerInv`).

`HoldInv` is where reuse of an id matters. The second removal after the filesystem
handler breaks it when a client reuses a filesystem call's id, so all four theorems
have the hypothesis `FilesystemIdsAreFresh`: no other call that registers uses the id
of a filesystem call. Other ids may be reused at any time.

**Executions** (`ExecutionsProofs`). `OwnershipIsKept`, `AnswersStay` and
`IntentsAreKept` state the three invariants of the run, through failed writes,
crashes and every order of the paths. They are proved in layers,
each resting on the ones before:
- `OwnershipInv`: memory is the file while the application runs; a live record's
  credential is younger than every spent one; it has an owner or can be adopted;
- `DurabilityInv`: what a call is about to answer is the outcome in the file, or the
  record is gone, and so is everything told before;
- `CallsInv`: a call that saw the command exit is right about it, and the facade is
  alone with a command it is starting;
- `IntentInv`: an intent belongs to a live command, one the reaper has just ended, or
  one whose ending thread is about to drop it; a killed command is not recorded as
  completed or failed, nor about to be, unless the runtime left its protocol;
- `StatusInv`: all that the file, the calls and the facade's answers say of a command's
  own exit is one status (`ExitInv`), nobody speaks of a cancellation that was not
  accepted (`KilledInv`, `CallerInv`), and the facade answers a status only of a record
  that has ended, and not with an error (`SaidInv`, `FacadeInv`).

What a step may do to one record is one formula (`Moves`); each action is shown to
be such a step once, and the invariants are kept by any such step.

**Privilege** (`PrivilegeProofs`). `ElevationStaysOwned` and `MarksAreSignalled` state
the invariants of the run, `DisabledBrokersEnd` the action property in
`ElevationEnds`. `PrivilegeInv` adds: a broker belongs to the lifecycle or to one
caller, generations in use are below the next one, and an open pipe has such an owner
(`OwnerInv`); a broker that is not yet activated has run nothing (`FreshInv`),
without which activation could bring work nobody waits for; the first broker is
active before any request passes its check (`FirstInv`); a mark is in `early`,
in `mail` or in the broker's flags until the work ends (`MarkInv`). A hand-over of a
broker between lifecycle and callers is one formula (`HandsOver`).

**Convergence** (`ConvergenceProofs`). The reconciler rests in exactly the states in
which work is authorised (`FixedPointIsAuthorized`), or on a stopped runtime when
services are disabled (`DisabledIsStopped`); administrator authority needs a broker
(`AuthorityNeedsABroker`), and a converged authority rests
(`ConvergedAuthorityRests`).

**Supervisor** (`SupervisorProofs`). No process runs but as a member of an open job
(`NothingRunsUnowned`), and a tree whose stop succeeded has no process left
(`StopLeavesNothing`), for any set of trees and any failures.

### What is only model-checked

- Liveness, and what mixes safety with it: `WaitersReturn`, `EveryCallEnds`,
  `Converges`, `EverythingEnds`, the rest of `ElevationEnds`, `ProjectionSettles`,
  `DesktopResponds`, `WaitsEnd`, `EndedCommandIsSettled`, and the refinement of
  `WorkSlot`, whose specification has fairness. TLAPS does not reason about
  fairness and `ENABLED` here.
- Everything about `Files` and `Outputs`, which have RECURSIVE operators (matching,
  filtering, paging). What a recursive definition computes for every input needs
  induction over data; the runs compare it with a reference definition over bounded
  inputs.
- The safety properties of `Lifecycle`, `Workflow`, `Projection`, `Desk` and of
  `Driver` above the supervisor, for which no inductive invariant has been written.

## Not modelled

- The frontend, diagnostics and the formatting of reports: presentation of what the
  backend publishes.
- Git, image and document tools, execution policy, shell and verification: each is one
  call that reads, checks or formats. In `Requests` it is a call that works and ends.
- Authentication and observation counters; HTTP and JSON parsing; the lexical rules for
  paths; access-control lists and tokens. Where they guard something that is modelled,
  they are one refusal.
- The Python runtime inside. What its sessions answer is in `Executions`, its handshake
  and health answers in `Driver`, both from how the code in `src-tauri` uses them.
- Reading, stat and hashing of files, and the grammar of patches.

`PROJECT.json` names each part with its reason.
