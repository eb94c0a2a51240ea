------------------------------ MODULE Privilege ------------------------------
(***************************************************************************)
(* Administrator execution: the permission commands of the window          *)
(* (commands/ui.rs), the broker's lifecycle (privilege/control.rs), the    *)
(* elevated broker process and the pipe to it (privilege/broker.rs,        *)
(* windows.rs, protocol.rs), what it runs (privilege/execution.rs,         *)
(* filesystem.rs), and the server's privileged handlers (mcp/server.rs).   *)
(*                                                                         *)
(* Brokers are named by their generation.  A gateway call is one step: it  *)
(* holds the lifecycle lock for the whole round trip, the broker serves    *)
(* one frame at a time, and a broker that dies in the middle of it is one  *)
(* of its outcomes.  The commands of the window take no common lock: a     *)
(* caller's steps interleave with every other caller's.  The scheduler's   *)
(* one work slot admits one privileged request at a time.                  *)
(***************************************************************************)
EXTENDS Naturals, FiniteSets

CONSTANTS
    Callers,        \* threads that change the permission, start or end the application
    Call,           \* what each does: "elevate", "downgrade", "startup" or "exit"
    Reqs,           \* privileged requests
    Kind,           \* the route of each: "exec", "fs" or "legacy"
    MaxGen,         \* bound: broker launches
    MaxOwned,       \* MAX_ACTIVE_BROKER_REQUESTS
    Scenarios       \* bounds: the callers and requests of a behaviour, how often
                    \* a broker may crash and a client cancel, and whether the
                    \* application may crash and a process resist termination

Calls == {"elevate", "downgrade", "startup", "exit"}
ASSUME PrivilegeConstants ==
    /\ Call \in [Callers -> Calls]
    /\ Kind \in [Reqs -> {"exec", "fs", "legacy"}]
    /\ MaxGen \in Nat \ {0} /\ MaxOwned \in Nat \ {0}
    /\ Scenarios \subseteq [callers : SUBSET Callers, reqs : SUBSET Reqs, crashes : Nat,
                            cancels : Nat, odd : SUBSET {"crash", "stubborn"}]

VARIABLES
    desired,    \* the permission of DesiredStateOwner: "full" or "elevated"
    consent,    \* AdminConsentGate: none, pending, ripe (its delay is over), confirmed
    life,       \* BrokerLifecycle, with the generation of an active broker
    nextGen,    \* next_generation
    proc,       \* the broker process of each generation
    pipe,       \* our end of the pipe to it: none, open or closed
    work,       \* BrokerRequestOwner: the state of each request in each broker
    flagged,    \* the requests whose cancel flag is set, in each broker
    place,      \* where each caller is
    phase,      \* what a caller that disables the broker does it for
    hold,       \* the broker a caller owns outside the lifecycle
    fine,       \* whether what a caller has done so far went well
    at,         \* where each request is in its handler
    answer,     \* what each request was answered
    asked,      \* requests in state CancellationRequested
    early,      \* requests found so when their target was set
    mail,       \* cancellations about to reach the gateway
    stopping,   \* the server is stopping
    app,        \* the application: "up" or "gone"
    crashes, cancels, odd

brokerVars == <<proc, pipe, work, flagged>>
callerVars == <<place, phase, hold, fine>>
requestVars == <<at, answer, asked, early, mail, cancels>>
restVars == <<stopping, app, odd>>
vars == <<desired, consent, life, nextGen, brokerVars, callerVars, requestVars, restVars,
          crashes>>

Gens == 1..MaxGen
Alive(g) == proc[g] \notin {"none", "exited"}
Idle == [r \in Reqs |-> "absent"]

Init ==
    /\ \E scenario \in Scenarios :
         /\ place = [t \in Callers |-> IF t \in scenario.callers THEN "start" ELSE "returned"]
         /\ at = [r \in Reqs |-> IF r \in scenario.reqs THEN "idle" ELSE "done"]
         /\ crashes = scenario.crashes
         /\ cancels = scenario.cancels
         /\ odd = scenario.odd
    /\ desired = "full"
    /\ consent = "none"
    /\ life = [state |-> "disabled", gen |-> 0]
    /\ nextGen = 1
    /\ proc = [g \in Gens |-> "none"]
    /\ pipe = [g \in Gens |-> "none"]
    /\ work = [g \in Gens |-> Idle]
    /\ flagged = [g \in Gens |-> {}]
    /\ phase = [t \in Callers |-> "close"]
    /\ hold = [t \in Callers |-> 0]
    /\ fine = [t \in Callers |-> TRUE]
    /\ answer = [r \in Reqs |-> "none"]
    /\ asked = {} /\ early = {} /\ mail = {}
    /\ stopping = FALSE
    /\ app = "up"

-----------------------------------------------------------------------------
\* Handles.

\* Drop of a session closes our end of the pipe, Drop of the process terminates
\* it and waits; a process that resists lives on, without a pipe.  A new pipe
\* may be opened in the same step.
Release(gs, opened) ==
    \E resists \in SUBSET {g \in gs : Alive(g)} :
      LET ended == gs \ resists IN
      /\ resists # {} => "stubborn" \in odd
      /\ pipe' = [g \in Gens |-> IF g \in opened THEN "open"
                                 ELSE IF g \in gs THEN "closed" ELSE pipe[g]]
      /\ proc' = [g \in Gens |-> IF g \in ended THEN "exited" ELSE proc[g]]
      /\ work' = [g \in Gens |-> IF g \in ended THEN Idle ELSE work[g]]
      /\ flagged' = [g \in Gens |-> IF g \in ended THEN {} ELSE flagged[g]]

InLife == IF life.state = "active" THEN {life.gen} ELSE {}

\* PrivilegeShared::replace, and the drop of what it returns, with `more`.
Replace(state, gen, more) ==
    /\ life' = [state |-> state, gen |-> gen]
    /\ Release(InLife \cup more, {})

\* PrivilegeShared::refresh_broker_liveness
Refreshed ==
    IF life.state = "active" /\ ~Alive(life.gen)
    THEN [state |-> "faulted", gen |-> 0] ELSE life
Refresh ==
    /\ app = "up"
    /\ life' = Refreshed
    /\ life' # life
    /\ Release(InLife, {})
    /\ UNCHANGED <<desired, consent, nextGen, callerVars, requestVars, restVars, crashes>>

-----------------------------------------------------------------------------
\* The consent dialogue of the window.

\* Bound: the dialogue is open only while an elevation is still to come.
ConsentTurns(from, to) ==
    /\ app = "up"
    /\ \E t \in Callers : Call[t] = "elevate" /\ place[t] = "start"
    /\ consent \in from
    /\ consent' = to
    /\ UNCHANGED <<desired, life, nextGen, brokerVars, callerVars, requestVars, restVars,
                   crashes>>
BeginConsent == ConsentTurns({"none", "ripe", "confirmed"}, "pending")
ConsentRipens == ConsentTurns({"pending"}, "ripe")
CancelConsent == ConsentTurns({"pending", "ripe"}, "none")
ConfirmConsent == ConsentTurns({"ripe"}, "confirmed")

-----------------------------------------------------------------------------
\* PrivilegeController::disable and enable_broker, as steps of a caller.

Goes(t, to) == place' = [place EXCEPT ![t] = to]
Returns(t, ok) ==
    /\ Goes(t, "returned")
    /\ fine' = [fine EXCEPT ![t] = ok]
    /\ UNCHANGED hold
\* Where a caller goes once disable has returned.
After(why, ok) == CASE why = "downgrade" -> "downgraded"
                    [] why = "enable" -> IF ok THEN "disabled" ELSE "returned"
                    [] why = "close" -> "returned"
                    [] why = "exit" -> "closed"
otherVars == <<requestVars, restVars, crashes>>
callerStep == <<phase, consent, otherVars>>

\* disable: the lifecycle is closed first, whatever it was.  `why` says what the
\* caller disables for: a "downgrade", the "enable" that follows, the "close" that
\* the plan asks for, or the "exit".
TakeBroker(t, why) ==
    /\ life' = [state |-> "disabled", gen |-> 0]
    /\ hold' = [hold EXCEPT ![t] = IF life.state = "active" THEN life.gen ELSE 0]
    /\ phase' = [phase EXCEPT ![t] = why]
    /\ Goes(t, IF life.state = "active" THEN "shutting" ELSE After(why, TRUE))
    /\ UNCHANGED <<fine, brokerVars>>

\* BrokerClientSession::shutdown: the broker flags what it owns, acknowledges and
\* leaves its loop.  The round trip may fail before or after that, of a broker that
\* lives too; the error is kept, and our end is dropped.
ShutDown(t) ==
    LET g == hold[t] IN
    /\ place[t] = "shutting"
    /\ Goes(t, "waiting")
    /\ pipe' = [pipe EXCEPT ![g] = "closed"]
    /\ \/ /\ Alive(g)
          /\ proc' = [proc EXCEPT ![g] = "leaving"]
          /\ flagged' = [flagged EXCEPT ![g] = {r \in Reqs : work[g][r] # "absent"}]
          /\ \E heard \in BOOLEAN : fine' = [fine EXCEPT ![t] = @ /\ heard]
       \/ /\ fine' = [fine EXCEPT ![t] = FALSE]
          /\ UNCHANGED <<proc, flagged>>
    /\ UNCHANGED <<life, nextGen, desired, work, hold, callerStep>>

\* wait_for_exit, then terminate and wait again.  Each of the three may fail, which
\* ends disable with its error, whatever became of the process; the drop of the
\* process then tries to end it once more.
AwaitExit(t) ==
    /\ place[t] = "waiting"
    /\ hold' = [hold EXCEPT ![t] = 0]
    /\ Release({hold[t]}, {})
    /\ \E ok \in {FALSE, fine[t] /\ proc'[hold[t]] = "exited"} :
         /\ fine' = [fine EXCEPT ![t] = ok]
         /\ Goes(t, After(phase[t], ok))
    /\ UNCHANGED <<life, nextGen, desired, callerStep>>

\* enable_broker, once disable went well.
RequestBroker(t) ==
    /\ place[t] = "disabled"
    /\ nextGen \in Gens
    /\ nextGen' = nextGen + 1
    /\ hold' = [hold EXCEPT ![t] = nextGen]
    /\ Replace("requested", 0, {})
    /\ Goes(t, "requested")
    /\ UNCHANGED <<fine, desired, callerStep>>

\* fail: the fault replaces the lifecycle, and the caller's handles are dropped.
Fails(t) ==
    /\ Replace("faulted", 0, {hold[t]})
    /\ Goes(t, "returned")
    /\ hold' = [hold EXCEPT ![t] = 0]
    /\ fine' = [fine EXCEPT ![t] = FALSE]

CreatePipe(t) ==
    /\ place[t] = "requested"
    /\ \/ Fails(t)
       \/ /\ life' = [state |-> "awaiting", gen |-> 0]
          /\ Release(InLife, {hold[t]})
          /\ Goes(t, "awaiting")
          /\ UNCHANGED <<hold, fine>>
    /\ UNCHANGED <<desired, nextGen, callerStep>>

\* launch_broker_with_explicit_uac: the executable is not the installed one, or
\* its directory can be written by others; the user denies; or the process starts.
ExecutableRefused(t) == Fails(t)
InstallationRefused(t) == Fails(t)
AuthorizationDenied(t) == Fails(t)
Launch(t) ==
    /\ place[t] = "awaiting"
    /\ \/ ExecutableRefused(t) \/ InstallationRefused(t) \/ AuthorizationDenied(t)
       \/ /\ proc' = [proc EXCEPT ![hold[t]] = "launched"]
          /\ Goes(t, "launched")
          /\ UNCHANGED <<life, pipe, work, flagged, hold, fine>>
    /\ UNCHANGED <<desired, nextGen, callerStep>>

\* accept_elevated_client: it waits for a client without a time limit; one that
\* is not the broker is refused.
Accept(t) ==
    /\ place[t] = "launched"
    /\ proc[hold[t]] = "connected"
    /\ \/ Fails(t)
       \/ /\ Goes(t, "accepted")
          /\ UNCHANGED <<life, brokerVars, hold, fine>>
    /\ UNCHANGED <<desired, nextGen, callerStep>>

\* handshake and ping
Handshake(t) ==
    /\ place[t] = "accepted"
    /\ \/ Fails(t)
       \/ /\ Alive(hold[t])
          /\ proc' = [proc EXCEPT ![hold[t]] = "serving"]
          /\ Goes(t, "greeted")
          /\ UNCHANGED <<life, pipe, work, flagged, hold, fine>>
    /\ UNCHANGED <<desired, nextGen, callerStep>>

FaultyActivate(t) ==
    /\ place[t] = "greeted"
    /\ life' = [state |-> "active", gen |-> hold[t]]
    /\ hold' = [hold EXCEPT ![t] = 0]
    /\ Goes(t, "returned")
    /\ UNCHANGED <<brokerVars, fine, desired, nextGen, callerStep>>
Activate(t) ==
    /\ place[t] = "greeted"
    /\ Replace("active", hold[t], {})
    /\ hold' = [hold EXCEPT ![t] = 0]
    /\ Goes(t, "returned")
    /\ UNCHANGED <<fine, desired, nextGen, callerStep>>

-----------------------------------------------------------------------------
\* set_permission_mode.  A downgrade revokes a consent; an elevation spends one,
\* unless a broker is active.
AdmitMode(t) ==
    /\ place[t] = "start"
    /\ Call[t] \in {"elevate", "downgrade"}
    /\ life' = Refreshed
    /\ IF life' = life THEN UNCHANGED brokerVars ELSE Release(InLife, {})
    /\ IF Call[t] = "downgrade"
       THEN consent' = "none" /\ Goes(t, "admitted") /\ UNCHANGED <<hold, fine>>
       ELSE IF life'.state = "active" \/ consent = "confirmed"
            THEN /\ consent' = IF life'.state = "active" THEN consent ELSE "none"
                 /\ Goes(t, "admitted")
                 /\ UNCHANGED <<hold, fine>>
            ELSE Returns(t, FALSE) /\ UNCHANGED consent
    /\ UNCHANGED <<desired, nextGen, phase, otherVars>>

\* load_app_data fails, or apply_permission_transition sets the desired mode.
SetDesired(t) ==
    /\ place[t] = "admitted"
    /\ \/ Returns(t, FALSE) /\ UNCHANGED desired
       \/ /\ desired' = IF Call[t] = "elevate" THEN "elevated" ELSE "full"
          /\ Goes(t, IF Call[t] = "elevate" THEN "downgraded" ELSE "decided")
          /\ UNCHANGED <<hold, fine>>
    /\ UNCHANGED <<life, nextGen, brokerVars, callerStep>>

\* reconcile_permission_downgrade
Downgrade(t) ==
    /\ place[t] = "decided"
    /\ TakeBroker(t, "downgrade")
    /\ UNCHANGED <<desired, consent, nextGen, otherVars>>

\* store.save and refresh_settings_snapshot, either of which may fail; an error
\* of the downgrade is reported only now.
Persist(t) ==
    /\ place[t] = "downgraded"
    /\ \/ Returns(t, FALSE)
       \/ /\ fine[t]
          /\ Goes(t, "persisted")
          /\ UNCHANGED <<hold, fine>>
    /\ UNCHANGED <<desired, life, nextGen, brokerVars, callerStep>>

\* Reconciler::plan for the permission
Plan ==
    IF desired = "elevated"
    THEN IF Refreshed.state \in {"disabled", "requested", "faulted"} THEN "request" ELSE "none"
    ELSE IF Refreshed.state = "disabled" THEN "none" ELSE "disable"

\* reconcile_permission_from_explicit_action.  The plan is made, then followed:
\* disable takes the lifecycle in a step of its own.
Reconcile(t) ==
    /\ place[t] = "persisted"
    /\ life' = Refreshed
    /\ IF life' = life THEN UNCHANGED brokerVars ELSE Release(InLife, {})
    /\ CASE Plan = "request" -> Goes(t, "enabling")
         [] Plan = "disable" -> Goes(t, "closing")
         [] Plan = "none" -> Goes(t, "returned")
    /\ UNCHANGED <<desired, nextGen, hold, fine, callerStep>>

FollowPlan(t) ==
    /\ \/ place[t] = "enabling" /\ TakeBroker(t, "enable")
       \/ place[t] = "closing" /\ TakeBroker(t, "close")
    /\ UNCHANGED <<desired, consent, nextGen, otherVars>>

\* start_desktop of an elevated process: the stored permission is taken up, and
\* the broker is enabled without a consent.
StartUp(t) ==
    /\ place[t] = "start"
    /\ Call[t] = "startup"
    /\ desired' = "elevated"
    /\ UNCHANGED <<life, nextGen, brokerVars, hold, fine, callerStep>>
    /\ Goes(t, IF Plan' = "request" THEN "enabling" ELSE "returned")

\* shutdown_in_security_order: the gate is closed, then the server stops, then
\* the process ends; a crash ends it anywhere.
CloseGate(t) ==
    /\ place[t] = "start"
    /\ Call[t] = "exit"
    /\ TakeBroker(t, "exit")
    /\ UNCHANGED <<desired, consent, nextGen, otherVars>>
StopServer(t) ==
    /\ place[t] = "closed"
    /\ stopping' = TRUE
    /\ Goes(t, "stopped")
    /\ UNCHANGED <<desired, life, nextGen, brokerVars, hold, fine, phase, consent, requestVars,
                   app, odd, crashes>>
End ==
    /\ app = "up"
    /\ "crash" \in odd \/ \E t \in Callers : place[t] = "stopped"
    /\ app' = "gone"
    /\ pipe' = [g \in Gens |-> IF pipe[g] = "open" THEN "closed" ELSE pipe[g]]
    /\ UNCHANGED <<desired, consent, life, nextGen, proc, work, flagged, callerVars, requestVars,
                   stopping, odd, crashes>>

CallerSteps(t) ==
    /\ app = "up"
    /\ \/ AdmitMode(t) \/ SetDesired(t) \/ Downgrade(t) \/ Persist(t) \/ Reconcile(t)
       \/ FollowPlan(t) \/ StartUp(t) \/ CloseGate(t) \/ StopServer(t)
       \/ ShutDown(t) \/ AwaitExit(t) \/ RequestBroker(t) \/ CreatePipe(t)
       \/ Launch(t) \/ Accept(t) \/ Handshake(t) \/ Activate(t)

-----------------------------------------------------------------------------
\* PrivilegedExecutionGateway::with_session: what one call of the gateway does.

Fault == Replace("faulted", 0, {})
BrokerOutcomes == {"ok", "pending", "completed", "timed_out", "cancelled", "failed"}
GatewayOutcomes == BrokerOutcomes \cup {"closed", "broker"}
Owned(g) == {r \in Reqs : work[g][r] # "absent"}
Serves(g, r, state, flags) ==
    /\ work' = [work EXCEPT ![g][r] = state]
    /\ flagged' = [flagged EXCEPT ![g] = flags]
    /\ UNCHANGED <<life, proc, pipe>>
Refuses(out) == out = "broker" /\ Fault

\* broker_request_admission, then the worker is spawned.
StartIn(g, r, out) ==
    IF r \in Owned(g) \/ Cardinality(Owned(g)) >= MaxOwned
    THEN Refuses(out)
    ELSE out = "ok" /\ Serves(g, r, "running", flagged[g] \ {r})

\* A finished request leaves the broker with its result.  An execution that could
\* not be run is a rejection, which the client takes for a broken broker; a
\* filesystem error is a result.
PollIn(g, r, out) ==
    CASE work[g][r] = "absent" -> Refuses(out)
      [] work[g][r] = "running" -> out = "pending" /\ UNCHANGED <<life, brokerVars>>
      [] work[g][r] = "error" /\ Kind[r] = "exec" -> Refuses(out)
      [] OTHER -> /\ out = IF work[g][r] = "error" THEN "failed" ELSE work[g][r]
                  /\ Serves(g, r, "absent", flagged[g] \ {r})

\* The cancellation of a request the broker does not own is a rejection too.
CancelIn(g, r, out) ==
    IF r \in Owned(g)
    THEN out = "ok" /\ Serves(g, r, work[g][r], flagged[g] \cup {r})
    ELSE Refuses(out)

\* BrokerRequest::Filesystem: run in the broker's loop.
LegacyIn(out) ==
    \/ out = "completed" /\ UNCHANGED <<life, brokerVars>>
    \/ Refuses(out)

Gateway(op, r, out) ==
    LET g == life.gen IN
    CASE life.state # "active" -> out = "closed" /\ UNCHANGED <<life, brokerVars, crashes>>
      [] life.state = "active" /\ ~Alive(g) -> out = "closed" /\ Fault /\ UNCHANGED crashes
      [] OTHER ->
           \/ /\ CASE op = "start" -> StartIn(g, r, out)
                   [] op = "poll" -> PollIn(g, r, out)
                   [] op = "cancel" -> CancelIn(g, r, out)
                   [] op = "legacy" -> LegacyIn(out)
              /\ UNCHANGED crashes
           \/ /\ crashes > 0
              /\ crashes' = crashes - 1
              /\ Refuses(out)

-----------------------------------------------------------------------------
\* handle_administrator_filesystem and handle_elevated_exec.

Moves(r, to) == at' = [at EXCEPT ![r] = to]
Answered(r, out) ==
    /\ Moves(r, "done")
    /\ answer' = [answer EXCEPT ![r] = out]
    /\ asked' = asked \ {r}
Carries(r, to) == Moves(r, to) /\ UNCHANGED <<answer, asked>>
handlerStep == <<desired, consent, nextGen, callerVars, restVars, cancels>>

\* The work lane gives the request its slot; the administrator route is taken in
\* the elevated mode only, and for structured paths only with an active broker.
Dispatch(r) ==
    /\ at[r] = "idle"
    /\ \A other \in Reqs : at[other] \in {"idle", "done"}
    /\ ~stopping
    /\ desired = "elevated"
    /\ Kind[r] = "fs" => Refreshed.state = "active"
    /\ Carries(r, "checking")
    /\ UNCHANGED <<life, brokerVars, crashes, early, mail, handlerStep>>

\* The paths of a structured request are refused before the broker is looked at
\* (administrator_filesystem_spec), the arguments of an execution after.
PathsRefused(r) == Answered(r, "invalid")
ArgumentsRefused(r) == Answered(r, "invalid")
CheckFilesystem(r) ==
    /\ Kind[r] = "fs"
    /\ \/ PathsRefused(r) /\ UNCHANGED <<life, brokerVars>>
       \/ /\ life' = Refreshed
          /\ IF life' = life THEN UNCHANGED brokerVars ELSE Release(InLife, {})
          /\ IF life'.state = "active" THEN Carries(r, "targeting") ELSE Answered(r, "closed")
CheckElevated(r) ==
    /\ Kind[r] # "fs"
    /\ life' = Refreshed
    /\ IF life' = life THEN UNCHANGED brokerVars ELSE Release(InLife, {})
    /\ \/ life'.state # "active" /\ Answered(r, "closed")
       \/ life'.state = "active" /\ ArgumentsRefused(r)
       \/ life'.state = "active" /\ Carries(r, IF Kind[r] = "legacy" THEN "calling"
                                               ELSE "targeting")
Check(r) ==
    /\ at[r] = "checking"
    /\ CheckFilesystem(r) \/ CheckElevated(r)
    /\ UNCHANGED <<crashes, early, mail, handlerStep>>

Legacy(r) ==
    /\ at[r] = "calling"
    /\ \E out \in GatewayOutcomes : Gateway("legacy", r, out) /\ Answered(r, out)
    /\ UNCHANGED <<early, mail, handlerStep>>

\* activate_request_target; it is refused when another call of the same id changes
\* the registration between its look and its change (FsDuplicate in Requests).
FaultyTarget(r) ==
    /\ at[r] = "targeting"
    /\ Carries(r, "starting")
    /\ UNCHANGED <<early, life, brokerVars, crashes, mail, handlerStep>>
Target(r) ==
    /\ at[r] = "targeting"
    /\ \/ /\ early' = IF r \in asked THEN early \cup {r} ELSE early
          /\ Carries(r, "starting")
       \/ Answered(r, "duplicate") /\ UNCHANGED early
    /\ UNCHANGED <<life, brokerVars, crashes, mail, handlerStep>>

Start(r) ==
    /\ at[r] = "starting"
    /\ \E out \in GatewayOutcomes :
         /\ Gateway("start", r, out)
         /\ IF out = "ok" THEN Carries(r, IF r \in early THEN "cancelling" ELSE "looping")
            ELSE Answered(r, out)
    /\ UNCHANGED <<early, mail, handlerStep>>

\* The cancellation requested before the target was set; its result is ignored.
CancelEarly(r) ==
    /\ at[r] = "cancelling"
    /\ \E out \in GatewayOutcomes : Gateway("cancel", r, out)
    /\ Carries(r, "looping")
    /\ UNCHANGED <<early, mail, handlerStep>>

\* The top of the poll loop, and the poll.
Loop(r) ==
    /\ at[r] = "looping"
    /\ IF stopping THEN \E out \in GatewayOutcomes : Gateway("cancel", r, out)
       ELSE UNCHANGED <<life, brokerVars, crashes>>
    /\ Carries(r, "polling")
    /\ UNCHANGED <<early, mail, handlerStep>>
FaultyPoll(r) ==
    /\ at[r] = "polling"
    /\ \E out \in GatewayOutcomes :
         /\ Gateway("poll", r, out)
         /\ IF out \in {"pending", "broker", "closed"} THEN Carries(r, "looping")
            ELSE Answered(r, out)
    /\ UNCHANGED <<early, mail, handlerStep>>
Poll(r) ==
    /\ at[r] = "polling"
    /\ \E out \in GatewayOutcomes :
         /\ Gateway("poll", r, out)
         /\ IF out = "pending" THEN Carries(r, "looping") ELSE Answered(r, out)
    /\ UNCHANGED <<early, mail, handlerStep>>

HandlerSteps(r) ==
    /\ app = "up"
    /\ \/ Check(r) \/ Legacy(r) \/ Target(r) \/ Start(r) \/ CancelEarly(r) \/ Loop(r) \/ Poll(r)

\* A client cancels: the request is marked, and a copy of it, with the target of
\* that moment, is acted upon later by cancel_registered_request.
Targeted(r) == at[r] \in {"starting", "cancelling", "looping", "polling"}
Ask(r) ==
    /\ app = "up" /\ cancels > 0
    /\ at[r] \notin {"idle", "done"}
    /\ cancels' = cancels - 1
    /\ asked' = asked \cup {r}
    /\ mail' = IF Targeted(r) THEN mail \cup {r} ELSE mail
    /\ UNCHANGED <<desired, consent, life, nextGen, brokerVars, callerVars, restVars, at,
                   answer, early, crashes>>
Deliver(r) ==
    /\ app = "up" /\ r \in mail
    /\ \E out \in GatewayOutcomes : Gateway("cancel", r, out)
    /\ mail' = mail \ {r}
    /\ UNCHANGED <<at, answer, asked, early, handlerStep>>

-----------------------------------------------------------------------------
\* The broker process.

brokerStep == <<desired, consent, life, nextGen, callerVars, requestVars, restVars>>
Exits(g) ==
    /\ proc' = [proc EXCEPT ![g] = "exited"]
    /\ work' = [work EXCEPT ![g] = Idle]
    /\ flagged' = [flagged EXCEPT ![g] = {}]
    /\ UNCHANGED pipe

\* NamedPipeClient::connect
Connect(g) ==
    /\ proc[g] = "launched" /\ pipe[g] = "open"
    /\ proc' = [proc EXCEPT ![g] = "connected"]
    /\ UNCHANGED <<pipe, work, flagged, crashes, brokerStep>>

\* run_broker_process returns once its pipe is gone or it acknowledged a shutdown;
\* the jobs of its workers are killed with it.
Leave(g) ==
    /\ Alive(g)
    /\ proc[g] = "leaving" \/ pipe[g] = "closed"
    /\ Exits(g)
    /\ UNCHANGED <<crashes, brokerStep>>
Crash(g) ==
    /\ Alive(g) /\ crashes > 0
    /\ crashes' = crashes - 1
    /\ Exits(g)
    /\ UNCHANGED brokerStep

\* How a worker's loop ends.  A set flag is the first thing an execution sees; a
\* filesystem operation may be past its last check.
ExecEnds(flag) ==
    IF flag THEN {"cancelled", "error"} ELSE {"completed", "timed_out", "error"}
FilesystemEnds(flag) == {"completed", "error"} \cup (IF flag THEN {"cancelled"} ELSE {})
WorkerEnds(kind, flag) == IF kind = "exec" THEN ExecEnds(flag) ELSE FilesystemEnds(flag)
Worker(g, r) ==
    /\ Alive(g) /\ work[g][r] = "running"
    /\ \E end \in WorkerEnds(Kind[r], r \in flagged[g]) : work' = [work EXCEPT ![g][r] = end]
    /\ UNCHANGED <<proc, pipe, flagged, crashes, brokerStep>>

-----------------------------------------------------------------------------
Next ==
    \/ Refresh \/ BeginConsent \/ ConsentRipens \/ CancelConsent \/ ConfirmConsent \/ End
    \/ \E t \in Callers : CallerSteps(t)
    \/ \E r \in Reqs : (app = "up" /\ Dispatch(r)) \/ HandlerSteps(r) \/ Ask(r) \/ Deliver(r)
    \/ \E g \in Gens : Connect(g) \/ Leave(g) \/ Crash(g) \/ \E r \in Reqs : Worker(g, r)

Spec == Init /\ [][Next]_vars

\* Every thread of the application and of a broker runs on; the user answers the
\* authorization prompt, and a worker ends (an execution has a time limit).
Fairness ==
    /\ \A t \in Callers : WF_vars(CallerSteps(t))
    /\ \A r \in Reqs : WF_vars(HandlerSteps(r)) /\ WF_vars(Deliver(r))
    /\ \A g \in Gens : WF_vars(Connect(g)) /\ WF_vars(Leave(g))
                       /\ \A r \in Reqs : WF_vars(Worker(g, r))
FairSpec == Spec /\ Fairness

-----------------------------------------------------------------------------
\* The properties.

\* Every open pipe has one owner, the lifecycle or the thread that is launching or
\* closing the broker: a broker displaced by another, by a fault or by a downgrade
\* is dropped, so none is left elevated and reachable by nobody.
BrokerHasOneOwner ==
    \A g \in Gens : app = "up" /\ pipe[g] = "open" =>
        Cardinality({t \in Callers : hold[t] = g}) + (IF life.gen = g THEN 1 ELSE 0) = 1

\* What an active broker runs is a request whose handler is still polling for it:
\* no elevated command outlives the request that started it.
BrokerOwnsOnlyCurrent ==
    life.state = "active" =>
        \A r \in Owned(life.gen) : at[r] \in {"cancelling", "looping", "polling"}

\* Nothing elevated is unaccounted for: every reachable broker has one owner, and
\* every command it runs has a handler (control.rs, broker.rs).
ElevationIsOwned == BrokerHasOneOwner /\ BrokerOwnsOnlyCurrent

\* A cancellation that was accepted is not lost on the way: a request marked before
\* its target was set is cancelled by its handler, one marked later by the copy,
\* so once both have acted, the worker's flag is set.  It holds while one broker
\* serves: a copy that finds the gate closed between the target and the start is
\* spent, and a broker enabled in that moment runs the request unflagged.
MarkedIsSignalled ==
    \A r \in asked :
      /\ at[r] \in {"looping", "polling"} /\ r \notin mail
      /\ life.state = "active" /\ nextGen = 2
      => r \in flagged[life.gen] \/ work[life.gen][r] # "running"

\* disable reports success only when the broker process it took is gone, and all
\* the privileged work with it.
DisableEnds ==
    [][\A t \in Callers :
         place[t] = "waiting" /\ place'[t] # "waiting" /\ fine'[t]
         => proc'[hold[t]] = "exited" /\ work'[hold[t]] = Idle]_vars

\* Every privileged request is answered: an execution has a time limit, and a dead
\* or replaced broker, or a closed gate, ends the polling.
RequestsEnd == \A r \in Reqs : at[r] = "checking" ~> at[r] = "done" \/ app = "gone"

\* Every permission command returns, whatever the broker does, with one exception:
\* accept_elevated_client has no time limit, so a broker that dies before it
\* connects leaves its launcher waiting.
CallersReturn ==
    \A t \in Callers :
      place[t] # "start" ~> \/ place[t] \in {"returned", "stopped"} \/ app = "gone"
                            \/ place[t] = "launched" /\ proc[hold[t]] = "exited"

\* A broker does not outlive the application, however it ended: the closed pipe
\* ends the broker's loop.
BrokersFollowTheApp == app = "gone" ~> \A g \in Gens : ~Alive(g)

\* Elevation ends with whoever wanted it: a disabled broker is gone with its work,
\* requests and commands return, and no broker survives the application.
ElevationEnds == DisableEnds /\ RequestsEnd /\ CallersReturn /\ BrokersFollowTheApp
=============================================================================
