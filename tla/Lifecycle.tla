----------------------------- MODULE Lifecycle -----------------------------
(***************************************************************************)
(* The desktop lifecycle (app/background.rs): the threads that start,      *)
(* restart, stop, switch and retry the one production runtime, and the     *)
(* watchdog that probes and recovers it.                                   *)
(*                                                                         *)
(* A control command first cancels the recovery epoch and takes a new      *)
(* control generation, without any lock; only then does it wait for the    *)
(* operation lock, and by the time it gets it a newer command may have     *)
(* come.  The watchdog only tries the lock.  The runtime itself, one       *)
(* driver call at a time, is module Runtime.                               *)
(***************************************************************************)
EXTENDS Runtime

CONSTANTS
  Threads,     \* the threads that carry one control command each
  Kind,        \* what each of them asks: start, restart, stop, switch or retry
  Scenarios    \* [crew, up, outages]: the threads that act, whether a runtime is
               \* registered and ready at first, how many probes may fail

ASSUME LifecycleAssumption ==
  /\ "none" \notin Threads /\ "watchdog" \notin Threads
  /\ Kind \in [Threads -> {"start", "restart", "stop", "switch", "retry"}]
  /\ Scenarios \subseteq [crew : SUBSET Threads, up : BOOLEAN, outages : Nat]

VARIABLES
  thread,      \* where each thread is, and the generation it took
  generation,  \* runtime_control_generation
  active,      \* the owner holds a registered runtime
  inactive,    \* observed_inactive: the state shown when it holds none
  lock,        \* who holds runtime_operation
  refused,     \* a start has found this runtime registered (a history variable)
  outages      \* the probes that may still fail

lifeVars == <<thread, generation, active, inactive, lock, refused, outages>>
vars == <<runtimeVars, lifeVars>>

Init ==
  \E scenario \in Scenarios :
    /\ thread = [t \in Threads |->
                   [at |-> IF t \in scenario.crew THEN "idle" ELSE "done", gen |-> 0]]
    /\ generation = 0
    /\ active = scenario.up
    /\ inactive = "Stopped"
    /\ lock = "none"
    /\ refused = FALSE
    /\ outages = scenario.outages
    /\ state = IF scenario.up THEN "Ready" ELSE "Stopped"
    /\ own = [Nothing EXCEPT !.ready = scenario.up]
    /\ hand = {}
    /\ call = NoCall
    /\ tracker = NoTracker
    /\ controller = NoController
    /\ pending = NoPending
    /\ epoch = 0

-----------------------------------------------------------------------------
(* Before the lock.                                                        *)

Place(t, at) == thread' = [thread EXCEPT ![t].at = at]

\* is_current_generation
FaultyCurrent(t) == TRUE
Current(t) == thread[t].gen = generation

\* recovery_cancellation.cancel(), the first thing every command does.
Cancel(t) ==
  /\ thread[t].at = "idle"
  /\ epoch' = epoch + 1
  /\ Place(t, IF Kind[t] \in {"switch", "retry"} THEN "wait" ELSE "bump")
  /\ UNCHANGED <<state, own, hand, call, tracker, controller, pending>>
  /\ UNCHANGED <<generation, active, inactive, lock, refused, outages>>

TakeGeneration(t) ==
  /\ thread[t].at = "bump"
  /\ generation' = generation + 1
  /\ thread' = [thread EXCEPT ![t] = [at |-> IF Kind[t] = "stop" THEN "wait" ELSE "check",
                                      gen |-> generation + 1]]
  /\ UNCHANGED <<runtimeVars, active, inactive, lock, refused, outages>>

\* publish_starting_if_current looks at the generation first ...
CheckCurrent(t) ==
  /\ thread[t].at = "check"
  /\ Place(t, IF Current(t) THEN "announce" ELSE "wait")
  /\ UNCHANGED <<runtimeVars, generation, active, inactive, lock, refused, outages>>

\* ... and then takes the owner's mutex, which an attempt, a switch and a retry hold.
PublishStarting(t) ==
  /\ thread[t].at = "announce"
  /\ call.op \notin {"auto", "switch", "retry"}
  /\ inactive' = "Starting"
  /\ Place(t, "wait")
  /\ UNCHANGED <<runtimeVars, generation, active, lock, refused, outages>>

-----------------------------------------------------------------------------
(* Under the lock.                                                         *)

Acquire(t, kind) == thread[t].at = "wait" /\ Kind[t] = kind /\ lock = "none"
Enter(t) == lock' = t /\ Place(t, "run")
Leave(t) == lock' = "none" /\ Place(t, "done")
Running(t, op) == lock = t /\ call.op = op /\ call.at = "done"

AcquireStop(t) ==
  /\ Acquire(t, "stop")
  /\ \/ /\ active
        /\ active' = FALSE
        /\ BeginStop("stop")
        /\ Enter(t)
        /\ UNCHANGED inactive
     \/ /\ ~active
        /\ inactive' = "Stopped"
        /\ Leave(t)
        /\ UNCHANGED <<runtimeVars, active>>
  /\ UNCHANGED <<generation, refused, outages>>

\* Whatever failed to stop, the runtime is dropped and shown as stopped.
FinishStop(t) ==
  /\ Running(t, "stop")
  /\ Fresh("none")
  /\ inactive' = "Stopped"
  /\ Leave(t)
  /\ UNCHANGED <<generation, active, refused, outages>>

\* start_production_runtime_locked: a stale start does nothing, and so does one
\* that finds a runtime registered.
AcquireStart(t) ==
  /\ Acquire(t, "start")
  /\ \/ /\ ~Current(t)
        /\ Leave(t)
        /\ UNCHANGED <<runtimeVars, refused>>
     \/ /\ Current(t) /\ active
        /\ refused' = TRUE
        /\ Leave(t)
        /\ UNCHANGED runtimeVars
     \/ /\ Current(t) /\ ~active
        /\ Fresh("start")
        /\ Enter(t)
        /\ UNCHANGED refused
  /\ UNCHANGED <<generation, active, inactive, outages>>

AcquireRestart(t) ==
  /\ Acquire(t, "restart")
  /\ \/ /\ ~Current(t)
        /\ Leave(t)
        /\ UNCHANGED <<runtimeVars, active>>
     \/ /\ Current(t) /\ active
        /\ active' = FALSE
        /\ BeginStop("restart")
        /\ Enter(t)
     \/ /\ Current(t) /\ ~active
        /\ Fresh("start")
        /\ Enter(t)
        /\ UNCHANGED active
  /\ UNCHANGED <<generation, inactive, refused, outages>>

\* The old runtime is gone; the new one starts unless the stop failed or a newer
\* command has come.
FinishRestartStop(t) ==
  /\ Running(t, "restart")
  /\ \/ /\ call.fault = "none" /\ Current(t)
        /\ Fresh("start")
        /\ UNCHANGED <<thread, lock>>
     \/ /\ call.fault # "none" /\ Current(t)
        /\ Fresh("none")
        /\ Place(t, "fault")
        /\ UNCHANGED lock
     \/ /\ ~Current(t)
        /\ Fresh("none")
        /\ Leave(t)
  /\ UNCHANGED <<generation, active, inactive, refused, outages>>

StartFails(t) ==
  /\ Running(t, "start")
  /\ call.fault # "none"
  /\ Fresh("none")
  /\ \/ /\ Current(t)
        /\ Place(t, "fault")
        /\ UNCHANGED lock
     \/ /\ ~Current(t)
        /\ Leave(t)
  /\ UNCHANGED <<generation, active, inactive, refused, outages>>

PublishFault(t) ==
  /\ thread[t].at = "fault"
  /\ inactive' = "Faulted"
  /\ Leave(t)
  /\ UNCHANGED <<runtimeVars, generation, active, refused, outages>>

\* activate_runtime_if_current_locked looks at the generation before it registers
\* the runtime ...
Activate(t) ==
  /\ Running(t, "start")
  /\ call.fault = "none"
  /\ \/ /\ Current(t)
        /\ active' = TRUE
        /\ refused' = FALSE
        /\ state' = "Ready"
        /\ call' = NoCall
        /\ Place(t, "activated")
        /\ UNCHANGED <<own, hand, tracker, controller, pending, epoch>>
     \/ /\ ~Current(t)
        /\ BeginStop("discard")
        /\ UNCHANGED <<thread, active, refused>>
  /\ UNCHANGED <<generation, inactive, lock, outages>>

\* ... and again after.
ConfirmActivation(t) ==
  /\ thread[t].at = "activated"
  /\ \/ /\ Current(t)
        /\ Leave(t)
        /\ UNCHANGED <<runtimeVars, active>>
     \/ /\ ~Current(t)
        /\ active' = FALSE
        /\ BeginStop("discard")
        /\ Place(t, "run")
        /\ UNCHANGED lock
  /\ UNCHANGED <<generation, inactive, refused, outages>>

FinishDiscard(t) ==
  /\ Running(t, "discard")
  /\ Fresh("none")
  /\ Leave(t)
  /\ UNCHANGED <<generation, active, inactive, refused, outages>>

AcquireSwitch(t) ==
  /\ Acquire(t, "switch")
  /\ \/ ~active /\ Leave(t) /\ UNCHANGED runtimeVars
     \/ active /\ BeginStop("switch") /\ Enter(t)
  /\ UNCHANGED <<generation, active, inactive, refused, outages>>

AcquireRetry(t) ==
  /\ Acquire(t, "retry")
  /\ \/ ~active /\ Leave(t) /\ UNCHANGED runtimeVars
     \/ active /\ ManualRetry /\ Enter(t)
  /\ UNCHANGED <<generation, active, inactive, refused, outages>>

ReturnFromRuntime(t) ==
  /\ lock = t
  /\ thread[t].at = "run"
  /\ call = NoCall
  /\ Leave(t)
  /\ UNCHANGED <<runtimeVars, generation, active, inactive, refused, outages>>

-----------------------------------------------------------------------------
(* The runtime's own steps, and the watchdog's.                            *)

RuntimeStep ==
  /\ DriverStep \/ RecoveryStep \/ FinishSwitch
  /\ UNCHANGED lifeVars

\* One tick of the watchdog thread: it tries the lock and never waits for it.
Tick == lock = "none" /\ active /\ UNCHANGED <<thread, generation, active, inactive, refused>>

DropPlan == Tick /\ DropCancelledPlan /\ UNCHANGED <<lock, outages>>

BeginRecovery == Tick /\ BeginAttempt /\ lock' = "watchdog" /\ UNCHANGED outages

ProbeHealthy == Tick /\ ObserveStableReady /\ UNCHANGED <<lock, outages>>

ProbeFails ==
  /\ Tick
  /\ outages > 0
  /\ outages' = outages - 1
  /\ \E p \in ProbeFaults : BeginCooperativeAuto(p[1], p[2])
  /\ UNCHANGED lock

EndTick ==
  /\ lock = "watchdog"
  /\ call = NoCall
  /\ lock' = "none"
  /\ UNCHANGED <<runtimeVars, thread, generation, active, inactive, refused, outages>>

Acquires(t) == \/ AcquireStop(t) \/ AcquireStart(t) \/ AcquireRestart(t)
               \/ AcquireSwitch(t) \/ AcquireRetry(t)

ThreadStep(t) == \/ TakeGeneration(t) \/ CheckCurrent(t) \/ PublishStarting(t)
                 \/ FinishStop(t) \/ FinishRestartStop(t) \/ StartFails(t) \/ PublishFault(t)
                 \/ Activate(t) \/ ConfirmActivation(t) \/ FinishDiscard(t)
                 \/ ReturnFromRuntime(t)

Next ==
  \/ \E t \in Threads : Cancel(t) \/ Acquires(t) \/ ThreadStep(t)
  \/ RuntimeStep
  \/ DropPlan \/ BeginRecovery \/ ProbeHealthy \/ ProbeFails \/ EndTick

Spec == Init /\ [][Next]_vars

\* What goes on by itself: driver calls return, a thread that has begun goes on and
\* gets the lock when it is free, and the watchdog ticks.  Commands and failing
\* probes are never owed.  Weak fairness of the whole is enough, since none of its
\* parts can go on for ever.
Progress == \/ \E t \in Threads : Acquires(t) \/ ThreadStep(t)
            \/ RuntimeStep
            \/ DropPlan \/ BeginRecovery \/ EndTick

FairSpec == Spec /\ WF_vars(Progress)

-----------------------------------------------------------------------------
(* Properties.                                                             *)

\* There is never a second coding runtime: whatever was started, retained, half
\* stopped or taken into a call, at most one handle owns it (orchestrator.rs moves
\* it between ready, recovering_pep, recovering_mcp and its locals); and no tunnel
\* runs without the policy enforcement point behind it.
OneStack ==
  /\ Cardinality({h \in {"ready", "pep", "mcp"} : own[h]})
       + Cardinality(hand \cap {"mcp", "pep"}) <= 1
  /\ "tunnel" \in hand => own.pep \/ "pep" \in hand

\* start() refuses to begin over handles or in any state but Stopped; no recovery,
\* restart or switch ever brings it there.
StartIsFresh ==
  call.at = "mcp.start" => own = Nothing /\ hand = {} /\ state = "Stopped"

\* What the watchdog and the commands find between two operations: a runtime that
\* says Ready has all its layers, one that is registered never rests half started,
\* and nothing is left running that the owner does not hold.
StateAgrees ==
  lock = "none" =>
    /\ hand = {}
    /\ active => state \in {"Ready", "Recovering", "Faulted"}
    /\ active /\ state = "Ready" => own.ready
    /\ ~active => own = Nothing

\* The layers are exact: one stack, started only from nothing, and between two
\* operations the state names what runs, whichever step of a recovery, a restart
\* or a switch failed (orchestrator.rs).
LayersAreExact == OneStack /\ StartIsFresh /\ StateAgrees

\* Once the user has been alerted to an outage, its generation gets no automatic
\* attempt any more (recovery.rs, exhausted and non-recoverable generations).
AlertIsFinal ==
  pending # NoPending =>
    tracker.active.id = pending.generation /\ ~tracker.active.attention

Quiet == lock = "none" /\ \A t \in Threads : thread[t].at \in {"idle", "done"}

\* An outage nobody recovers from any more has been brought to the user, or ended
\* with a failed switch that told its caller.  The one exception is a start that
\* found the runtime registered: it has already cancelled the recovery it leaves.
NoSilentOutage ==
  (/\ Quiet /\ active /\ pending = NoPending
   /\ state \in {"Recovering", "Faulted"})
    => tracker.active.attention \/ tracker.active = NoOutage \/ refused

\* Every outage is brought to the user once, when its automatic attempts are over
\* (recovery.rs, alerts of a generation).
OutagesReachTheUser == AlertIsFinal /\ NoSilentOutage

StoppedLast == \E t \in Threads : Kind[t] = "stop" /\ Current(t) /\ generation # 0

\* When the newest command is a stop and all of them have returned, no runtime is
\* registered, however the starts and restarts before it interleaved with it.
StopIsFinal == Quiet /\ StoppedLast => ~active

\* Every command that has begun returns: none waits for ever for the lock, for the
\* layers or for the recovery it has cancelled.
ControlsEnd == (\E t \in Threads : thread[t].at \notin {"idle", "done"})
                 ~> (\A t \in Threads : thread[t].at \in {"idle", "done"})

\* Automatic recovery comes to an end: recovered, given up or cancelled.
RecoveryEnds == pending # NoPending ~> pending = NoPending

\* Commands and recoveries, which wait for and cancel each other, all end
\* (background.rs, the operation lock and the watchdog).
EverythingEnds == ControlsEnd /\ RecoveryEnds
=============================================================================
