------------------------------ MODULE Runtime ------------------------------
(***************************************************************************)
(* The runtime orchestrator (runtime/orchestrator.rs) and its automatic    *)
(* recovery (runtime/recovery.rs): three layers, the coding runtime (MCP), *)
(* the policy enforcement point (PEP) in front of it and the tunnel in     *)
(* front of that, started bottom up, stopped top down, and restarted as    *)
(* far down as an outage reaches.                                          *)
(*                                                                         *)
(* The module has no specification of its own: Lifecycle composes its      *)
(* actions with the threads that call them.  One action is one call of     *)
(* the driver, because a control command may cancel the recovery epoch     *)
(* between any two of them.  Which call fails, and how, is a choice: the   *)
(* many RuntimeFault values are told apart only as recovery.rs tells them  *)
(* apart, "transient" (Recoverable) and "fatal" (NonRecoverable), beside   *)
(* "UserStopped".  Deadlines and the sixty seconds of stability are a      *)
(* choice of whether the clock has got there.                              *)
(***************************************************************************)
EXTENDS Naturals, FiniteSets

CONSTANT Attempts   \* the length of RECONNECT_BACKOFF_SECONDS, five in the code

ASSUME AttemptsAssumption == Attempts \in Nat \ {0}

VARIABLES
  state,        \* RuntimeState: "Starting" stands for its six starting states
  own,          \* the orchestrator's handles: ready, recovering_pep, recovering_mcp
  hand,         \* the layers the running call holds in its local variables
  call,         \* the call of the orchestrator that is running
  tracker,      \* OutageTracker: the last generation issued and the active outage
  controller,   \* RecoveryController: generation, stable_since, exhausted_generation
  pending,      \* pending_auto
  epoch         \* RecoveryCancellation's epoch

runtimeVars == <<state, own, hand, call, tracker, controller, pending, epoch>>

Components == {"tunnel", "policy", "coding"}
Faults == {"transient", "fatal"}
Nothing == [ready |-> FALSE, pep |-> FALSE, mcp |-> FALSE]
NoCall == [op |-> "none", at |-> "idle", attempt |-> 0, component |-> "none",
           fault |-> "none", dirty |-> FALSE]
NoOutage == [id |-> 0, component |-> "none", fault |-> "none", attention |-> FALSE]
NoTracker == [issued |-> 0, active |-> NoOutage]
NoController == [generation |-> 0, stable |-> FALSE, exhausted |-> 0]
NoPending == [generation |-> 0, component |-> "none", attempt |-> 0, permit |-> 0]

-----------------------------------------------------------------------------
(* Calls of the driver.                                                    *)

\* RecoveryPermit::is_cancelled: only an automatic attempt carries a permit.
Cancelled == call.op = "auto" /\ epoch # pending.permit

\* What a driver call answers.  An attempt tests its permit around every call,
\* so once cancelled no call ends well; it may still report a fault of its own.
Answers(faults) == faults \cup {IF Cancelled THEN "UserStopped" ELSE "none"}

Goto(label) == call' = [call EXCEPT !.at = label]
End(fault, dirty) == call' = [call EXCEPT !.at = "done", !.fault = fault, !.dirty = dirty]

-----------------------------------------------------------------------------
(* Minimal recovery of the tunnel, and of policy and tunnel.               *)

\* Where recover_tunnel_only goes once no tunnel is left.
BelowTunnel(held) == CASE held.pep -> "tunnel.confirm"
                       [] ~held.pep /\ held.mcp -> "policy.detach"
                       [] ~held.pep /\ ~held.mcp -> "full.tunnel"

\* The ready handles without their tunnel.
Detached == [own EXCEPT !.ready = FALSE, !.pep = @ \/ own.ready]

\* A tunnel that will not stop is put back whole.
DetachTunnel ==
  /\ call.at \in {"tunnel.detach", "policy.detach"}
  /\ \/ /\ own.ready
        /\ \E f \in Faults : End(f, FALSE)
        /\ UNCHANGED own
     \/ /\ Cancelled
        /\ End("UserStopped", FALSE)
        /\ own' \in {own, Detached}
     \/ /\ ~Cancelled
        /\ own' = Detached
        /\ Goto(IF call.at = "tunnel.detach" THEN BelowTunnel(Detached) ELSE "policy.release")
  /\ UNCHANGED <<state, hand, tracker, controller, pending, epoch>>

ConfirmRetainedPep ==
  /\ call.at = "tunnel.confirm"
  /\ \E f \in Answers({"fatal"}) :
       CASE f = "none" -> Goto("tunnel.start")
         [] f = "UserStopped" -> End(f, FALSE)
         [] f \in Faults -> Goto("policy.detach")
  /\ UNCHANGED <<state, own, hand, tracker, controller, pending, epoch>>

StartTunnelFromPep ==
  /\ call.at = "tunnel.start"
  /\ \E f \in Answers(Faults) :
       \/ f = "none" /\ hand' = {"tunnel"} /\ Goto("tunnel.ready")
       \/ f = "UserStopped" /\ hand' = {} /\ \E dirty \in BOOLEAN : End(f, dirty)
       \/ f \in Faults /\ hand' = {} /\ End(f, FALSE)
  /\ UNCHANGED <<state, own, tracker, controller, pending, epoch>>

\* The driver answers UserStopped whatever else happened once cancelled.
ConfirmTunnelOfPep ==
  /\ call.at = "tunnel.ready"
  /\ hand' = {}
  /\ \/ /\ ~Cancelled
        /\ own' = [own EXCEPT !.pep = FALSE, !.ready = TRUE]
        /\ End("none", FALSE)
     \/ /\ \E f \in (IF Cancelled THEN {"UserStopped"} ELSE Faults), dirty \in BOOLEAN :
             End(f, dirty)
        /\ UNCHANGED own
  /\ UNCHANGED <<state, tracker, controller, pending, epoch>>

\* stop_pep consumes the PEP; when it fails the coding runtime goes with it.
ReleasePep ==
  /\ call.at = "policy.release"
  /\ \/ /\ own.pep
        /\ own' = [own EXCEPT !.pep = FALSE]
        /\ \E f \in Faults : End(f, FALSE)
     \/ /\ Cancelled
        /\ End("UserStopped", FALSE)
        /\ own' \in {own, [own EXCEPT !.pep = FALSE, !.mcp = @ \/ own.pep]}
     \/ /\ ~Cancelled
        /\ own' = [own EXCEPT !.pep = FALSE, !.mcp = @ \/ own.pep]
        /\ Goto(IF own'.mcp THEN "policy.confirm" ELSE "full.tunnel")
  /\ UNCHANGED <<state, hand, tracker, controller, pending, epoch>>

\* recovering_mcp.take(): the handle moves into the call.
FaultyTaken == own
Taken == [own EXCEPT !.mcp = FALSE]

ConfirmRetainedMcp ==
  /\ call.at = "policy.confirm"
  /\ \E f \in Answers(Faults) :
       \/ /\ f = "none"
          /\ own' = Taken
          /\ hand' = {"mcp"}
          /\ Goto("policy.start")
       \/ f = "UserStopped" /\ End(f, FALSE) /\ UNCHANGED <<own, hand>>
       \/ f \in Faults /\ Goto("full.tunnel") /\ UNCHANGED <<own, hand>>
  /\ UNCHANGED <<state, tracker, controller, pending, epoch>>

\* stop_pep after a failed or cancelled step hands the coding runtime back, or fails too.
ReturnMcp(fault) ==
  \/ own' = [own EXCEPT !.mcp = TRUE] /\ End(fault, FALSE)
  \/ UNCHANGED own /\ End(fault, TRUE)

StartPepFromMcp ==
  /\ call.at = "policy.start"
  /\ \E f \in Answers(Faults) :
       \/ f = "none" /\ hand' = {"pep"} /\ Goto("policy.ready") /\ UNCHANGED own
       \/ f = "UserStopped" /\ hand' = {} /\ ReturnMcp(f)
       \/ f \in Faults /\ hand' = {} /\ End(f, FALSE) /\ UNCHANGED own
  /\ UNCHANGED <<state, tracker, controller, pending, epoch>>

ConfirmPepOfMcp ==
  /\ call.at = "policy.ready"
  /\ hand' = {}
  /\ \/ /\ own' = [own EXCEPT !.pep = TRUE]
        /\ IF Cancelled THEN End("UserStopped", FALSE) ELSE Goto("tunnel.start")
     \/ \E f \in Answers({"fatal"}) \ {"none"} : ReturnMcp(f)
  /\ UNCHANGED <<state, tracker, controller, pending, epoch>>

-----------------------------------------------------------------------------
(* stop(): every layer is given up, whatever fails; the first fault is      *)
(* remembered.                                                             *)

Remember(f) == IF call.fault = "none" THEN f ELSE call.fault

StopFaults(held) == IF held THEN Faults \cup {"none"} ELSE {"none"}

StopTunnelForExit ==
  /\ call.at = "full.tunnel"
  /\ own' = Detached
  /\ \E f \in StopFaults(own.ready) :
       call' = [call EXCEPT !.at = "full.pep", !.fault = Remember(f)]
  /\ UNCHANGED <<state, hand, tracker, controller, pending, epoch>>

StopPepForExit ==
  /\ call.at = "full.pep"
  /\ \E f \in StopFaults(own.pep) :
       /\ own' = [own EXCEPT !.pep = FALSE, !.mcp = @ \/ (own.pep /\ f = "none")]
       /\ call' = [call EXCEPT !.at = "full.mcp", !.fault = Remember(f)]
  /\ UNCHANGED <<state, hand, tracker, controller, pending, epoch>>

\* What follows a stop that went well: a switch configures, a recovery starts
\* again unless cancelled, an exit is over.
AfterStop == CASE call.op = "switch" -> "configure"
               [] call.op \in {"retry", "auto"} /\ ~Cancelled -> "mcp.start"
               [] OTHER -> "done"

FinishExitAfterTunnel ==
  /\ call.at = "full.mcp"
  /\ own' = [own EXCEPT !.mcp = FALSE]
  /\ \E f \in StopFaults(own.mcp) :
       IF Remember(f) # "none"
       THEN state' = "Faulted" /\ End(Remember(f), FALSE)
       ELSE /\ state' = "Stopped"
            /\ call' = [call EXCEPT !.at = AfterStop,
                                    !.fault = IF Cancelled THEN "UserStopped" ELSE "none"]
  /\ UNCHANGED <<hand, tracker, controller, pending, epoch>>

ConfigureWorkspace ==
  /\ call.at = "configure"
  /\ \/ Goto("mcp.start")
     \/ End("fatal", FALSE)
  /\ UNCHANGED <<state, own, hand, tracker, controller, pending, epoch>>

-----------------------------------------------------------------------------
(* start() and start_for_recovery(): one rung per call.  A rung that fails *)
(* gives up what is in hand, and `messes` says whether that may fail too.  *)

Rung(here, faults, messes, gained, next) ==
  /\ call.at = here
  /\ state' = IF call.op = "auto" THEN state ELSE "Starting"
  /\ \E f \in Answers(faults) :
       \/ f = "none" /\ hand' = gained /\ Goto(next)
       \/ f = "UserStopped" /\ hand' = {} /\ \E dirty \in BOOLEAN : End(f, dirty)
       \/ f \in Faults /\ hand' = {} /\ \E dirty \in messes : End(f, dirty)
  /\ UNCHANGED <<own, tracker, controller, pending, epoch>>

StartMcp == Rung("mcp.start", Faults, {FALSE}, {"mcp"}, "mcp.ready")
ConfirmMcpReady == Rung("mcp.ready", Faults, BOOLEAN, {"mcp"}, "pep.start")
StartPep == Rung("pep.start", Faults, {FALSE}, {"pep"}, "pep.ready")
ConfirmPepReady == Rung("pep.ready", {"fatal"}, BOOLEAN, {"pep"}, "link.start")
StartTunnel == Rung("link.start", Faults, BOOLEAN, {"pep", "tunnel"}, "link.ready")

ConfirmTunnelReady ==
  /\ call.at = "link.ready"
  /\ hand' = {}
  /\ \/ /\ ~Cancelled
        /\ own' = [own EXCEPT !.ready = TRUE]
        /\ End("none", FALSE)
     \/ /\ \E f \in (IF Cancelled THEN {"UserStopped"} ELSE Faults), dirty \in BOOLEAN :
             End(f, dirty)
        /\ UNCHANGED own
  /\ UNCHANGED <<state, tracker, controller, pending, epoch>>

DriverStep ==
  \/ DetachTunnel \/ ConfirmRetainedPep \/ StartTunnelFromPep \/ ConfirmTunnelOfPep
  \/ ReleasePep \/ ConfirmRetainedMcp \/ StartPepFromMcp \/ ConfirmPepOfMcp
  \/ StopTunnelForExit \/ StopPepForExit \/ FinishExitAfterTunnel \/ ConfigureWorkspace
  \/ StartMcp \/ ConfirmMcpReady \/ StartPep \/ ConfirmPepReady \/ StartTunnel
  \/ ConfirmTunnelReady

-----------------------------------------------------------------------------
(* Outages and their generations.                                          *)

\* OutageTracker::begin
Begun(t, component, fault) ==
  [issued |-> t.issued + 1,
   active |-> [id |-> t.issued + 1, component |-> component, fault |-> fault,
               attention |-> FALSE]]

\* OutageTracker::refresh, of the active generation only
Refreshed(t, generation, component, fault) ==
  IF t.active.id = generation /\ generation # 0
  THEN [t EXCEPT !.active.component = component, !.active.fault = fault]
  ELSE t

\* OutageTracker::mark_user_attention_required
FaultyAlerted(t, generation) == t
Alerted(t, generation) ==
  IF t.active.id = generation THEN [t EXCEPT !.active.attention = TRUE] ELSE t

Cleared(t, generation) ==
  IF t.active.id = generation THEN [t EXCEPT !.active = NoOutage] ELSE t

ScopeOf(component) == CASE component = "tunnel" -> "tunnel.detach"
                        [] component = "policy" -> "policy.detach"
                        [] component = "coding" -> "full.tunnel"

Attempting(op, component, attempt) ==
  [NoCall EXCEPT !.op = op, !.at = ScopeOf(component), !.attempt = attempt,
                 !.component = component]

\* retire_recovery_generation
Retire ==
  /\ pending' = NoPending
  /\ tracker' = Cleared(tracker, IF controller.generation # 0 THEN controller.generation
                                 ELSE tracker.active.id)
  /\ controller' = NoController

-----------------------------------------------------------------------------
(* monitor_once: what the watchdog does with the runtime.                  *)

\* A cancelled plan is dropped; the state stays what the outage made of it.
DropCancelledPlan ==
  /\ pending # NoPending
  /\ epoch # pending.permit
  /\ pending' = NoPending
  /\ UNCHANGED <<state, own, hand, call, tracker, controller, epoch>>

BeginAttempt ==
  /\ pending # NoPending
  /\ epoch = pending.permit
  /\ call' = [Attempting("auto", pending.component, pending.attempt) EXCEPT !.at = "permit"]
  /\ UNCHANGED <<state, own, hand, tracker, controller, pending, epoch>>

\* recover_minimal_cancellable, before it touches anything.
RefuseAttempt ==
  /\ call.at = "permit"
  /\ Cancelled
  /\ pending' = NoPending
  /\ call' = NoCall
  /\ UNCHANGED <<state, own, hand, tracker, controller, epoch>>

EnterAttempt ==
  /\ call.at = "permit"
  /\ ~Cancelled
  /\ state' = "Recovering"
  /\ Goto(ScopeOf(call.component))
  /\ UNCHANGED <<own, hand, tracker, controller, pending, epoch>>

\* observe_stable_ready: the first healthy probe starts the clock, a later one
\* may find that sixty seconds have passed.
ObserveStableReady ==
  /\ pending = NoPending
  /\ state = "Ready"
  /\ controller.generation # 0
  /\ \/ /\ ~controller.stable
        /\ controller' = [controller EXCEPT !.stable = TRUE]
        /\ UNCHANGED tracker
     \/ /\ controller.stable
        /\ tracker.active.id = controller.generation
        /\ tracker' = Cleared(tracker, controller.generation)
        /\ controller' = NoController
  /\ UNCHANGED <<state, own, hand, call, pending, epoch>>

\* begin_or_refresh_generation: the generation the failed probe belongs to.
Known == controller.generation # 0 /\ tracker.active.id = controller.generation
OutageOf(component, fault) ==
  IF Known THEN Refreshed(tracker, controller.generation, component, fault)
           ELSE Begun(tracker, component, fault)

\* The layer a probe finds wanting, and how: the PEP's probe has one fault.
ProbeFaults == {<<c, f>> \in Components \X Faults : c = "policy" => f = "transient"}

\* begin_cooperative_auto.  Only an outage of the coding runtime is shown at once.
BeginCooperativeAuto(component, fault) ==
  /\ pending = NoPending
  /\ state = "Ready"
  /\ LET seen == OutageOf(component, fault)
         generation == seen.active.id
     IN IF fault = "fatal"
        THEN /\ state' = "Faulted"
             /\ tracker' = Alerted(seen, generation)
             /\ controller' = [generation |-> generation, stable |-> FALSE,
                               exhausted |-> IF Known THEN controller.exhausted ELSE 0]
             /\ UNCHANGED pending
        ELSE /\ tracker' = seen
             /\ controller' = [generation |-> generation, stable |-> FALSE,
                               exhausted |-> IF Known THEN controller.exhausted ELSE 0]
             /\ IF controller'.exhausted = generation
                THEN UNCHANGED <<state, pending>>
                ELSE /\ state' = IF component = "coding" THEN "Recovering" ELSE state
                     /\ pending' = [generation |-> generation, component |-> component,
                                    attempt |-> 1, permit |-> epoch]
  /\ UNCHANGED <<own, hand, call, epoch>>

-----------------------------------------------------------------------------
(* How an attempt ends, and what the controller makes of it.               *)

LastAttempt(attempt) == attempt >= Attempts

FaultyNextAttempt(attempt) == attempt
NextAttempt(attempt) == attempt + 1

\* What is left of the automatic plan once an attempt has failed.
NextPlan(over) ==
  IF over THEN NoPending ELSE [pending EXCEPT !.attempt = NextAttempt(@)]

AttemptSucceeds ==
  /\ call.op \in {"auto", "retry"}
  /\ call.at = "done"
  /\ call.fault = "none"
  /\ state' = "Ready"
  /\ pending' = NoPending
  /\ controller' = [controller EXCEPT !.stable = TRUE, !.exhausted = 0]
  /\ call' = NoCall
  /\ UNCHANGED <<own, hand, tracker, epoch>>

\* A cancelled attempt that left nothing broken consumes no attempt and no alert.
Withdrawn == call.fault = "UserStopped" /\ ~call.dirty

AttemptIsCancelled ==
  /\ call.op = "auto"
  /\ call.at = "done"
  /\ Withdrawn
  /\ state' = "Recovering"
  /\ pending' = NoPending
  /\ call' = NoCall
  /\ UNCHANGED <<own, hand, tracker, controller, epoch>>

\* The user is alerted when a fault is final or the last attempt has failed.
AttemptFails ==
  /\ call.op \in {"auto", "retry"}
  /\ call.at = "done"
  /\ call.fault # "none" /\ ~Withdrawn
  /\ LET generation == IF call.op = "auto" THEN pending.generation ELSE controller.generation
         seen == Refreshed(tracker, generation, call.component, call.fault)
         final == call.fault # "transient"
         over == final \/ LastAttempt(call.attempt)
     IN /\ tracker' = IF over THEN Alerted(seen, generation) ELSE seen
        /\ controller' = IF over /\ ~final
                         THEN [controller EXCEPT !.exhausted = generation] ELSE controller
        /\ IF over \/ call.op = "auto"
           THEN state' = "Faulted" /\ call' = NoCall
           ELSE /\ state' = "Recovering"
                /\ call' = Attempting("retry", call.component, NextAttempt(call.attempt))
        /\ pending' = IF call.op = "auto" THEN NextPlan(over) ELSE pending
  /\ UNCHANGED <<own, hand, epoch>>

RecoveryStep == RefuseAttempt \/ EnterAttempt \/ AttemptSucceeds \/ AttemptIsCancelled \/ AttemptFails

-----------------------------------------------------------------------------
(* Control operations on a registered runtime.                             *)

\* manual_retry_current_outage: a generation of its own for the outage's fault.
ManualRetry ==
  /\ epoch' = epoch + 1
  /\ pending' = NoPending
  /\ LET outage == tracker.active
         fresh == Begun(tracker, outage.component, outage.fault)
     IN \/ /\ outage = NoOutage
           /\ UNCHANGED <<state, call, tracker, controller>>
        \/ /\ outage # NoOutage
           /\ controller' = [NoController EXCEPT !.generation = fresh.active.id]
           /\ IF outage.fault = "transient"
              THEN /\ state' = "Recovering"
                   /\ tracker' = fresh
                   /\ call' = Attempting("retry", outage.component, 1)
              ELSE /\ state' = "Faulted"
                   /\ tracker' = Alerted(fresh, fresh.active.id)
                   /\ UNCHANGED call
  /\ UNCHANGED <<own, hand>>

BeginStop(op) ==
  /\ call' = [NoCall EXCEPT !.op = op, !.at = "full.tunnel"]
  /\ UNCHANGED <<state, own, hand, tracker, controller, pending, epoch>>

\* The state a switch leaves, whether its stop, its configuration or its start failed.
SwitchedState == IF call.fault = "none" THEN "Ready" ELSE "Faulted"

\* switch_workspace_after_control_cancellation, once the switch is over: either
\* way the recovery of the old workspace is retired.
FinishSwitch ==
  /\ call.op = "switch"
  /\ call.at = "done"
  /\ state' = SwitchedState
  /\ epoch' = IF call.fault = "none" THEN epoch ELSE epoch + 1
  /\ Retire
  /\ call' = NoCall
  /\ UNCHANGED <<own, hand>>

\* A new orchestrator, with a recovery controller that has seen nothing.
Fresh(op) ==
  /\ state' = "Stopped"
  /\ own' = Nothing
  /\ hand' = {}
  /\ tracker' = NoTracker
  /\ controller' = NoController
  /\ pending' = NoPending
  /\ call' = IF op = "none" THEN NoCall ELSE [NoCall EXCEPT !.op = op, !.at = "mcp.start"]
  /\ UNCHANGED epoch
=============================================================================
