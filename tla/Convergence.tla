----------------------------- MODULE Convergence -----------------------------
(***************************************************************************)
(* The pure part of the control plane (control_plane/convergence.rs and    *)
(* control_plane/snapshot.rs): what is effective, given what is desired    *)
(* and what is observed; what the reconciler plans; and when work may be   *)
(* admitted.  Projection and Desk are built from these operators, and the  *)
(* theorems of ConvergenceProofs are about them.                           *)
(*                                                                         *)
(* A desired state is a record [permission, services, workspace,           *)
(* connection], an observation a record [broker, runtime, workspace,       *)
(* connection].  Workspaces and connection profiles are values that are    *)
(* only compared; None stands for an absent one.                           *)
(***************************************************************************)

CONSTANT None

Permissions == {"edit", "full", "elevated"}
BrokerStates == {"disabled", "requested", "awaiting", "active", "faulted"}

\* RuntimeState: the six starting states lead to one plan and one availability.
RuntimeStates == {"stopped", "starting", "ready", "recovering", "switching", "faulted"}

-----------------------------------------------------------------------------
(* Effective state.                                                        *)

DeriveAuthority(configured, broker) ==
    [configured     |-> configured,
     execution      |-> IF configured = "elevated" /\ broker # "active" THEN "full" ELSE configured,
     paths          |-> IF configured = "elevated" /\ broker = "active"
                        THEN "administrator" ELSE "workspace",
     reconciliation |->
        IF configured # "elevated"
        THEN IF broker = "disabled" THEN "converged" ELSE "disable_pending"
        ELSE CASE broker = "active"   -> "converged"
               [] broker = "disabled" -> "authorization_required"
               [] broker = "faulted"  -> "broker_unavailable"
               [] OTHER               -> "awaiting_authorization"]

\* derive_workspace and derive_connection have one shape.
Derive(desired, runtime, observed) ==
    IF desired = None THEN "not_configured"
    ELSE IF runtime # "ready" THEN "not_ready"
    ELSE IF observed # desired THEN "diverged"
    ELSE "available"

DeriveWorkspace(desired, runtime, observed) == Derive(desired, runtime, observed)
DeriveConnection(desired, runtime, observed) == Derive(desired, runtime, observed)

DeriveServices(intent, runtime) ==
    IF intent = "disabled" THEN "disabled"
    ELSE CASE runtime = "ready"   -> "available"
           [] runtime = "faulted" -> "unavailable"
           [] OTHER               -> "reconciling"

Effective(desired, observed) ==
    [authority  |-> DeriveAuthority(desired.permission, observed.broker),
     workspace  |-> DeriveWorkspace(desired.workspace, observed.runtime, observed.workspace),
     services   |-> DeriveServices(desired.services, observed.runtime),
     connection |-> DeriveConnection(desired.connection, observed.runtime, observed.connection)]

\* EffectiveState::work_is_authorized.
WorkIsAuthorized(effective) ==
    /\ effective.workspace = "available"
    /\ effective.services = "available"
    /\ effective.connection \notin {"not_ready", "diverged"}

-----------------------------------------------------------------------------
(* Reconciler::plan.                                                       *)

PlanPermission(desired, observed) ==
    CASE desired.permission = "elevated" ->
            IF observed.broker \in {"disabled", "requested", "faulted"} THEN "request" ELSE "none"
      [] OTHER -> IF observed.broker = "disabled" THEN "none" ELSE "disable"

PlanReady(effective) ==
    CASE effective.workspace = "diverged"  -> "apply"
      [] effective.workspace = "available" ->
            IF effective.connection = "diverged" THEN "restart" ELSE "none"
      [] OTHER -> "wait"

PlanRuntime(desired, observed) ==
    IF desired.services = "disabled"
    THEN IF observed.runtime = "stopped" THEN "none" ELSE "stop"
    ELSE CASE observed.runtime \in {"stopped", "faulted"} -> "start"
           [] observed.runtime = "ready" -> PlanReady(Effective(desired, observed))
           [] OTHER -> "wait"
=============================================================================
