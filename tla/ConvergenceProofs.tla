-------------------------- MODULE ConvergenceProofs --------------------------
(***************************************************************************)
(* What the pure part of the control plane guarantees for every workspace, *)
(* connection profile, broker state and runtime state.                     *)
(***************************************************************************)
EXTENDS Convergence, TLAPS

\* Any desired state, and any observation: workspaces and connections are arbitrary.
IsDesired(desired) ==
    /\ desired.permission \in Permissions
    /\ desired.services \in {"disabled", "enabled"}

IsObserved(observed) ==
    /\ observed.broker \in BrokerStates
    /\ observed.runtime \in RuntimeStates

-----------------------------------------------------------------------------
\* With the services enabled, the reconciler has nothing left to do in exactly the
\* states in which work is authorised: it never stops short of them, and it never
\* disturbs a runtime that is entitled to work (convergence.rs:286 and 238).
THEOREM FixedPointIsAuthorized ==
    ASSUME NEW desired, NEW observed, IsDesired(desired), IsObserved(observed),
           desired.services = "enabled"
    PROVE  PlanRuntime(desired, observed) = "none" <=> WorkIsAuthorized(Effective(desired, observed))
<1> DEFINE w == Derive(desired.workspace, observed.runtime, observed.workspace)
           k == Derive(desired.connection, observed.runtime, observed.connection)
           e == Effective(desired, observed)
<1>1. e.workspace = w /\ e.connection = k /\ e.services = DeriveServices(desired.services, observed.runtime)
  BY DEF Effective, DeriveWorkspace, DeriveConnection
<1>2. CASE observed.runtime = "ready"
  <2>1. e.services = "available"
    BY <1>1, <1>2 DEF DeriveServices
  <2>2. w # "not_ready" /\ k # "not_ready"
    BY <1>2 DEF Derive
  <2>3. PlanRuntime(desired, observed) = PlanReady(e)
    BY <1>2 DEF PlanRuntime
  <2> HIDE DEF e, w, k
  <2>4. PlanReady(e) = "none" <=> e.workspace = "available" /\ e.connection # "diverged"
    BY DEF PlanReady
  <2> QED BY <2>1, <2>2, <2>3, <2>4, <1>1 DEF WorkIsAuthorized, e
<1>3. CASE observed.runtime # "ready"
  <2>1. e.services # "available"
    BY <1>1, <1>3 DEF DeriveServices
  <2>2. PlanRuntime(desired, observed) # "none"
    BY <1>3 DEF PlanRuntime
  <2> QED BY <2>1, <2>2 DEF WorkIsAuthorized
<1> QED BY <1>2, <1>3

\* With the services disabled nothing is authorised, and the reconciler rests only
\* when the runtime has stopped.
THEOREM DisabledIsStopped ==
    ASSUME NEW desired, NEW observed, IsObserved(observed), desired.services = "disabled"
    PROVE  /\ ~WorkIsAuthorized(Effective(desired, observed))
           /\ PlanRuntime(desired, observed) = "none" <=> observed.runtime = "stopped"
<1>1. Effective(desired, observed).services = "disabled"
  BY DEF Effective, DeriveServices
<1>2. PlanRuntime(desired, observed) = "none" <=> observed.runtime = "stopped"
  BY DEF PlanRuntime
<1> QED BY <1>1, <1>2 DEF WorkIsAuthorized

\* Administrator authority, over execution or over paths, is effective only when it is
\* configured and a broker is active; otherwise execution is what was configured, or
\* full access while an elevated configuration waits for its broker (derive_authority).
THEOREM AuthorityNeedsABroker ==
    ASSUME NEW configured \in Permissions, NEW broker \in BrokerStates
    PROVE  LET authority == DeriveAuthority(configured, broker) IN
           /\ authority.execution = "elevated" <=> configured = "elevated" /\ broker = "active"
           /\ authority.paths = "administrator" <=> authority.execution = "elevated"
           /\ authority.execution # configured => configured = "elevated" /\ authority.execution = "full"
  BY DEF DeriveAuthority, Permissions, BrokerStates

\* An authority that is reported as converged needs no step of the reconciler, and one
\* the reconciler leaves alone is converged or waits for the user's answer.
THEOREM ConvergedAuthorityRests ==
    ASSUME NEW desired, NEW observed, IsDesired(desired), IsObserved(observed)
    PROVE  LET r == Effective(desired, observed).authority.reconciliation IN
           /\ r = "converged" => PlanPermission(desired, observed) = "none"
           /\ PlanPermission(desired, observed) = "none" => r \in {"converged", "awaiting_authorization"}
<1>1. Effective(desired, observed).authority = DeriveAuthority(desired.permission, observed.broker)
  BY DEF Effective
<1>2. CASE desired.permission = "elevated"
  BY <1>1, <1>2 DEF PlanPermission, DeriveAuthority, IsDesired, IsObserved, BrokerStates
<1>3. CASE desired.permission # "elevated"
  BY <1>1, <1>3 DEF PlanPermission, DeriveAuthority, IsDesired, IsObserved
<1> QED BY <1>2, <1>3
=============================================================================
