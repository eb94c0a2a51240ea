--------------------------- MODULE PrivilegeProofs ---------------------------
(***************************************************************************)
(* Proofs about administrator execution, for any number of callers,        *)
(* requests and broker launches: every reachable broker has one owner, an  *)
(* active broker runs only what a handler still waits for, a cancellation  *)
(* reaches the worker, and disable ends the broker it took.                *)
(***************************************************************************)
EXTENDS Privilege, FiniteSetTheorems, TLAPS

\* The provers and their time limits, unless a step names another.
USE ZenonT(30), SMTT(30)

Spots == {"start", "returned", "admitted", "decided", "downgraded", "persisted", "enabling",
          "closing", "closed", "stopped", "shutting", "waiting", "disabled", "requested",
          "awaiting", "launched", "accepted", "greeted"}
Launching == {"requested", "awaiting", "launched", "accepted", "greeted"}
Holding == Launching \cup {"shutting", "waiting"}
Asides == {"idle", "checking", "done"}
Serving == {"cancelling", "looping", "polling"}
WorkStates == {"absent", "running", "completed", "timed_out", "cancelled", "error"}

\* The controller, the brokers and the handlers have the values their code can store.
BrokersOK ==
    /\ pipe \in [Gens -> {"none", "open", "closed"}]
    /\ proc \in [Gens -> {"none", "launched", "connected", "serving", "leaving", "exited"}]
    /\ work \in [Gens -> [Reqs -> WorkStates]]
    /\ flagged \in [Gens -> SUBSET Reqs]
    /\ life \in [state : {"disabled", "requested", "awaiting", "active", "faulted"},
                 gen : 0..MaxGen]
CallersOK ==
    /\ place \in [Callers -> Spots]
    /\ phase \in [Callers -> {"downgrade", "enable", "close", "exit"}]
    /\ hold \in [Callers -> 0..MaxGen]
    /\ fine \in [Callers -> BOOLEAN]
RequestsOK ==
    /\ at \in [Reqs -> Asides \cup {"calling", "targeting", "starting"} \cup Serving]
    /\ asked \in SUBSET Reqs /\ early \in SUBSET Reqs /\ mail \in SUBSET Reqs
PrivilegeTypeOK == BrokersOK /\ CallersOK /\ RequestsOK /\ nextGen \in 1..(MaxGen + 1)

\* A broker belongs to the lifecycle or to one caller, and its pipe is closed when
\* it belongs to neither.
OwnerInv ==
    /\ life.gen # 0 <=> life.state = "active"
    /\ life.gen < nextGen
    /\ \A t \in Callers : hold[t] < nextGen /\ (hold[t] # 0 <=> place[t] \in Holding)
    /\ \A t \in Callers : hold[t] # 0 => hold[t] # life.gen
    /\ \A t, u \in Callers : hold[t] # 0 /\ hold[t] = hold[u] => t = u
    /\ \A g \in Gens :
         app = "up" /\ pipe[g] = "open" => life.gen = g \/ \E t \in Callers : hold[t] = g

\* A broker that has not been activated has run nothing.
FreshInv ==
    /\ \A t \in Callers : place[t] \in Launching => work[hold[t]] = Idle
    /\ \A g \in Gens : g >= nextGen => work[g] = Idle

\* The first broker is activated before any request gets past its check.
FirstInv ==
    /\ nextGen = 1 => \A r \in Reqs : at[r] \in Asides
    /\ nextGen = 2 /\ (life.state = "active" \/ \E r \in Reqs : at[r] \notin Asides)
       => \A t \in Callers : place[t] \notin Launching

\* A mark is on its way to the broker until the worker's flag is set.
MarkInv ==
    nextGen = 2 /\ life.state = "active" =>
        \A r \in asked :
          /\ at[r] = "starting" => r \in early \cup mail
          /\ at[r] \in {"looping", "polling"} /\ r \notin mail
             => r \in flagged[life.gen] \/ work[life.gen][r] # "running"

PrivilegeInv ==
    /\ PrivilegeTypeOK /\ OwnerInv /\ FreshInv /\ BrokerOwnsOnlyCurrent /\ FirstInv /\ MarkInv

-----------------------------------------------------------------------------
\* What a drop of handles does to a broker: its process ends with its work, or
\* (a process that resists) nothing happens to it but the loss of its pipe.
LEMMA Released ==
    ASSUME PrivilegeTypeOK, NEW gs \in SUBSET Gens, NEW opened \in SUBSET Gens,
           Release(gs, opened)
    PROVE  /\ \A g \in Gens : pipe'[g] = IF g \in opened THEN "open"
                                         ELSE IF g \in gs THEN "closed" ELSE pipe[g]
           /\ \A g \in Gens : \/ /\ proc'[g] = proc[g] /\ work'[g] = work[g]
                                 /\ flagged'[g] = flagged[g]
                                 /\ g \in gs => Alive(g)
                              \/ /\ g \in gs /\ proc'[g] = "exited" /\ work'[g] = Idle
                                 /\ flagged'[g] = {}
           /\ pipe' \in [Gens -> {"none", "open", "closed"}]
           /\ proc' \in [Gens -> {"none", "launched", "connected", "serving", "leaving", "exited"}]
           /\ work' \in [Gens -> [Reqs -> WorkStates]]
           /\ flagged' \in [Gens -> SUBSET Reqs]
<1> USE DEF PrivilegeTypeOK, BrokersOK
<1>1. PICK resists \in SUBSET {g \in gs : Alive(g)} :
        /\ pipe' = [g \in Gens |-> IF g \in opened THEN "open"
                                   ELSE IF g \in gs THEN "closed" ELSE pipe[g]]
        /\ proc' = [g \in Gens |-> IF g \in gs \ resists THEN "exited" ELSE proc[g]]
        /\ work' = [g \in Gens |-> IF g \in gs \ resists THEN Idle ELSE work[g]]
        /\ flagged' = [g \in Gens |-> IF g \in gs \ resists THEN {} ELSE flagged[g]]
  BY DEF Release
<1>2. Idle \in [Reqs -> WorkStates] BY DEF Idle, WorkStates
<1> QED BY <1>1, <1>2

\* The generation in the lifecycle is one that was launched.
LEMMA LifeGens ==
    ASSUME PrivilegeTypeOK, OwnerInv
    PROVE  InLife \in SUBSET Gens /\ (life.state = "active" => life.gen \in Gens)
BY PrivilegeConstants, SMTT(30) DEF PrivilegeTypeOK, BrokersOK, OwnerInv, InLife, Gens

\* Replacing and refreshing the lifecycle keep the brokers typed.
LEMMA ReplaceTypes ==
    ASSUME PrivilegeTypeOK, OwnerInv, NEW more \in SUBSET Gens,
           NEW state \in {"disabled", "requested", "awaiting", "active", "faulted"},
           NEW gen \in 0..MaxGen, Replace(state, gen, more)
    PROVE  BrokersOK'
<1>1. InLife \cup more \in SUBSET Gens /\ {} \in SUBSET Gens BY LifeGens
<1>2. Release(InLife \cup more, {}) /\ life' = [state |-> state, gen |-> gen] BY DEF Replace
<1> QED BY <1>1, <1>2, Released DEF BrokersOK

\* The refresh of the lifecycle keeps the types of the brokers.
LEMMA RefreshTypes ==
    ASSUME PrivilegeTypeOK, OwnerInv, life' = Refreshed,
           IF life' = life THEN UNCHANGED brokerVars ELSE Release(InLife, {})
    PROVE  BrokersOK'
<1>1. life' \in [state : {"disabled", "requested", "awaiting", "active", "faulted"},
                 gen : 0..MaxGen]
  BY PrivilegeConstants, SMTT(30) DEF Refreshed, PrivilegeTypeOK, BrokersOK
<1>2. CASE life' = life BY <1>2 DEF brokerVars, PrivilegeTypeOK, BrokersOK
<1>3. CASE life' # life BY <1>1, <1>3, Released, LifeGens DEF BrokersOK
<1> QED BY <1>2, <1>3

\* A caller's steps keep the types.
LEMMA CallerTypes ==
    ASSUME PrivilegeTypeOK, OwnerInv, NEW t \in Callers, CallerSteps(t)
    PROVE  PrivilegeTypeOK'
<1> USE PrivilegeConstants DEF PrivilegeTypeOK, Spots
<1>a. BrokersOK /\ CallersOK /\ RequestsOK /\ nextGen \in 1..(MaxGen + 1) OBVIOUS
<1>b. place[t] \in Holding => hold[t] \in Gens
  BY SMTT(30) DEF OwnerInv, CallersOK, Gens
<1>c. \A why \in {"downgrade", "enable", "close", "exit"}, ok \in BOOLEAN : After(why, ok) \in Spots
  BY DEF After
<1>d. UNCHANGED requestVars => RequestsOK' BY <1>a DEF requestVars, RequestsOK
<1>e. UNCHANGED brokerVars /\ UNCHANGED life => BrokersOK' BY <1>a DEF brokerVars, BrokersOK
<1>f. ASSUME Fails(t), place[t] \in Launching, UNCHANGED phase PROVE BrokersOK' /\ CallersOK'
  <2>1. hold[t] \in Gens BY <1>b, <1>f DEF Holding
  <2>2. BrokersOK'
    <3>1. {hold[t]} \in SUBSET Gens /\ 0 \in 0..MaxGen BY <2>1, SMTT(30)
    <3>2. Replace("faulted", 0, {hold[t]}) BY <1>f DEF Fails
    <3> QED BY <3>1, <3>2, ReplaceTypes
  <2>3. CallersOK' BY <1>a, <1>f, SMTT(30) DEF Fails, Goes, CallersOK
  <2> QED BY <2>2, <2>3
<1>g. ASSUME NEW why \in {"downgrade", "enable", "close", "exit"}, TakeBroker(t, why)
      PROVE  BrokersOK' /\ CallersOK'
  <2>1. BrokersOK' BY <1>a, <1>g, SMTT(30) DEF TakeBroker, BrokersOK, brokerVars
  <2>2. After(why, TRUE) \in Spots BY <1>c
  <2>3. life.gen \in 0..MaxGen BY <1>a DEF BrokersOK
  <2>4. CallersOK'
    <3>1. place' \in [Callers -> Spots]
      BY <1>a, <1>g, <2>2 DEF TakeBroker, Goes, CallersOK
    <3>2. hold' \in [Callers -> 0..MaxGen] BY <1>a, <1>g, <2>3, SMTT(30) DEF TakeBroker, CallersOK
    <3> QED BY <1>a, <1>g, <3>1, <3>2 DEF TakeBroker, CallersOK
  <2> QED BY <2>1, <2>4
<1>1. CASE AdmitMode(t)
  <2>1. BrokersOK' BY <1>1, RefreshTypes DEF AdmitMode
  <2>2. CallersOK' BY <1>1, <1>a DEF AdmitMode, Goes, Returns, CallersOK
  <2> QED BY <1>1, <1>a, <1>d, <2>1, <2>2 DEF AdmitMode, otherVars
<1>2. CASE SetDesired(t) \/ Persist(t)
  <2>2. CallersOK' BY <1>2, <1>a DEF SetDesired, Persist, Goes, Returns, CallersOK, callerStep
  <2> QED BY <1>2, <1>a, <1>d, <1>e, <2>2 DEF SetDesired, Persist, callerStep, otherVars
<1>3. CASE Downgrade(t) \/ FollowPlan(t) \/ CloseGate(t)
  BY <1>3, <1>a, <1>d, <1>g DEF Downgrade, FollowPlan, CloseGate, otherVars
<1>4. CASE Reconcile(t)
  <2>1. BrokersOK' BY <1>4, RefreshTypes DEF Reconcile
  <2>2. Plan \in {"request", "disable", "none"} BY DEF Plan
  <2>3. CallersOK' BY <1>4, <1>a, <2>2 DEF Reconcile, Goes, CallersOK, callerStep
  <2> QED BY <1>4, <1>a, <1>d, <2>1, <2>3 DEF Reconcile, callerStep, otherVars
<1>5. CASE StartUp(t)
  <2>2. CallersOK' BY <1>5, <1>a DEF StartUp, Goes, CallersOK, callerStep
  <2> QED BY <1>5, <1>a, <1>d, <1>e, <2>2 DEF StartUp, callerStep, otherVars
<1>6. CASE StopServer(t)
  <2>2. CallersOK' BY <1>6, <1>a DEF StopServer, Goes, CallersOK
  <2> QED BY <1>6, <1>a, <1>d, <1>e, <2>2 DEF StopServer
<1>7. CASE ShutDown(t)
  <2>1. hold[t] \in Gens BY <1>7, <1>b DEF ShutDown, Holding
  <2>2. BrokersOK'
    <3>1. pipe' \in [Gens -> {"none", "open", "closed"}] /\ work' = work /\ life' = life
      BY <1>7, <1>a, <2>1 DEF ShutDown, BrokersOK
    <3>2. proc' = [proc EXCEPT ![hold[t]] = "leaving"] \/ proc' = proc
      BY <1>7 DEF ShutDown
    <3>3. \/ flagged' = [flagged EXCEPT ![hold[t]] = {r \in Reqs : work[hold[t]][r] # "absent"}]
          \/ flagged' = flagged
      BY <1>7 DEF ShutDown
    <3>4. {r \in Reqs : work[hold[t]][r] # "absent"} \in SUBSET Reqs OBVIOUS
    <3>5. flagged' \in [Gens -> SUBSET Reqs] BY <1>a, <3>3, <3>4 DEF BrokersOK
    <3>6. proc' \in [Gens -> {"none", "launched", "connected", "serving", "leaving", "exited"}]
      BY <1>a, <3>2 DEF BrokersOK
    <3> QED BY <1>a, <3>1, <3>5, <3>6 DEF BrokersOK
  <2>4. fine' \in [Callers -> BOOLEAN] BY <1>7, <1>a DEF ShutDown, CallersOK
  <2>3. CallersOK' BY <1>7, <1>a, <2>4 DEF ShutDown, Goes, CallersOK, callerStep
  <2> QED BY <1>7, <1>a, <1>d, <2>2, <2>3 DEF ShutDown, callerStep, otherVars
<1>8. CASE AwaitExit(t)
  <2>1. hold[t] \in Gens BY <1>8, <1>b DEF AwaitExit, Holding
  <2>2. BrokersOK'
    <3>1. {hold[t]} \in SUBSET Gens /\ {} \in SUBSET Gens BY <2>1
    <3>2. Release({hold[t]}, {}) /\ life' = life BY <1>8 DEF AwaitExit
    <3> QED BY <1>a, <3>1, <3>2, Released DEF BrokersOK
  <2>7. PICK ok \in {FALSE, fine[t] /\ proc'[hold[t]] = "exited"} :
          /\ fine' = [fine EXCEPT ![t] = ok] /\ place' = [place EXCEPT ![t] = After(phase[t], ok)]
    BY <1>8 DEF AwaitExit, Goes
  <2>3. ok \in BOOLEAN /\ phase[t] \in {"downgrade", "enable", "close", "exit"}
    BY <1>a DEF CallersOK
  <2>4. hold' = [hold EXCEPT ![t] = 0] /\ phase' = phase BY <1>8 DEF AwaitExit, callerStep
  <2>5. After(phase[t], ok) \in Spots BY <1>c, <2>3
  <2>6. CallersOK' BY <1>a, <2>7, <2>3, <2>4, <2>5, SMTT(30) DEF CallersOK
  <2> QED BY <1>8, <1>a, <1>d, <2>2, <2>6 DEF AwaitExit, callerStep, otherVars
<1>9. CASE RequestBroker(t)
  <2>1. BrokersOK'
    <3>1. Replace("requested", 0, {}) /\ {} \in SUBSET Gens /\ 0 \in 0..MaxGen
      BY <1>9, SMTT(30) DEF RequestBroker
    <3> QED BY <3>1, ReplaceTypes
  <2>2. CallersOK' BY <1>9, <1>a, SMTT(30) DEF RequestBroker, Goes, CallersOK, callerStep, Gens
  <2>3. nextGen' \in 1..(MaxGen + 1) BY <1>9, SMTT(30) DEF RequestBroker, Gens
  <2> QED BY <1>9, <1>d, <2>1, <2>2, <2>3 DEF RequestBroker, callerStep, otherVars
<1>10. CASE CreatePipe(t)
  <2>1. hold[t] \in Gens /\ place[t] \in Launching BY <1>10, <1>b DEF CreatePipe, Holding,
      Launching
  <2>2. CASE Fails(t)
    BY <1>10, <1>a, <1>d, <1>f, <2>1, <2>2 DEF CreatePipe, callerStep, otherVars
  <2>3. CASE ~Fails(t)
    <3>1. BrokersOK'
      <4>1. {hold[t]} \in SUBSET Gens /\ InLife \in SUBSET Gens BY <2>1, LifeGens
      <4>2. Release(InLife, {hold[t]}) /\ life' = [state |-> "awaiting", gen |-> 0]
        BY <1>10, <2>3 DEF CreatePipe
      <4>3. life' \in [state : {"disabled", "requested", "awaiting", "active", "faulted"},
                       gen : 0..MaxGen]
        BY <4>2, SMTT(30)
      <4> QED BY <4>1, <4>2, <4>3, Released DEF BrokersOK
    <3>2. CallersOK' BY <1>10, <2>3, <1>a DEF CreatePipe, Goes, CallersOK, callerStep
    <3> QED BY <1>10, <1>a, <1>d, <3>1, <3>2 DEF CreatePipe, callerStep, otherVars
  <2> QED BY <2>2, <2>3
<1>11. CASE Launch(t) \/ Accept(t) \/ Handshake(t)
  <2>1. hold[t] \in Gens /\ place[t] \in Launching
    BY <1>11, <1>b DEF Launch, Accept, Handshake, Holding, Launching
  <2>a. UNCHANGED <<phase, requestVars, nextGen>>
    BY <1>11 DEF Launch, Accept, Handshake, callerStep, otherVars
  <2>2. CASE Fails(t) BY <1>a, <1>d, <1>f, <2>1, <2>2, <2>a
  <2>3. CASE ~Fails(t)
    <3>1. BrokersOK'
      BY <1>11, <2>1, <2>3, <1>a DEF Launch, Accept, Handshake, BrokersOK, brokerVars,
         ExecutableRefused, InstallationRefused, AuthorizationDenied
    <3>2. CallersOK'
      BY <1>11, <2>3, <2>a, <1>a DEF Launch, Accept, Handshake, Goes, CallersOK,
         ExecutableRefused, InstallationRefused, AuthorizationDenied
    <3> QED BY <1>a, <1>d, <2>a, <3>1, <3>2
  <2> QED BY <2>2, <2>3
<1>12. CASE Activate(t)
  <2>1. hold[t] \in 0..MaxGen BY <1>a DEF CallersOK
  <2>2. BrokersOK' BY <1>12, <2>1, ReplaceTypes DEF Activate
  <2>3. CallersOK' BY <1>12, <1>a, SMTT(30) DEF Activate, Goes, CallersOK, callerStep
  <2> QED BY <1>12, <1>a, <1>d, <2>2, <2>3 DEF Activate, callerStep, otherVars
<1> QED
  BY <1>1, <1>2, <1>3, <1>4, <1>5, <1>6, <1>7, <1>8, <1>9, <1>10, <1>11, <1>12
     DEF CallerSteps

-----------------------------------------------------------------------------
\* The gateway.  A call of it finds the gate closed, or faults the lifecycle and
\* drops the broker, or leaves the lifecycle alone and changes at most what the
\* active broker does for its request.
Untouched == UNCHANGED <<life, brokerVars>>
Faulted == life' = [state |-> "faulted", gen |-> 0] /\ Release(InLife, {})
ServedAs(r, state, flags) ==
    /\ life.state = "active" /\ life' = life /\ proc' = proc /\ pipe' = pipe
    /\ work' = [work EXCEPT ![life.gen][r] = state]
    /\ flagged' = [flagged EXCEPT ![life.gen] = flags]
GateClosed(out) ==
    \/ Faulted /\ out \in {"closed", "broker"}
    \/ Untouched /\ out = "closed" /\ life.state # "active"

\* A start is refused at a closed gate, or runs in the active broker with no mark left.
LEMMA GatewayStart ==
    ASSUME NEW r \in Reqs, NEW out \in GatewayOutcomes, Gateway("start", r, out)
    PROVE  \/ GateClosed(out)
           \/ out = "ok" /\ ServedAs(r, "running", flagged[life.gen] \ {r})
BY DEF Gateway, StartIn, Refuses, Fault, Replace, Serves, GateClosed, Faulted, Untouched,
   ServedAs, brokerVars

\* A poll is refused, finds the command running, or takes its result out of the broker.
LEMMA GatewayPoll ==
    ASSUME PrivilegeTypeOK, OwnerInv, NEW r \in Reqs, NEW out \in GatewayOutcomes,
           Gateway("poll", r, out)
    PROVE  \/ GateClosed(out)
           \/ out = "pending" /\ Untouched
           \/ /\ out \notin {"closed", "broker", "pending"}
              /\ ServedAs(r, "absent", flagged[life.gen] \ {r})
<1>1. life.state = "active" => work[life.gen][r] \in WorkStates
  BY LifeGens DEF PrivilegeTypeOK, BrokersOK
<1> QED
  BY <1>1 DEF Gateway, PollIn, Refuses, Fault, Replace, Serves, GateClosed, Faulted, Untouched,
     ServedAs, brokerVars, WorkStates

\* A cancellation is refused, or flags a command the broker owns.
LEMMA GatewayCancel ==
    ASSUME NEW r \in Reqs, NEW out \in GatewayOutcomes, Gateway("cancel", r, out)
    PROVE  \/ GateClosed(out)
           \/ /\ work[life.gen][r] # "absent"
              /\ ServedAs(r, work[life.gen][r], flagged[life.gen] \cup {r})
BY DEF Gateway, CancelIn, Refuses, Fault, Replace, Serves, GateClosed, Faulted, Untouched,
   ServedAs, brokerVars, Owned

\* A request of the old protocol starts nothing the broker would own.
LEMMA GatewayLegacy ==
    ASSUME NEW r \in Reqs, NEW out \in GatewayOutcomes, Gateway("legacy", r, out)
    PROVE  GateClosed(out) \/ Untouched
BY DEF Gateway, LegacyIn, Refuses, Fault, Replace, Serves, GateClosed, Faulted, Untouched,
   brokerVars

\* What the requests and the brokers by themselves may do to the lifecycle and to
\* the brokers: nothing, a fault that drops the active one, or some work in it.
Settled == life' = life /\ pipe' = pipe
Dropped ==
    /\ life' = [state |-> "faulted", gen |-> 0]
    /\ \A g \in Gens : pipe'[g] = IF g \in InLife THEN "closed" ELSE pipe[g]
    /\ \A g \in Gens : work'[g] = work[g] \/ work'[g] = Idle

\* A fault drops the active broker and its handles, and keeps the types.
LEMMA FaultDrops ==
    ASSUME PrivilegeTypeOK, OwnerInv, Faulted
    PROVE  Dropped /\ BrokersOK'
<1>1. InLife \in SUBSET Gens /\ {} \in SUBSET Gens BY LifeGens
<1>2. life' \in [state : {"disabled", "requested", "awaiting", "active", "faulted"},
                 gen : 0..MaxGen]
  BY PrivilegeConstants, SMTT(30) DEF Faulted
<1>3. Release(InLife, {}) BY DEF Faulted
<1>4. BrokersOK' BY <1>1, <1>2, <1>3, Released DEF BrokersOK
<1>5. \A g \in Gens : pipe'[g] = IF g \in {} THEN "open"
                                  ELSE IF g \in InLife THEN "closed" ELSE pipe[g]
  BY <1>1, <1>3, Released
<1>6. \A g \in Gens : work'[g] = work[g] \/ work'[g] = Idle
  BY <1>1, <1>3, Released
<1>7. Dropped BY <1>5, <1>6 DEF Faulted, Dropped
<1> QED BY <1>4, <1>7

\* An exchange with the active broker keeps the types.
LEMMA ServedTypes ==
    ASSUME PrivilegeTypeOK, OwnerInv, NEW r \in Reqs, NEW state \in WorkStates,
           NEW flags \in SUBSET Reqs, ServedAs(r, state, flags)
    PROVE  BrokersOK'
<1>1. life.gen \in Gens BY LifeGens DEF ServedAs
<1>2. work' = [work EXCEPT ![life.gen] = [@ EXCEPT ![r] = state]] BY DEF ServedAs
<1>3. [work[life.gen] EXCEPT ![r] = state] \in [Reqs -> WorkStates]
  BY <1>1 DEF PrivilegeTypeOK, BrokersOK
<1>4. work' \in [Gens -> [Reqs -> WorkStates]]
  BY <1>1, <1>2, <1>3 DEF PrivilegeTypeOK, BrokersOK
<1>5. flagged' \in [Gens -> SUBSET Reqs]
  BY <1>1 DEF ServedAs, PrivilegeTypeOK, BrokersOK
<1> QED BY <1>4, <1>5 DEF ServedAs, PrivilegeTypeOK, BrokersOK

\* The outcome of any gateway call: nothing, a fault, or work for its own request.
Works(r) == \E state \in WorkStates, flags \in SUBSET Reqs :
              ServedAs(r, state, flags) /\ flags \ {r} = flagged[life.gen] \ {r}
Alters(r) == Untouched \/ Dropped \/ (Settled /\ Works(r))

\* Whatever a gateway call does, it touches the one request or drops the broker.
LEMMA GatewayEffects ==
    ASSUME PrivilegeTypeOK, OwnerInv, NEW r \in Reqs, NEW out \in GatewayOutcomes,
           NEW op \in {"start", "poll", "cancel", "legacy"}, Gateway(op, r, out)
    PROVE  BrokersOK' /\ Alters(r)
<1>a. Untouched => BrokersOK' BY DEF Untouched, brokerVars, PrivilegeTypeOK, BrokersOK
<1>b. GateClosed(out) => (BrokersOK' /\ Alters(r)) BY <1>a, FaultDrops DEF GateClosed, Alters
<1>c. ASSUME NEW state \in WorkStates, NEW flags \in SUBSET Reqs, ServedAs(r, state, flags),
             flags \ {r} = flagged[life.gen] \ {r}
      PROVE  BrokersOK' /\ Alters(r)
  BY <1>c, ServedTypes DEF ServedAs, Settled, Works, Alters
<1>d. life.state = "active" =>
        /\ flagged[life.gen] \in SUBSET Reqs
        /\ work[life.gen][r] \in WorkStates
  BY LifeGens DEF PrivilegeTypeOK, BrokersOK
<1>e. {"running", "absent"} \subseteq WorkStates BY DEF WorkStates
<1>f. ASSUME NEW state \in WorkStates, ServedAs(r, state, flagged[life.gen] \ {r})
      PROVE  BrokersOK' /\ Alters(r)
  <2>1. flagged[life.gen] \ {r} \in SUBSET Reqs BY <1>d, <1>f DEF ServedAs
  <2> QED BY <1>c, <1>f, <2>1
<1>1. CASE op = "start" BY <1>1, <1>b, <1>e, <1>f, GatewayStart
<1>2. CASE op = "poll"
  <2>1. Untouched => Alters(r) BY DEF Alters
  <2> QED BY <1>2, <1>a, <1>b, <1>e, <1>f, <2>1, GatewayPoll
<1>3. CASE op = "cancel"
  <2>1. CASE ServedAs(r, work[life.gen][r], flagged[life.gen] \cup {r})
    <3>1. life.state = "active" BY <2>1 DEF ServedAs
    <3>2. flagged[life.gen] \cup {r} \in SUBSET Reqs /\ work[life.gen][r] \in WorkStates
      BY <1>d, <3>1
    <3> QED BY <1>c, <2>1, <3>2
  <2> QED BY <1>3, <1>b, <2>1, GatewayCancel
<1>4. CASE op = "legacy"
  <2>1. Untouched => Alters(r) BY DEF Alters
  <2> QED BY <1>4, <1>a, <1>b, <2>1, GatewayLegacy
<1> QED BY <1>1, <1>2, <1>3, <1>4

-----------------------------------------------------------------------------
\* refresh_broker_liveness leaves everything alone or drops the dead broker.
LEMMA Refreshing ==
    ASSUME life' = Refreshed, IF life' = life THEN UNCHANGED brokerVars ELSE Release(InLife, {})
    PROVE  Untouched \/ (life.state = "active" /\ Faulted)
BY DEF Refreshed, Untouched, Faulted, brokerVars

\* The steps of the handlers, the clients, the brokers and the window.
HandlerMoves(r) == Dispatch(r) \/ HandlerSteps(r)
ClientMoves(r) == Ask(r) \/ Deliver(r)
BrokerMoves == \E g \in Gens : Connect(g) \/ Leave(g) \/ Crash(g) \/ \E r \in Reqs : Worker(g, r)
WindowMoves == Refresh \/ BeginConsent \/ ConsentRipens \/ CancelConsent \/ ConfirmConsent

\* The same of a step that leaves the outcome open.
LEMMA ViaGateway ==
    ASSUME PrivilegeTypeOK, OwnerInv, NEW r \in Reqs, NEW op \in {"start", "poll", "cancel", "legacy"},
           \E out \in GatewayOutcomes : Gateway(op, r, out)
    PROVE  BrokersOK' /\ Alters(r)
<1>1. PICK out \in GatewayOutcomes : Gateway(op, r, out) OBVIOUS
<1> QED BY <1>1, GatewayEffects

\* A refresh touches nothing, or drops a broker whose process has ended.
LEMMA ViaRefresh ==
    ASSUME PrivilegeTypeOK, OwnerInv, life' = Refreshed,
           IF life' = life THEN UNCHANGED brokerVars ELSE Release(InLife, {})
    PROVE  BrokersOK' /\ (Untouched \/ Dropped)
BY RefreshTypes, Refreshing, FaultDrops

\* A handler's step moves its own request, and reaches the brokers through a
\* refresh or the gateway only.
LEMMA HandlerEffects ==
    ASSUME PrivilegeTypeOK, OwnerInv, NEW r \in Reqs, HandlerMoves(r)
    PROVE  /\ PrivilegeTypeOK'
           /\ Alters(r)
           /\ UNCHANGED <<place, hold, fine, phase, nextGen, app>>
<1> USE DEF PrivilegeTypeOK
<1>a. UNCHANGED <<life, brokerVars>> => BrokersOK' /\ Alters(r)
  BY DEF Alters, Untouched, brokerVars, BrokersOK
<1>b. UNCHANGED <<callerVars, nextGen, app>> => /\ CallersOK' /\ nextGen' \in 1..(MaxGen + 1)
                                          /\ UNCHANGED <<place, hold, fine, phase, nextGen, app>>
  BY DEF callerVars, CallersOK
<1>c. ASSUME NEW out, Answered(r, out), early' = early, mail' = mail PROVE RequestsOK'
  BY <1>c DEF Answered, Moves, RequestsOK, Asides
<1>d. ASSUME NEW to \in Asides \cup {"calling", "targeting", "starting"} \cup Serving,
             Carries(r, to), mail' = mail, early' \in SUBSET Reqs PROVE RequestsOK'
  BY <1>d DEF Carries, Moves, RequestsOK
<1>e. early \in SUBSET Reqs BY DEF RequestsOK
<1>1. CASE Dispatch(r)
  <2>1. RequestsOK' BY <1>1, <1>d, <1>e DEF Dispatch, Asides
  <2> QED BY <1>1, <1>a, <1>b, <2>1 DEF Dispatch, handlerStep, restVars
<1>2. CASE Check(r)
  <2>1. RequestsOK'
    BY <1>2, <1>c, <1>d, <1>e DEF Check, CheckFilesystem, CheckElevated, PathsRefused,
       ArgumentsRefused
  <2>2. BrokersOK' /\ Alters(r)
    BY <1>2, <1>a, ViaRefresh DEF Check, CheckFilesystem, CheckElevated, Alters
  <2> QED BY <1>2, <1>b, <2>1, <2>2 DEF Check, handlerStep, restVars
<1>3. CASE Legacy(r)
  <2>1. RequestsOK' BY <1>3, <1>c DEF Legacy
  <2>2. BrokersOK' /\ Alters(r) BY <1>3, ViaGateway DEF Legacy
  <2> QED BY <1>3, <1>b, <2>1, <2>2 DEF Legacy, handlerStep, restVars
<1>4. CASE Target(r)
  <2>1. RequestsOK' BY <1>4, <1>c, <1>d, <1>e DEF Target
  <2> QED BY <1>4, <1>a, <1>b, <2>1 DEF Target, handlerStep, restVars
<1>5. CASE Start(r)
  <2>1. RequestsOK' BY <1>5, <1>c, <1>d, <1>e DEF Start, Serving
  <2>2. BrokersOK' /\ Alters(r) BY <1>5, ViaGateway DEF Start
  <2> QED BY <1>5, <1>b, <2>1, <2>2 DEF Start, handlerStep, restVars
<1>6. CASE CancelEarly(r)
  <2>1. RequestsOK' BY <1>6, <1>d, <1>e DEF CancelEarly, Serving
  <2>2. BrokersOK' /\ Alters(r) BY <1>6, ViaGateway DEF CancelEarly
  <2> QED BY <1>6, <1>b, <2>1, <2>2 DEF CancelEarly, handlerStep, restVars
<1>7. CASE Loop(r)
  <2>1. RequestsOK' BY <1>7, <1>d, <1>e DEF Loop, Serving
  <2>2. BrokersOK' /\ Alters(r) BY <1>7, <1>a, ViaGateway DEF Loop
  <2> QED BY <1>7, <1>b, <2>1, <2>2 DEF Loop, handlerStep, restVars
<1>8. CASE Poll(r)
  <2>1. RequestsOK' BY <1>8, <1>c, <1>d, <1>e DEF Poll, Serving
  <2>2. BrokersOK' /\ Alters(r) BY <1>8, ViaGateway DEF Poll
  <2> QED BY <1>8, <1>b, <2>1, <2>2 DEF Poll, handlerStep, restVars
<1> QED BY <1>1, <1>2, <1>3, <1>4, <1>5, <1>6, <1>7, <1>8 DEF HandlerMoves, HandlerSteps

\* So does a client's, and the step of the window.
LEMMA ClientEffects ==
    ASSUME PrivilegeTypeOK, OwnerInv, NEW r \in Reqs, ClientMoves(r)
    PROVE  /\ PrivilegeTypeOK'
           /\ Alters(r)
           /\ UNCHANGED <<place, hold, fine, phase, nextGen, app>>
<1> USE DEF PrivilegeTypeOK
<1>1. CASE Ask(r)
  <2>1. RequestsOK' BY <1>1 DEF Ask, RequestsOK
  <2>2. BrokersOK' /\ Alters(r) BY <1>1 DEF Ask, Alters, Untouched, brokerVars, BrokersOK
  <2> QED BY <1>1, <2>1, <2>2 DEF Ask, callerVars, restVars, CallersOK
<1>2. CASE Deliver(r)
  <2>1. RequestsOK' BY <1>2 DEF Deliver, RequestsOK
  <2>2. BrokersOK' /\ Alters(r) BY <1>2, ViaGateway DEF Deliver
  <2> QED BY <1>2, <2>1, <2>2 DEF Deliver, handlerStep, callerVars, restVars, CallersOK
<1> QED BY <1>1, <1>2 DEF ClientMoves

\* So does the window, which moves no caller and no request.
LEMMA WindowEffects ==
    ASSUME PrivilegeTypeOK, OwnerInv, WindowMoves
    PROVE  /\ PrivilegeTypeOK'
           /\ Untouched \/ Dropped
           /\ UNCHANGED <<place, hold, fine, phase, nextGen, app, at, asked, early, mail>>
<1> USE DEF PrivilegeTypeOK
<1>1. UNCHANGED <<callerVars, nextGen, requestVars, restVars>>
  BY DEF WindowMoves, Refresh, BeginConsent, ConsentRipens, CancelConsent, ConfirmConsent,
     ConsentTurns
<1>2. BrokersOK' /\ (Untouched \/ Dropped)
  <2>1. CASE Refresh BY <2>1, ViaRefresh DEF Refresh
  <2>2. CASE ~Refresh
    BY <2>2 DEF WindowMoves, BeginConsent, ConsentRipens, CancelConsent, ConfirmConsent,
       ConsentTurns, Untouched, brokerVars, BrokersOK
  <2> QED BY <2>1, <2>2
<1> QED BY <1>1, <1>2 DEF callerVars, requestVars, restVars, CallersOK, RequestsOK

\* A broker's work ends with its process, or a worker ends.
WorkerEnded(g, r, end) ==
    /\ work[g][r] = "running" /\ flagged'[g] = flagged[g]
    /\ work'[g] = [work[g] EXCEPT ![r] = end]
WorkEnds(g) ==
    \/ work'[g] = Idle
    \/ work'[g] = work[g] /\ flagged'[g] = flagged[g]
    \/ \E r \in Reqs, end \in WorkStates \ {"absent", "running"} : WorkerEnded(g, r, end)

\* A broker's own step leaves the lifecycle, the pipes and the threads alone, and
\* only ends work.
LEMMA BrokerEffects ==
    ASSUME PrivilegeTypeOK, BrokerMoves
    PROVE  /\ PrivilegeTypeOK'
           /\ Settled
           /\ UNCHANGED <<place, hold, fine, phase, nextGen, app, at, asked, early, mail>>
           /\ \A g \in Gens : WorkEnds(g)
<1>1. PICK g \in Gens : Connect(g) \/ Leave(g) \/ Crash(g) \/ \E r \in Reqs : Worker(g, r)
  BY DEF BrokerMoves
<1>2. UNCHANGED <<life, pipe, place, hold, fine, phase, nextGen, app, at, asked, early, mail>>
  BY <1>1 DEF Connect, Leave, Crash, Worker, Exits, brokerStep, callerVars, requestVars, restVars
<1>3. Idle \in [Reqs -> WorkStates] BY DEF Idle, WorkStates
<1>4. CASE Connect(g)
  <2>1. proc' = [proc EXCEPT ![g] = "connected"] /\ UNCHANGED <<work, flagged>>
    BY <1>4 DEF Connect
  <2> QED
    BY <1>2, <2>1 DEF Settled, PrivilegeTypeOK, BrokersOK, CallersOK, RequestsOK, WorkEnds
<1>5. CASE Leave(g) \/ Crash(g)
  <2>1. /\ proc' = [proc EXCEPT ![g] = "exited"] /\ work' = [work EXCEPT ![g] = Idle]
        /\ flagged' = [flagged EXCEPT ![g] = {}]
    BY <1>5 DEF Leave, Crash, Exits
  <2>2. PrivilegeTypeOK'
    BY <1>2, <1>3, <2>1 DEF PrivilegeTypeOK, BrokersOK, CallersOK, RequestsOK
  <2>3. \A h \in Gens : WorkEnds(h) BY <2>1 DEF PrivilegeTypeOK, BrokersOK, WorkEnds
  <2> QED BY <1>2, <2>2, <2>3 DEF Settled
<1>6. CASE \E r \in Reqs : Worker(g, r)
  <2>1. PICK r \in Reqs : Worker(g, r) BY <1>6
  <2>2. PICK end \in WorkerEnds(Kind[r], r \in flagged[g]) : work' = [work EXCEPT ![g][r] = end]
    BY <2>1 DEF Worker
  <2>3. end \in WorkStates \ {"absent", "running"}
    BY <2>2 DEF WorkerEnds, ExecEnds, FilesystemEnds, WorkStates
  <2>4. UNCHANGED <<proc, flagged>> /\ work[g][r] = "running" BY <2>1 DEF Worker
  <2>5. [work[g] EXCEPT ![r] = end] \in [Reqs -> WorkStates]
    BY <2>3 DEF PrivilegeTypeOK, BrokersOK
  <2>6. work' = [work EXCEPT ![g] = [work[g] EXCEPT ![r] = end]] BY <2>2
  <2>7. PrivilegeTypeOK'
    BY <1>2, <2>4, <2>5, <2>6 DEF PrivilegeTypeOK, BrokersOK, CallersOK, RequestsOK
  <2>8. ASSUME NEW h \in Gens
        PROVE  work'[h] = work[h] \/ (h = g /\ work'[h] = [work[g] EXCEPT ![r] = end])
    BY <2>6 DEF PrivilegeTypeOK, BrokersOK
  <2>9. Settled BY <1>2 DEF Settled
  <2>10. UNCHANGED <<place, hold, fine, phase, nextGen, app, at, asked, early, mail>> BY <1>2
  <2>11. ASSUME NEW h \in Gens PROVE WorkEnds(h)
    BY <2>3, <2>4, <2>8 DEF WorkEnds, WorkerEnded
  <2> QED BY <2>7, <2>9, <2>10, <2>11
<1> QED BY <1>1, <1>4, <1>5, <1>6

\* The end of the application keeps the types.
LEMMA EndTypes ==
    ASSUME PrivilegeTypeOK, End
    PROVE  PrivilegeTypeOK'
<1>1. pipe' \in [Gens -> {"none", "open", "closed"}] BY DEF End, PrivilegeTypeOK, BrokersOK
<1> QED
  BY <1>1 DEF End, PrivilegeTypeOK, BrokersOK, CallersOK, RequestsOK, callerVars, requestVars

-----------------------------------------------------------------------------
\* Owners.  What the others do to the lifecycle leaves no broker without one: a
\* fault closes the pipe of the broker it drops.
LEMMA OthersKeepOwners ==
    ASSUME PrivilegeTypeOK, OwnerInv, Settled \/ Dropped,
           \A t \in Callers : place'[t] \in Holding <=> place[t] \in Holding,
           UNCHANGED <<hold, nextGen, app>>
    PROVE  OwnerInv'
<1>1. CASE Settled BY <1>1 DEF Settled, OwnerInv
<1>2. CASE Dropped
  <2>1. life'.state = "faulted" /\ life'.gen = 0 BY <1>2 DEF Dropped
  <2>2. ASSUME NEW g \in Gens, app' = "up", pipe'[g] = "open" PROVE \E t \in Callers : hold'[t] = g
    <3>1. pipe[g] = "open" /\ g \notin InLife BY <1>2, <2>2 DEF Dropped
    <3>2. g # 0 BY SMTT(30) DEF Gens
    <3>3. life.gen # g BY <3>1, <3>2 DEF InLife, OwnerInv
    <3> QED BY <2>2, <3>1, <3>3 DEF OwnerInv
  <2>3. 0 < nextGen BY PrivilegeConstants, SMTT(30) DEF PrivilegeTypeOK
  <2>4. (\A t \in Callers : hold[t] < nextGen /\ (hold[t] # 0 <=> place[t] \in Holding))'
    BY DEF OwnerInv
  <2>5. (\A t, u \in Callers : hold[t] # 0 /\ hold[t] = hold[u] => t = u)' BY DEF OwnerInv
  <2> QED BY <2>1, <2>2, <2>3, <2>4, <2>5 DEF OwnerInv
<1> QED BY <1>1, <1>2

\* The end of the application closes every pipe, so that nothing needs an owner.
LEMMA EndKeepsOwners == ASSUME OwnerInv, End PROVE OwnerInv'
BY DEF End, OwnerInv, callerVars

\* A caller takes a broker, from the lifecycle or a new one, or gives its own
\* back to it, or drops it: h is what it holds afterwards, p where it is.
HandsOver(t, h, p) ==
    /\ hold' = [hold EXCEPT ![t] = h] /\ place' = [place EXCEPT ![t] = p]
    /\ h # 0 <=> p \in Holding
    /\ life'.gen # 0 <=> life'.state = "active"
    /\ life'.gen < nextGen' /\ h < nextGen' /\ nextGen <= nextGen'
    /\ h # 0 => h # life'.gen /\ \A u \in Callers \ {t} : hold[u] # h
    /\ life'.gen # 0 => \A u \in Callers \ {t} : hold[u] # life'.gen
    /\ \A g \in Gens : pipe'[g] = "open" =>
         \/ g \in {h, life'.gen}
         \/ pipe[g] = "open" /\ g \notin {hold[t], life.gen}
    /\ app' = app

\* A hand-over keeps one owner per broker.
LEMMA HandedOver ==
    ASSUME PrivilegeTypeOK, OwnerInv, NEW t \in Callers, NEW h \in 0..MaxGen, NEW p \in Spots,
           life'.gen \in 0..MaxGen, nextGen' \in Nat, HandsOver(t, h, p)
    PROVE  OwnerInv'
<1>a. hold \in [Callers -> 0..MaxGen] /\ place \in [Callers -> Spots] /\ nextGen \in Nat
  BY SMTT(30) DEF PrivilegeTypeOK, CallersOK
<1>b. \A u \in Callers : /\ hold'[u] = IF u = t THEN h ELSE hold[u]
                         /\ place'[u] = IF u = t THEN p ELSE place[u]
  BY <1>a DEF HandsOver
<1>1. (\A u \in Callers : hold[u] < nextGen /\ (hold[u] # 0 <=> place[u] \in Holding))'
  <2> SUFFICES ASSUME NEW u \in Callers
               PROVE  hold'[u] < nextGen' /\ (hold'[u] # 0 <=> place'[u] \in Holding)
    OBVIOUS
  <2>1. CASE u = t BY <1>b, <2>1, SMTT(30) DEF HandsOver
  <2>2. CASE u # t
    <3>1. hold[u] < nextGen /\ hold[u] \in 0..MaxGen BY <1>a DEF OwnerInv
    <3>2. nextGen <= nextGen' BY DEF HandsOver
    <3>3. hold'[u] < nextGen' BY <1>a, <1>b, <2>2, <3>1, <3>2, PrivilegeConstants, SMTT(30)
    <3> QED BY <1>b, <2>2, <3>3 DEF OwnerInv
  <2> QED BY <2>1, <2>2
<1>2. (\A u \in Callers : hold[u] # 0 => hold[u] # life.gen)'
  BY <1>b, SMTT(30) DEF HandsOver, OwnerInv
<1>3. (\A u, v \in Callers : hold[u] # 0 /\ hold[u] = hold[v] => u = v)'
  BY <1>b, SMTT(30) DEF HandsOver, OwnerInv
<1>4. (\A g \in Gens :
         app = "up" /\ pipe[g] = "open" => life.gen = g \/ \E u \in Callers : hold[u] = g)'
  <2> SUFFICES ASSUME NEW g \in Gens, app' = "up", pipe'[g] = "open", life'.gen # g
               PROVE  \E u \in Callers : hold'[u] = g
    OBVIOUS
  <2>1. CASE g = h BY <1>b, <2>1
  <2>2. CASE g # h
    <3>1. pipe[g] = "open" /\ g # hold[t] /\ g # life.gen /\ app = "up"
      BY <2>2 DEF HandsOver
    <3>2. PICK u \in Callers : hold[u] = g BY <3>1 DEF OwnerInv
    <3> QED BY <1>b, <3>1, <3>2
  <2> QED BY <2>1, <2>2
<1>5. (life'.gen # 0 <=> life'.state = "active") /\ life'.gen < nextGen' BY DEF HandsOver
<1> QED BY <1>1, <1>2, <1>3, <1>4, <1>5 DEF OwnerInv

\* Every step of a caller moves no broker, hands one over, or drops it.
LEMMA CallerKeepsOwners ==
    ASSUME PrivilegeTypeOK, OwnerInv, NEW t \in Callers, CallerSteps(t)
    PROVE  OwnerInv'
<1> USE PrivilegeConstants
<1>b. hold \in [Callers -> 0..MaxGen] /\ place \in [Callers -> Spots]
  BY DEF PrivilegeTypeOK, CallersOK
<1>a. (place[t] \in Holding <=> hold[t] # 0) /\ (hold[t] # 0 => hold[t] \in Gens)
  BY <1>b, SMTT(30) DEF OwnerInv, Gens
<1>c. life.gen \in 0..MaxGen /\ nextGen \in 1..(MaxGen + 1) /\ hold[t] \in 0..MaxGen
  BY <1>b DEF PrivilegeTypeOK, BrokersOK
<1>d. \A g \in Gens : g # 0 BY SMTT(30) DEF Gens
<1>e. \A why \in {"downgrade", "enable", "close", "exit"}, ok \in BOOLEAN :
        After(why, ok) \in Spots \ Holding
  BY DEF After, Spots, Holding, Launching
<1>f. ASSUME Fails(t), place[t] \in Launching, UNCHANGED <<nextGen, app>> PROVE OwnerInv'
  <2>1. hold[t] \in Gens BY <1>a, <1>f DEF Holding
  <2>2. /\ life' = [state |-> "faulted", gen |-> 0] /\ Release(InLife \cup {hold[t]}, {})
        /\ hold' = [hold EXCEPT ![t] = 0] /\ place' = [place EXCEPT ![t] = "returned"]
    BY <1>f DEF Fails, Replace, Goes
  <2>4. \A g \in Gens : pipe'[g] = IF g \in {} THEN "open" ELSE
                                   IF g \in InLife \cup {hold[t]} THEN "closed" ELSE pipe[g]
    BY <2>2, SMTT(30) DEF Release
  <2>5. \A g \in Gens : g = life.gen => g \in InLife BY <1>d DEF InLife, OwnerInv
  <2>6. HandsOver(t, 0, "returned")
    BY <1>c, <1>f, <2>2, <2>4, <2>5, SMTT(30) DEF HandsOver, Holding, Launching
  <2>7. 0 \in 0..MaxGen /\ "returned" \in Spots /\ life'.gen \in 0..MaxGen /\ nextGen' \in Nat
    BY <1>c, <1>f, <2>2, SMTT(30) DEF Spots
  <2> QED BY <2>6, <2>7, HandedOver
<1>t. ASSUME NEW why \in {"downgrade", "enable", "close", "exit"}, TakeBroker(t, why),
             place[t] \notin Holding, UNCHANGED <<nextGen, app>>
      PROVE  OwnerInv'
  <2> DEFINE h == IF life.state = "active" THEN life.gen ELSE 0
  <2> DEFINE p == IF life.state = "active" THEN "shutting" ELSE After(why, TRUE)
  <2>1. /\ life' = [state |-> "disabled", gen |-> 0] /\ pipe' = pipe
        /\ hold' = [hold EXCEPT ![t] = h] /\ place' = [place EXCEPT ![t] = p]
    BY <1>t DEF TakeBroker, Goes, brokerVars
  <2>2. hold[t] = 0 BY <1>a, <1>t
  <2>3. After(why, TRUE) \in Spots \ Holding BY <1>e
  <2>4. h \in 0..MaxGen /\ p \in Spots /\ (h # 0 <=> p \in Holding)
    BY <1>c, <2>3 DEF Spots, Holding, OwnerInv
  <2>5. h = life.gen BY DEF OwnerInv
  <2> HIDE DEF h, p
  <2>6. HandsOver(t, h, p)
    <3>1. \A u \in Callers \ {t} : h # 0 => hold[u] # h BY <1>b, <2>5 DEF OwnerInv
    <3>2. 0 < nextGen' /\ h < nextGen' /\ nextGen <= nextGen' BY <1>c, <1>t, <2>5, SMTT(30)
        DEF OwnerInv
    <3>3. \A g \in Gens : pipe'[g] = "open" =>
            g \in {h, life'.gen} \/ (pipe[g] = "open" /\ g \notin {hold[t], life.gen})
      BY <1>d, <2>1, <2>2, <2>5
    <3> QED BY <1>t, <2>1, <2>4, <3>1, <3>2, <3>3 DEF HandsOver
  <2>7. life'.gen \in 0..MaxGen /\ nextGen' \in Nat BY <1>c, <1>t, <2>1, SMTT(30)
  <2> QED BY <2>4, <2>6, <2>7, HandedOver
<1>1. CASE AdmitMode(t)
  <2>1. (Settled \/ Dropped) /\ UNCHANGED <<app, nextGen, hold>>
    BY <1>1, ViaRefresh DEF AdmitMode, otherVars, restVars, Returns, Settled, Untouched,
       brokerVars
  <2>2. \E p \in {"admitted", "returned"} : place' = [place EXCEPT ![t] = p]
    BY <1>1 DEF AdmitMode, Goes, Returns
  <2>3. \A u \in Callers : place'[u] \in Holding <=> place[u] \in Holding
    BY <1>1, <1>b, <2>2 DEF AdmitMode, Holding, Launching
  <2> QED BY <2>1, <2>3, OthersKeepOwners
<1>2. CASE SetDesired(t) \/ Persist(t)
  <2>1. Settled /\ UNCHANGED <<app, nextGen, hold>>
    BY <1>2 DEF SetDesired, Persist, callerStep, otherVars, restVars, Returns, Settled, brokerVars
  <2>2. \E p \in {"returned", "downgraded", "decided", "persisted"} :
          place' = [place EXCEPT ![t] = p]
    BY <1>2 DEF SetDesired, Persist, Goes, Returns
  <2>3. \A u \in Callers : place'[u] \in Holding <=> place[u] \in Holding
    BY <1>2, <1>b, <2>2 DEF SetDesired, Persist, Holding, Launching
  <2> QED BY <2>1, <2>3, OthersKeepOwners
<1>3. CASE Downgrade(t) \/ FollowPlan(t) \/ CloseGate(t)
  <2>1. UNCHANGED <<nextGen, app>> /\ place[t] \notin Holding
    BY <1>3 DEF Downgrade, FollowPlan, CloseGate, otherVars, restVars, Holding, Launching
  <2>2. \E why \in {"downgrade", "enable", "close", "exit"} : TakeBroker(t, why)
    BY <1>3 DEF Downgrade, FollowPlan, CloseGate
  <2> QED BY <1>t, <2>1, <2>2
<1>4. CASE Reconcile(t)
  <2>1. (Settled \/ Dropped) /\ UNCHANGED <<app, nextGen, hold>>
    BY <1>4, ViaRefresh DEF Reconcile, callerStep, otherVars, restVars, Settled, Untouched,
       brokerVars
  <2>2. Plan \in {"request", "disable", "none"} BY DEF Plan
  <2>3. \E p \in {"enabling", "closing", "returned"} : place' = [place EXCEPT ![t] = p]
    BY <1>4, <2>2 DEF Reconcile, Goes
  <2>4. \A u \in Callers : place'[u] \in Holding <=> place[u] \in Holding
    BY <1>4, <1>b, <2>3 DEF Reconcile, Holding, Launching
  <2> QED BY <2>1, <2>4, OthersKeepOwners
<1>5. CASE StartUp(t) \/ StopServer(t)
  <2>1. Settled /\ UNCHANGED <<app, nextGen, hold>>
    BY <1>5 DEF StartUp, StopServer, callerStep, otherVars, restVars, Settled, brokerVars
  <2>2. \E p \in {"enabling", "returned", "stopped"} : place' = [place EXCEPT ![t] = p]
    BY <1>5 DEF StartUp, StopServer, Goes
  <2>3. \A u \in Callers : place'[u] \in Holding <=> place[u] \in Holding
    BY <1>5, <1>b, <2>2 DEF StartUp, StopServer, Holding, Launching
  <2> QED BY <2>1, <2>3, OthersKeepOwners
<1>6. CASE ShutDown(t)
  <2>1. hold[t] \in Gens /\ place' = [place EXCEPT ![t] = "waiting"]
    BY <1>6, <1>a DEF ShutDown, Holding, Goes
  <2>2. pipe' = [pipe EXCEPT ![hold[t]] = "closed"] /\ UNCHANGED <<life, hold, nextGen, app>>
    BY <1>6 DEF ShutDown, callerStep, otherVars, restVars
  <2>3. \A g \in Gens : pipe'[g] = "open" => pipe[g] = "open"
    BY <2>1, <2>2 DEF PrivilegeTypeOK, BrokersOK
  <2>4. \A u \in Callers : place'[u] \in Holding <=> place[u] \in Holding
    BY <1>6, <1>b, <2>1 DEF ShutDown, Holding
  <2> QED BY <2>2, <2>3, <2>4 DEF OwnerInv
<1>7. CASE AwaitExit(t)
  <2>1. hold[t] \in Gens /\ {hold[t]} \in SUBSET Gens /\ {} \in SUBSET Gens
    BY <1>7, <1>a DEF AwaitExit, Holding
  <2>2. Release({hold[t]}, {}) /\ UNCHANGED <<life, nextGen, app>>
    BY <1>7 DEF AwaitExit, callerStep, otherVars, restVars
  <2>3. \A g \in Gens : pipe'[g] = IF g \in {} THEN "open" ELSE
                                   IF g \in {hold[t]} THEN "closed" ELSE pipe[g]
    BY <2>2, SMTT(30) DEF Release
  <2>8. PICK ok \in {FALSE, fine[t] /\ proc'[hold[t]] = "exited"} :
          /\ fine' = [fine EXCEPT ![t] = ok] /\ place' = [place EXCEPT ![t] = After(phase[t], ok)]
    BY <1>7 DEF AwaitExit, Goes
  <2> DEFINE p == After(phase[t], ok)
  <2>4. hold' = [hold EXCEPT ![t] = 0] /\ place' = [place EXCEPT ![t] = p]
    BY <1>7, <2>8 DEF AwaitExit
  <2>5. ok \in BOOLEAN /\ phase[t] \in {"downgrade", "enable", "close", "exit"}
    BY DEF PrivilegeTypeOK, CallersOK
  <2>6. p \in Spots \ Holding BY <1>e, <2>5
  <2> HIDE DEF p
  <2>7. HandsOver(t, 0, p)
    <3>1. life.gen # 0 => \A u \in Callers \ {t} : hold[u] # life.gen BY <1>b DEF OwnerInv
    <3>2. (life.gen # 0 <=> life.state = "active") /\ life.gen < nextGen /\ 0 < nextGen
      BY <1>c, SMTT(30) DEF OwnerInv
    <3>3. \A g \in Gens : pipe'[g] = "open" =>
            g \in {0, life'.gen} \/ (pipe[g] = "open" /\ g \notin {hold[t], life.gen})
      BY <2>2, <2>3
    <3> QED BY <1>c, <2>2, <2>4, <2>6, <3>1, <3>2, <3>3, SMTT(30) DEF HandsOver
  <2>9. 0 \in 0..MaxGen /\ life'.gen \in 0..MaxGen /\ nextGen' \in Nat BY <1>c, <2>2, SMTT(30)
  <2> QED BY <2>6, <2>7, <2>9, HandedOver
<1>8. CASE RequestBroker(t)
  <2>1. /\ nextGen \in Gens /\ nextGen' = nextGen + 1 /\ hold' = [hold EXCEPT ![t] = nextGen]
        /\ life' = [state |-> "requested", gen |-> 0] /\ Release(InLife \cup {}, {})
        /\ place' = [place EXCEPT ![t] = "requested"] /\ app' = app /\ place[t] = "disabled"
    BY <1>8 DEF RequestBroker, Replace, Goes, callerStep, otherVars, restVars
  <2>2. InLife \cup {} \in SUBSET Gens /\ {} \in SUBSET Gens BY LifeGens
  <2>3. \A g \in Gens : pipe'[g] = IF g \in {} THEN "open" ELSE
                                   IF g \in InLife \cup {} THEN "closed" ELSE pipe[g]
    BY <2>1, SMTT(30) DEF Release
  <2>4. \A g \in Gens : g = life.gen => g \in InLife BY <1>d DEF InLife, OwnerInv
  <2>5. hold[t] = 0 BY <1>a, <2>1 DEF Holding, Launching
  <2>6. HandsOver(t, nextGen, "requested")
    <3>1. \A u \in Callers \ {t} : hold[u] # nextGen BY <1>b, <1>c, SMTT(30) DEF OwnerInv
    <3>2. \A g \in Gens : pipe'[g] = "open" =>
            g \in {nextGen, life'.gen} \/ (pipe[g] = "open" /\ g \notin {hold[t], life.gen})
      BY <1>d, <2>3, <2>4, <2>5
    <3> QED BY <1>c, <2>1, <3>1, <3>2, SMTT(30) DEF HandsOver, Holding, Launching
  <2>7. /\ nextGen \in 0..MaxGen /\ "requested" \in Spots /\ life'.gen \in 0..MaxGen
        /\ nextGen' \in Nat
    BY <1>c, <2>1, SMTT(30) DEF Spots, Gens
  <2> QED BY <2>6, <2>7, HandedOver
<1>9. CASE CreatePipe(t)
  <2>1. UNCHANGED <<nextGen, app>> /\ place[t] = "requested"
    BY <1>9 DEF CreatePipe, callerStep, otherVars, restVars
  <2>2. CASE Fails(t) BY <1>f, <2>1, <2>2 DEF Launching
  <2>3. CASE ~Fails(t)
    <3>1. /\ life' = [state |-> "awaiting", gen |-> 0] /\ Release(InLife, {hold[t]})
          /\ hold' = hold /\ place' = [place EXCEPT ![t] = "awaiting"]
      BY <1>9, <2>3 DEF CreatePipe, Goes
    <3>2. hold[t] \in Gens /\ {hold[t]} \in SUBSET Gens /\ InLife \in SUBSET Gens
      BY <1>a, <2>1, LifeGens DEF Holding, Launching
    <3>3. \A g \in Gens : pipe'[g] = IF g \in {hold[t]} THEN "open" ELSE
                                     IF g \in InLife THEN "closed" ELSE pipe[g]
      BY <3>1, SMTT(30) DEF Release
    <3>4. \A g \in Gens : g = life.gen => g \in InLife BY <1>d DEF InLife, OwnerInv
    <3>5. hold' = [hold EXCEPT ![t] = hold[t]] BY <1>b, <3>1
    <3>6. HandsOver(t, hold[t], "awaiting")
      <4>1. \A u \in Callers \ {t} : hold[u] # hold[t] BY <1>b, <1>d, <3>2 DEF OwnerInv
      <4>2. hold[t] < nextGen /\ 0 < nextGen /\ hold[t] # 0 BY <1>c, <1>d, <3>2, SMTT(30)
          DEF OwnerInv
      <4>3. \A g \in Gens : pipe'[g] = "open" =>
              g \in {hold[t], life'.gen} \/ (pipe[g] = "open" /\ g \notin {hold[t], life.gen})
        BY <3>3, <3>4
      <4>4. life'.gen = 0 /\ life'.state # "active" BY <3>1
      <4>5. nextGen <= nextGen' /\ nextGen' = nextGen /\ app' = app BY <1>c, <2>1, SMTT(30)
      <4>6. place' = [place EXCEPT ![t] = "awaiting"] /\ "awaiting" \in Holding
        BY <3>1 DEF Holding, Launching
      <4> QED BY <3>5, <4>1, <4>2, <4>3, <4>4, <4>5, <4>6 DEF HandsOver
    <3>7. "awaiting" \in Spots /\ life'.gen \in 0..MaxGen /\ nextGen' \in Nat
      BY <1>c, <2>1, <3>1, SMTT(30) DEF Spots
    <3> QED BY <1>c, <3>6, <3>7, HandedOver
  <2> QED BY <2>2, <2>3
<1>10. CASE Launch(t) \/ Accept(t) \/ Handshake(t)
  <2>1. UNCHANGED <<nextGen, app>> /\ place[t] \in Launching
    BY <1>10 DEF Launch, Accept, Handshake, callerStep, otherVars, restVars, Launching
  <2>2. CASE Fails(t) BY <1>f, <2>1, <2>2
  <2>3. CASE ~Fails(t)
    <3>1. Settled /\ hold' = hold
      BY <1>10, <2>3 DEF Launch, Accept, Handshake, ExecutableRefused, InstallationRefused,
         AuthorizationDenied, Settled, brokerVars
    <3>2. \E p \in {"launched", "accepted", "greeted"} : place' = [place EXCEPT ![t] = p]
      BY <1>10, <2>3 DEF Launch, Accept, Handshake, ExecutableRefused, InstallationRefused,
         AuthorizationDenied, Goes
    <3>3. \A u \in Callers : place'[u] \in Holding <=> place[u] \in Holding
      BY <1>b, <2>1, <3>2 DEF Holding, Launching
    <3> QED BY <2>1, <3>1, <3>3, OthersKeepOwners
  <2> QED BY <2>2, <2>3
<1>11. CASE Activate(t)
  <2>1. /\ life' = [state |-> "active", gen |-> hold[t]] /\ Release(InLife \cup {}, {})
        /\ hold' = [hold EXCEPT ![t] = 0] /\ place' = [place EXCEPT ![t] = "returned"]
        /\ UNCHANGED <<nextGen, app>> /\ place[t] = "greeted"
    BY <1>11 DEF Activate, Replace, Goes, callerStep, otherVars, restVars
  <2>2. InLife \cup {} \in SUBSET Gens /\ {} \in SUBSET Gens BY LifeGens
  <2>3. \A g \in Gens : pipe'[g] = IF g \in {} THEN "open" ELSE
                                   IF g \in InLife \cup {} THEN "closed" ELSE pipe[g]
    BY <2>1, SMTT(30) DEF Release
  <2>4. \A g \in Gens : g = life.gen => g \in InLife BY <1>d DEF InLife, OwnerInv
  <2>5. hold[t] \in Gens /\ hold[t] # 0 BY <1>a, <2>1 DEF Holding, Launching
  <2>6. HandsOver(t, 0, "returned")
    <3>1. \A u \in Callers \ {t} : hold[u] # hold[t] BY <1>b, <2>5 DEF OwnerInv
    <3>2. hold[t] < nextGen /\ 0 < nextGen BY <1>c, SMTT(30) DEF OwnerInv
    <3>3. \A g \in Gens : pipe'[g] = "open" =>
            g \in {0, life'.gen} \/ (pipe[g] = "open" /\ g \notin {hold[t], life.gen})
      BY <2>1, <2>3, <2>4
    <3> QED BY <1>c, <2>1, <2>5, <3>1, <3>2, <3>3, SMTT(30) DEF HandsOver, Holding, Launching
  <2>7. 0 \in 0..MaxGen /\ "returned" \in Spots /\ life'.gen \in 0..MaxGen /\ nextGen' \in Nat
    BY <1>c, <2>1, SMTT(30) DEF Spots
  <2> QED BY <2>6, <2>7, HandedOver
<1> QED
  BY <1>1, <1>2, <1>3, <1>4, <1>5, <1>6, <1>7, <1>8, <1>9, <1>10, <1>11 DEF CallerSteps

-----------------------------------------------------------------------------
\* What a caller's step leaves alone.  Nothing but an activation puts a broker
\* into the lifecycle, and nothing but a request for one starts a launch.
LEMMA CallerEffects ==
    ASSUME PrivilegeTypeOK, OwnerInv, NEW t \in Callers, CallerSteps(t)
    PROVE  /\ UNCHANGED <<at, asked, early, mail>>
           /\ \A u \in Callers \ {t} : place'[u] = place[u] /\ hold'[u] = hold[u]
           /\ \A g \in Gens : work'[g] = work[g] \/ work'[g] = Idle
           /\ \/ Activate(t)
              \/ life'.state = "active" =>
                   /\ life' = life
                   /\ work'[life.gen] = work[life.gen] /\ flagged'[life.gen] = flagged[life.gen]
           /\ \/ RequestBroker(t)
              \/ /\ nextGen' = nextGen
                 /\ place'[t] \in Launching => place[t] \in Launching /\ hold'[t] = hold[t]
<1> USE PrivilegeConstants
<1>b. hold \in [Callers -> 0..MaxGen] /\ place \in [Callers -> Spots] /\ work \in [Gens -> [Reqs -> WorkStates]]
      /\ flagged \in [Gens -> SUBSET Reqs]
  BY DEF PrivilegeTypeOK, CallersOK, BrokersOK
<1>a. place[t] \in Holding => hold[t] \in Gens /\ hold[t] # life.gen
  BY <1>b, SMTT(30) DEF OwnerInv, Gens
<1>l. life.state = "active" => life.gen \in Gens BY LifeGens
<1>r. ASSUME NEW gs \in SUBSET Gens, NEW opened \in SUBSET Gens, Release(gs, opened)
      PROVE  /\ \A g \in Gens : work'[g] = work[g] \/ work'[g] = Idle
             /\ \A g \in Gens \ gs : work'[g] = work[g] /\ flagged'[g] = flagged[g]
  BY <1>r, Released
<1>k. ASSUME UNCHANGED <<work, flagged>>, life'.state # "active" \/ life' = life
      PROVE  /\ \A g \in Gens : work'[g] = work[g] \/ work'[g] = Idle
             /\ life'.state = "active" =>
                  /\ life' = life
                  /\ work'[life.gen] = work[life.gen] /\ flagged'[life.gen] = flagged[life.gen]
  BY <1>k
<1>v. ASSUME life' = Refreshed, IF life' = life THEN UNCHANGED brokerVars ELSE Release(InLife, {})
      PROVE  /\ \A g \in Gens : work'[g] = work[g] \/ work'[g] = Idle
             /\ life'.state = "active" =>
                  /\ life' = life
                  /\ work'[life.gen] = work[life.gen] /\ flagged'[life.gen] = flagged[life.gen]
  <2>1. CASE life' = life BY <1>v, <1>k, <2>1 DEF brokerVars
  <2>2. CASE life' # life
    <3>1. InLife \in SUBSET Gens /\ {} \in SUBSET Gens BY LifeGens
    <3>2. life'.state # "active" BY <1>v, <2>2 DEF Refreshed
    <3> QED BY <1>r, <1>v, <2>2, <3>1, <3>2
  <2> QED BY <2>1, <2>2
<1>m. ASSUME NEW p \in Spots \ Launching, place' = [place EXCEPT ![t] = p]
      PROVE  /\ \A u \in Callers \ {t} : place'[u] = place[u]
             /\ place'[t] \notin Launching
  BY <1>b, <1>m
<1>n. ASSUME NEW h, hold' = [hold EXCEPT ![t] = h]
      PROVE  \A u \in Callers \ {t} : hold'[u] = hold[u]
  BY <1>b, <1>n
<1>f. ASSUME Fails(t), place[t] \in Launching, UNCHANGED nextGen
      PROVE  /\ \A u \in Callers \ {t} : place'[u] = place[u] /\ hold'[u] = hold[u]
             /\ \A g \in Gens : work'[g] = work[g] \/ work'[g] = Idle
             /\ life'.state # "active"
             /\ place'[t] \notin Launching
  <2>1. /\ life' = [state |-> "faulted", gen |-> 0] /\ Release(InLife \cup {hold[t]}, {})
        /\ hold' = [hold EXCEPT ![t] = 0] /\ place' = [place EXCEPT ![t] = "returned"]
    BY <1>f DEF Fails, Replace, Goes
  <2>2. hold[t] \in Gens BY <1>a, <1>f DEF Holding
  <2>3. InLife \cup {hold[t]} \in SUBSET Gens /\ {} \in SUBSET Gens BY <2>2, LifeGens
  <2>4. "returned" \in Spots \ Launching BY DEF Spots, Launching
  <2> QED BY <1>m, <1>n, <1>r, <2>1, <2>3, <2>4
<1>t. ASSUME NEW why \in {"downgrade", "enable", "close", "exit"}, TakeBroker(t, why)
      PROVE  /\ \A u \in Callers \ {t} : place'[u] = place[u] /\ hold'[u] = hold[u]
             /\ UNCHANGED <<work, flagged>> /\ life'.state # "active"
             /\ place'[t] \notin Launching
  <2> DEFINE p == IF life.state = "active" THEN "shutting" ELSE After(why, TRUE)
  <2>1. p \in Spots \ Launching BY DEF After, Spots, Launching
  <2>2. place' = [place EXCEPT ![t] = p] /\ UNCHANGED <<work, flagged>> /\ life'.state # "active"
    BY <1>t DEF TakeBroker, Goes, brokerVars
  <2>3. \E h : hold' = [hold EXCEPT ![t] = h] BY <1>t DEF TakeBroker
  <2> HIDE DEF p
  <2> QED BY <1>m, <1>n, <2>1, <2>2, <2>3
<1>o. UNCHANGED <<at, asked, early, mail>>
  BY DEF CallerSteps, AdmitMode, SetDesired, Downgrade, Persist, Reconcile, FollowPlan, StartUp,
     CloseGate, StopServer, ShutDown, AwaitExit, RequestBroker, CreatePipe, Launch, Accept,
     Handshake, Activate, callerStep, otherVars, requestVars
<1>1. CASE AdmitMode(t)
  <2>1. \E p \in {"admitted", "returned"} : place' = [place EXCEPT ![t] = p]
    BY <1>1 DEF AdmitMode, Goes, Returns
  <2>2. UNCHANGED <<hold, nextGen>> BY <1>1 DEF AdmitMode, Returns
  <2>3. {"admitted", "returned"} \subseteq Spots \ Launching BY DEF Spots, Launching
  <2>4. (\A u \in Callers \ {t} : place'[u] = place[u]) /\ place'[t] \notin Launching
    BY <1>m, <2>1, <2>3
  <2>5. life' = Refreshed /\ IF life' = life THEN UNCHANGED brokerVars ELSE Release(InLife, {})
    BY <1>1 DEF AdmitMode
  <2> QED BY <1>o, <1>v, <2>2, <2>4, <2>5
<1>2. CASE SetDesired(t) \/ Persist(t) \/ StartUp(t) \/ StopServer(t)
  <2>1. \E p \in {"returned", "downgraded", "decided", "persisted", "enabling", "stopped"} :
          place' = [place EXCEPT ![t] = p]
    BY <1>2 DEF SetDesired, Persist, StartUp, StopServer, Goes, Returns
  <2>2. UNCHANGED <<hold, nextGen, life, work, flagged>>
    BY <1>2 DEF SetDesired, Persist, StartUp, StopServer, Returns, brokerVars
  <2>3. {"returned", "downgraded", "decided", "persisted", "enabling", "stopped"}
          \subseteq Spots \ Launching
    BY DEF Spots, Launching
  <2>4. (\A u \in Callers \ {t} : place'[u] = place[u]) /\ place'[t] \notin Launching
    BY <1>m, <2>1, <2>3
  <2> QED BY <1>o, <1>k, <2>2, <2>4
<1>3. CASE Downgrade(t) \/ FollowPlan(t) \/ CloseGate(t)
  <2>1. \E why \in {"downgrade", "enable", "close", "exit"} : TakeBroker(t, why)
    BY <1>3 DEF Downgrade, FollowPlan, CloseGate
  <2>2. nextGen' = nextGen BY <1>3 DEF Downgrade, FollowPlan, CloseGate
  <2> QED BY <1>o, <1>k, <1>t, <2>1, <2>2
<1>4. CASE Reconcile(t)
  <2>1. Plan \in {"request", "disable", "none"} BY DEF Plan
  <2>2. \E p \in {"enabling", "closing", "returned"} : place' = [place EXCEPT ![t] = p]
    BY <1>4, <2>1 DEF Reconcile, Goes
  <2>3. {"enabling", "closing", "returned"} \subseteq Spots \ Launching BY DEF Spots, Launching
  <2>4. (\A u \in Callers \ {t} : place'[u] = place[u]) /\ place'[t] \notin Launching
    BY <1>m, <2>2, <2>3
  <2>5. /\ life' = Refreshed /\ IF life' = life THEN UNCHANGED brokerVars ELSE Release(InLife, {})
        /\ UNCHANGED <<hold, nextGen>>
    BY <1>4 DEF Reconcile
  <2> QED BY <1>o, <1>v, <2>4, <2>5
<1>5. CASE ShutDown(t)
  <2>1. hold[t] \in Gens /\ hold[t] # life.gen BY <1>5, <1>a DEF ShutDown, Holding
  <2>2. place' = [place EXCEPT ![t] = "waiting"] /\ UNCHANGED <<hold, nextGen, life, work>>
    BY <1>5 DEF ShutDown, Goes
  <2>3. \/ flagged' = flagged
        \/ \E x : flagged' = [flagged EXCEPT ![hold[t]] = x]
    BY <1>5 DEF ShutDown
  <2>4. life.state = "active" => flagged'[life.gen] = flagged[life.gen] BY <1>b, <1>l, <2>1, <2>3
  <2>5. "waiting" \in Spots \ Launching BY DEF Spots, Launching
  <2> QED BY <1>o, <1>m, <2>2, <2>4, <2>5
<1>6. CASE AwaitExit(t)
  <2>1. /\ hold[t] \in Gens /\ hold[t] # life.gen
        /\ {hold[t]} \in SUBSET Gens /\ {} \in SUBSET Gens
    BY <1>6, <1>a DEF AwaitExit, Holding
  <2>7. PICK ok \in {FALSE, fine[t] /\ proc'[hold[t]] = "exited"} :
          /\ fine' = [fine EXCEPT ![t] = ok] /\ place' = [place EXCEPT ![t] = After(phase[t], ok)]
    BY <1>6 DEF AwaitExit, Goes
  <2> DEFINE p == After(phase[t], ok)
  <2>2. /\ hold' = [hold EXCEPT ![t] = 0] /\ place' = [place EXCEPT ![t] = p]
        /\ Release({hold[t]}, {}) /\ UNCHANGED <<life, nextGen>>
    BY <1>6, <2>7 DEF AwaitExit
  <2>3. ok \in BOOLEAN /\ phase[t] \in {"downgrade", "enable", "close", "exit"}
    BY DEF PrivilegeTypeOK, CallersOK
  <2>4. p \in Spots \ Launching BY <2>3 DEF After, Spots, Launching
  <2> HIDE DEF p
  <2>5. /\ \A g \in Gens : work'[g] = work[g] \/ work'[g] = Idle
        /\ \A g \in Gens \ {hold[t]} : work'[g] = work[g] /\ flagged'[g] = flagged[g]
    BY <1>r, <2>1, <2>2
  <2>6. life.state = "active" =>
          work'[life.gen] = work[life.gen] /\ flagged'[life.gen] = flagged[life.gen]
    BY <1>l, <2>1, <2>5
  <2> QED BY <1>o, <1>m, <1>n, <2>2, <2>4, <2>5, <2>6
<1>7. CASE RequestBroker(t)
  <2>1. /\ life' = [state |-> "requested", gen |-> 0] /\ Release(InLife \cup {}, {})
        /\ place' = [place EXCEPT ![t] = "requested"] /\ hold' = [hold EXCEPT ![t] = nextGen]
    BY <1>7 DEF RequestBroker, Replace, Goes
  <2>2. InLife \cup {} \in SUBSET Gens /\ {} \in SUBSET Gens BY LifeGens
  <2>3. \A g \in Gens : work'[g] = work[g] \/ work'[g] = Idle BY <1>r, <2>1, <2>2
  <2>4. \A u \in Callers \ {t} : place'[u] = place[u] /\ hold'[u] = hold[u] BY <1>b, <2>1
  <2>5. life'.state # "active" BY <2>1
  <2> QED BY <1>7, <1>o, <2>3, <2>4, <2>5
<1>8. CASE CreatePipe(t) \/ Launch(t) \/ Accept(t) \/ Handshake(t)
  <2>1. place[t] \in Launching /\ nextGen' = nextGen
    BY <1>8 DEF CreatePipe, Launch, Accept, Handshake, Launching
  <2>2. CASE Fails(t) BY <1>o, <1>f, <2>1, <2>2
  <2>3. CASE ~Fails(t)
    <3>1. (\E p \in Spots : place' = [place EXCEPT ![t] = p]) /\ hold' = hold
      BY <1>8, <2>3 DEF CreatePipe, Launch, Accept, Handshake, ExecutableRefused,
         InstallationRefused, AuthorizationDenied, Goes, Spots
    <3>2. \A u \in Callers \ {t} : place'[u] = place[u] /\ hold'[u] = hold[u] BY <1>b, <3>1
    <3>3. CASE CreatePipe(t)
      <4>1. Release(InLife, {hold[t]}) /\ life'.state # "active" BY <2>3, <3>3, SMTT(30)
          DEF CreatePipe
      <4>2. InLife \in SUBSET Gens /\ {hold[t]} \in SUBSET Gens BY <1>a, <2>1, LifeGens
          DEF Holding
      <4>3. \A g \in Gens : work'[g] = work[g] \/ work'[g] = Idle BY <1>r, <4>1, <4>2
      <4> QED BY <1>o, <2>1, <3>1, <3>2, <4>1, <4>3
    <3>4. CASE Launch(t) \/ Accept(t) \/ Handshake(t)
      <4>1. UNCHANGED <<work, flagged, life>>
        BY <2>3, <3>4 DEF Launch, Accept, Handshake, ExecutableRefused, InstallationRefused,
           AuthorizationDenied, brokerVars
      <4> QED BY <1>o, <1>k, <2>1, <3>1, <3>2, <4>1
    <3> QED BY <1>8, <3>3, <3>4
  <2> QED BY <2>2, <2>3
<1>9. CASE Activate(t)
  <2>1. /\ Release(InLife \cup {}, {}) /\ nextGen' = nextGen
        /\ hold' = [hold EXCEPT ![t] = 0] /\ place' = [place EXCEPT ![t] = "returned"]
    BY <1>9 DEF Activate, Replace, Goes
  <2>2. InLife \cup {} \in SUBSET Gens /\ {} \in SUBSET Gens BY LifeGens
  <2>3. \A g \in Gens : work'[g] = work[g] \/ work'[g] = Idle BY <1>r, <2>1, <2>2
  <2>4. "returned" \in Spots \ Launching BY DEF Spots, Launching
  <2> QED BY <1>9, <1>o, <1>m, <1>n, <2>1, <2>3, <2>4
<1> QED
  BY <1>1, <1>2, <1>3, <1>4, <1>5, <1>6, <1>7, <1>8, <1>9 DEF CallerSteps

-----------------------------------------------------------------------------
\* Fresh brokers.  Work appears only in the broker of the lifecycle.
OnlyActiveWorks ==
    \A g \in Gens : work[g] = Idle /\ g # life.gen => work'[g] = Idle

\* A handler or a client changes the work of no broker but the active one.
LEMMA AlteredWork ==
    ASSUME PrivilegeTypeOK, OwnerInv, NEW r \in Reqs, Alters(r)
    PROVE  OnlyActiveWorks
<1>1. CASE Untouched BY <1>1 DEF Untouched, brokerVars, OnlyActiveWorks
<1>2. CASE Dropped BY <1>2 DEF Dropped, OnlyActiveWorks
<1>3. CASE Works(r)
  <2>1. PICK state \in WorkStates, flags \in SUBSET Reqs : ServedAs(r, state, flags)
    BY <1>3 DEF Works
  <2>2. work' = [work EXCEPT ![life.gen] = [work[life.gen] EXCEPT ![r] = state]]
    BY <2>1 DEF ServedAs
  <2>3. work \in [Gens -> [Reqs -> WorkStates]] BY DEF PrivilegeTypeOK, BrokersOK
  <2> QED BY <2>2, <2>3 DEF OnlyActiveWorks
<1> QED BY <1>1, <1>2, <1>3 DEF Alters

\* A broker that is being launched has run nothing: steps that move no caller keep it so,
LEMMA OthersKeepFresh ==
    ASSUME PrivilegeTypeOK, OwnerInv, FreshInv, OnlyActiveWorks, UNCHANGED <<place, hold, nextGen>>
    PROVE  FreshInv'
<1>1. ASSUME NEW t \in Callers, place[t] \in Launching PROVE work'[hold[t]] = Idle
  <2>1. hold[t] # 0 /\ hold[t] # life.gen BY <1>1 DEF OwnerInv, Holding
  <2>2. hold[t] \in Gens BY <2>1, SMTT(30) DEF PrivilegeTypeOK, CallersOK, Gens
  <2> QED BY <1>1, <2>1, <2>2 DEF FreshInv, OnlyActiveWorks
<1>2. ASSUME NEW g \in Gens, g >= nextGen PROVE work'[g] = Idle
  <2>1. g # life.gen
    BY <1>2, PrivilegeConstants, SMTT(30) DEF OwnerInv, Gens, PrivilegeTypeOK, BrokersOK
  <2> QED BY <1>2, <2>1 DEF FreshInv, OnlyActiveWorks
<1> QED BY <1>1, <1>2 DEF FreshInv

\* the brokers by themselves keep it so,
LEMMA BrokersKeepFresh ==
    ASSUME PrivilegeTypeOK, OwnerInv, FreshInv, BrokerMoves
    PROVE  FreshInv'
<1>1. UNCHANGED <<place, hold, nextGen>> BY BrokerEffects
<1>2. ASSUME NEW g \in Gens, work[g] = Idle PROVE work'[g] = Idle
  <2>1. \A r \in Reqs : work[g][r] # "running" BY <1>2 DEF Idle
  <2>2. WorkEnds(g) BY BrokerEffects
  <2> QED BY <1>2, <2>1, <2>2 DEF WorkEnds, WorkerEnded
<1> QED BY <1>1, <1>2, OthersKeepFresh DEF OnlyActiveWorks

\* and the callers, who launch with a generation that was never used.
LEMMA CallersKeepFresh ==
    ASSUME PrivilegeTypeOK, OwnerInv, FreshInv, NEW t \in Callers, CallerSteps(t)
    PROVE  FreshInv'
<1>b. hold \in [Callers -> 0..MaxGen] /\ place \in [Callers -> Spots] /\ nextGen \in 1..(MaxGen + 1)
  BY DEF PrivilegeTypeOK, CallersOK
<1>a. \A u \in Callers : place[u] \in Launching => hold[u] \in Gens
  BY <1>b, SMTT(30) DEF OwnerInv, Gens, Holding
<1>c. \A g \in Gens : work[g] = Idle => work'[g] = Idle BY CallerEffects
<1>1. ASSUME NEW u \in Callers, u # t, place'[u] \in Launching PROVE work'[hold'[u]] = Idle
  <2>1. place'[u] = place[u] /\ hold'[u] = hold[u] BY <1>1, CallerEffects
  <2> QED BY <1>1, <1>a, <1>c, <2>1 DEF FreshInv
<1>2. CASE RequestBroker(t)
  <2>1. nextGen \in Gens /\ nextGen' = nextGen + 1 /\ hold' = [hold EXCEPT ![t] = nextGen]
    BY <1>2 DEF RequestBroker
  <2>2. hold'[t] = nextGen BY <1>b, <2>1
  <2>3. work'[nextGen] = Idle BY <1>b, <1>c, <2>1, SMTT(30) DEF FreshInv
  <2>4. ASSUME NEW g \in Gens, g >= nextGen' PROVE work'[g] = Idle
    <3>1. g >= nextGen BY <1>b, <2>1, <2>4, PrivilegeConstants, SMTT(30) DEF Gens
    <3> QED BY <1>c, <3>1 DEF FreshInv
  <2> QED BY <1>1, <2>2, <2>3, <2>4 DEF FreshInv
<1>3. CASE ~RequestBroker(t)
  <2>1. nextGen' = nextGen /\ (place'[t] \in Launching => place[t] \in Launching /\ hold'[t] = hold[t])
    BY <1>3, CallerEffects
  <2>2. place'[t] \in Launching => work'[hold'[t]] = Idle BY <1>a, <1>c, <2>1 DEF FreshInv
  <2>3. \A g \in Gens : g >= nextGen' => work'[g] = Idle BY <1>c, <2>1 DEF FreshInv
  <2> QED BY <1>1, <2>2, <2>3 DEF FreshInv
<1> QED BY <1>2, <1>3

-----------------------------------------------------------------------------
\* What runs has a handler.  A step keeps that when each piece of work of the
\* active broker was there before, with a handler that did not move, or has one
\* that serves it now.
LEMMA CurrentKept ==
    ASSUME BrokerOwnsOnlyCurrent,
           life'.state = "active" =>
             /\ life' = life
             /\ \A q \in Reqs : work'[life.gen][q] # "absent" =>
                  at'[q] \in Serving \/ (work[life.gen][q] # "absent" /\ at'[q] = at[q])
    PROVE  BrokerOwnsOnlyCurrent'
BY DEF BrokerOwnsOnlyCurrent, Owned, Serving

\* What an active broker runs has a handler.  A caller that activates a broker activates
\* a fresh one,
LEMMA CallersKeepCurrent ==
    ASSUME PrivilegeTypeOK, OwnerInv, FreshInv, BrokerOwnsOnlyCurrent, NEW t \in Callers,
           CallerSteps(t)
    PROVE  BrokerOwnsOnlyCurrent'
<1>1. CASE Activate(t)
  <2>1. life'.gen = hold[t] /\ place[t] \in Launching BY <1>1 DEF Activate, Replace, Launching
  <2>2. hold[t] \in Gens BY <2>1, SMTT(30) DEF OwnerInv, PrivilegeTypeOK, CallersOK, Holding, Gens
  <2>3. work'[hold[t]] = Idle BY <2>1, <2>2, CallerEffects DEF FreshInv
  <2> QED BY <2>1, <2>3 DEF BrokerOwnsOnlyCurrent, Owned, Idle
<1>2. CASE ~Activate(t) BY <1>2, CallerEffects, CurrentKept
<1> QED BY <1>1, <1>2

\* a broker by itself only ends work,
LEMMA BrokersKeepCurrent ==
    ASSUME PrivilegeTypeOK, OwnerInv, BrokerOwnsOnlyCurrent, BrokerMoves
    PROVE  BrokerOwnsOnlyCurrent'
<1>1. life' = life /\ at' = at BY BrokerEffects DEF Settled
<1>2. ASSUME life.state = "active", NEW q \in Reqs, work'[life.gen][q] # "absent"
      PROVE  work[life.gen][q] # "absent"
  <2>1. life.gen \in Gens BY <1>2, LifeGens
  <2>2. work \in [Gens -> [Reqs -> WorkStates]] BY DEF PrivilegeTypeOK, BrokersOK
  <2>3. work'[life.gen] # Idle BY <1>2 DEF Idle
  <2>4. WorkEnds(life.gen) BY <2>1, BrokerEffects
  <2>5. ASSUME NEW r \in Reqs, NEW end \in WorkStates \ {"absent", "running"},
               WorkerEnded(life.gen, r, end)
        PROVE  work[life.gen][q] # "absent"
    BY <1>2, <2>1, <2>2, <2>5 DEF WorkerEnded
  <2> QED BY <1>2, <2>3, <2>4, <2>5 DEF WorkEnds
<1> QED BY <1>1, <1>2, CurrentKept

\* What a handler does to the work of the active broker: the other requests' is
\* left alone; its own is there only while the handler serves it.
LEMMA AlteredOthers ==
    ASSUME PrivilegeTypeOK, OwnerInv, NEW r \in Reqs, Alters(r), life'.state = "active"
    PROVE  /\ life' = life
           /\ \A q \in Reqs \ {r} :
                /\ work'[life.gen][q] = work[life.gen][q]
                /\ q \in flagged'[life.gen] <=> q \in flagged[life.gen]
<1>1. CASE Untouched BY <1>1 DEF Untouched, brokerVars
<1>2. CASE Dropped BY <1>2 DEF Dropped
<1>3. CASE Works(r)
  <2>1. PICK state \in WorkStates, flags \in SUBSET Reqs :
          ServedAs(r, state, flags) /\ flags \ {r} = flagged[life.gen] \ {r}
    BY <1>3 DEF Works
  <2>2. /\ work' = [work EXCEPT ![life.gen] = [work[life.gen] EXCEPT ![r] = state]]
        /\ flagged' = [flagged EXCEPT ![life.gen] = flags] /\ life' = life
    BY <2>1 DEF ServedAs
  <2>3. /\ work \in [Gens -> [Reqs -> WorkStates]] /\ flagged \in [Gens -> SUBSET Reqs]
        /\ life.gen \in Gens
    BY <2>2, LifeGens DEF PrivilegeTypeOK, BrokersOK
  <2>4. work'[life.gen] = [work[life.gen] EXCEPT ![r] = state] /\ flagged'[life.gen] = flags
    BY <2>2, <2>3
  <2> QED BY <2>1, <2>2, <2>3, <2>4
<1> QED BY <1>1, <1>2, <1>3 DEF Alters

\* Where a handler's step can take its request while a broker is active.
LEMMA HandlerStages ==
    ASSUME PrivilegeTypeOK, OwnerInv, BrokerOwnsOnlyCurrent, NEW r \in Reqs, HandlerMoves(r),
           life'.state = "active"
    PROVE  \/ /\ at'[r] \in Asides \cup {"calling", "targeting"}
              /\ work'[life.gen][r] = "absent"
           \/ /\ at'[r] = "starting" /\ asked' = asked /\ (r \in asked => r \in early')
              /\ work'[life.gen][r] = "absent"
           \/ at[r] = "starting" /\ at'[r] = "cancelling"
           \/ at[r] = "starting" /\ at'[r] = "looping" /\ r \notin early /\ asked' = asked
           \/ at'[r] = "looping" /\ r \in flagged'[life.gen]
           \/ /\ at[r] \in {"looping", "polling"} /\ at'[r] \in {"looping", "polling"}
              /\ asked' = asked /\ (Untouched \/ r \in flagged'[life.gen])
<1>a. at \in [Reqs -> Asides \cup {"calling", "targeting", "starting"} \cup Serving]
  BY DEF PrivilegeTypeOK, RequestsOK
<1>b. /\ work \in [Gens -> [Reqs -> WorkStates]] /\ flagged \in [Gens -> SUBSET Reqs]
      /\ life' = life /\ life.gen \in Gens
  BY HandlerEffects, AlteredOthers, LifeGens DEF PrivilegeTypeOK, BrokersOK
<1>c. \A out : ~GateClosed(out) BY <1>b, SMTT(30) DEF GateClosed, Faulted
<1>d. ~Faulted /\ ~Dropped BY SMTT(30) DEF Faulted, Dropped
<1>e. at[r] \notin Serving => work[life.gen][r] = "absent"
  BY <1>b DEF BrokerOwnsOnlyCurrent, Owned, Serving
<1>f. \A out : Answered(r, out) => at'[r] = "done" BY <1>a DEF Answered, Moves
<1>g. \A to : Carries(r, to) => at'[r] = to /\ asked' = asked BY <1>a DEF Carries, Moves
<1>h. Untouched => work' = work /\ flagged' = flagged BY DEF Untouched, brokerVars
<1>1. CASE Dispatch(r) \/ Check(r)
  <2>1. at[r] \notin Serving BY <1>1 DEF Dispatch, Check, Serving
  <2>2. Untouched
    BY <1>1, <1>d, ViaRefresh DEF Dispatch, Check, CheckFilesystem, CheckElevated, Untouched
  <2>3. at'[r] \in {"checking", "done", "calling", "targeting"}
    BY <1>1, <1>f, <1>g DEF Dispatch, Check, CheckFilesystem, CheckElevated, PathsRefused,
       ArgumentsRefused
  <2> QED BY <1>e, <1>h, <2>1, <2>2, <2>3 DEF Asides
<1>2. CASE Legacy(r)
  <2>1. at[r] \notin Serving BY <1>2 DEF Legacy, Serving
  <2>2. Untouched BY <1>2, <1>c, GatewayLegacy DEF Legacy
  <2>3. at'[r] = "done" BY <1>2, <1>f DEF Legacy
  <2> QED BY <1>e, <1>h, <2>1, <2>2, <2>3 DEF Asides
<1>3. CASE Target(r)
  <2>1. at[r] \notin Serving /\ Untouched BY <1>3 DEF Target, Serving, Untouched
  <2>2. CASE Carries(r, "starting") /\ (r \in asked => r \in early')
    <3>1. at'[r] = "starting" /\ asked' = asked BY <1>3, <1>g, <2>2 DEF Target
    <3> QED BY <1>e, <1>h, <2>1, <2>2, <3>1
  <2>3. CASE Answered(r, "duplicate") /\ early' = early
    <3>1. at'[r] = "done" BY <1>3, <1>f, <2>3 DEF Target
    <3> QED BY <1>e, <1>h, <2>1, <2>3, <3>1 DEF Asides
  <2> QED BY <1>3, <2>2, <2>3 DEF Target
<1>4. CASE Start(r)
  <2>1. PICK out \in GatewayOutcomes :
          /\ Gateway("start", r, out)
          /\ IF out = "ok" THEN Carries(r, IF r \in early THEN "cancelling" ELSE "looping")
             ELSE Answered(r, out)
    BY <1>4 DEF Start
  <2>2. out = "ok" BY <1>c, <2>1, GatewayStart
  <2>3. at[r] = "starting" BY <1>4 DEF Start
  <2> QED BY <1>g, <2>1, <2>2, <2>3
<1>5. CASE CancelEarly(r)
  <2>1. PICK out \in GatewayOutcomes : Gateway("cancel", r, out) BY <1>5 DEF CancelEarly
  <2>2. ServedAs(r, work[life.gen][r], flagged[life.gen] \cup {r}) BY <1>c, <2>1, GatewayCancel
  <2>3. r \in flagged'[life.gen] BY <1>b, <2>2 DEF ServedAs
  <2> QED BY <1>5, <1>g, <2>3 DEF CancelEarly
<1>6. CASE Loop(r)
  <2>1. Untouched \/ r \in flagged'[life.gen]
    <3>1. CASE stopping
      <4>1. PICK out \in GatewayOutcomes : Gateway("cancel", r, out) BY <1>6, <3>1 DEF Loop
      <4>2. ServedAs(r, work[life.gen][r], flagged[life.gen] \cup {r})
        BY <1>c, <4>1, GatewayCancel
      <4> QED BY <1>b, <4>2 DEF ServedAs
    <3>2. CASE ~stopping BY <1>6, <3>2 DEF Loop, Untouched
    <3> QED BY <3>1, <3>2
  <2> QED BY <1>6, <1>g, <2>1 DEF Loop
<1>7. CASE Poll(r)
  <2>1. PICK out \in GatewayOutcomes :
          /\ Gateway("poll", r, out)
          /\ IF out = "pending" THEN Carries(r, "looping") ELSE Answered(r, out)
    BY <1>7 DEF Poll
  <2>2. CASE out = "pending" /\ Untouched BY <1>7, <1>g, <2>1, <2>2 DEF Poll
  <2>3. CASE out # "pending" /\ ServedAs(r, "absent", flagged[life.gen] \ {r})
    <3>1. work' = [work EXCEPT ![life.gen] = [work[life.gen] EXCEPT ![r] = "absent"]]
      BY <2>3 DEF ServedAs
    <3>2. work'[life.gen][r] = "absent" BY <1>b, <3>1
    <3> QED BY <1>f, <2>1, <2>3, <3>2 DEF Asides
  <2> QED BY <1>c, <2>1, <2>2, <2>3, GatewayPoll
<1> QED BY <1>1, <1>2, <1>3, <1>4, <1>5, <1>6, <1>7 DEF HandlerMoves, HandlerSteps

\* A handler moves no request but its own, and no cancellation on its way.
LEMMA HandlerAlone ==
    ASSUME PrivilegeTypeOK, NEW r \in Reqs, HandlerMoves(r)
    PROVE  /\ mail' = mail
           /\ \A q \in Reqs \ {r} : /\ at'[q] = at[q]
                                    /\ q \in asked' <=> q \in asked
                                    /\ q \in early' <=> q \in early
<1>a. at \in [Reqs -> Asides \cup {"calling", "targeting", "starting"} \cup Serving]
  BY DEF PrivilegeTypeOK, RequestsOK
<1>1. /\ mail' = mail
      /\ (\E out : Answered(r, out)) \/ (\E to : Carries(r, to))
      /\ early' = early \/ early' = early \cup {r}
  BY DEF HandlerMoves, HandlerSteps, Dispatch, Check, CheckFilesystem, CheckElevated,
     PathsRefused, ArgumentsRefused, Legacy, Target, Start, CancelEarly, Loop, Poll
<1> QED BY <1>1, <1>a DEF Answered, Carries, Moves

\* a handler leaves only after it took the result or the broker was dropped,
LEMMA HandlersKeepCurrent ==
    ASSUME PrivilegeTypeOK, OwnerInv, BrokerOwnsOnlyCurrent, NEW r \in Reqs, HandlerMoves(r)
    PROVE  BrokerOwnsOnlyCurrent'
<1>1. ASSUME life'.state = "active"
      PROVE  /\ life' = life
             /\ \A q \in Reqs : work'[life.gen][q] # "absent" =>
                  at'[q] \in Serving \/ (work[life.gen][q] # "absent" /\ at'[q] = at[q])
  <2>1. /\ life' = life
        /\ \A q \in Reqs \ {r} : work'[life.gen][q] = work[life.gen][q]
    BY <1>1, HandlerEffects, AlteredOthers
  <2>2. \A q \in Reqs \ {r} : at'[q] = at[q] BY HandlerAlone
  <2>3. work'[life.gen][r] # "absent" => at'[r] \in Serving
    BY <1>1, HandlerStages DEF Serving
  <2> QED BY <2>1, <2>2, <2>3
<1> QED BY <1>1, CurrentKept

\* a cancellation starts nothing,
LEMMA ClientsKeepCurrent ==
    ASSUME PrivilegeTypeOK, OwnerInv, BrokerOwnsOnlyCurrent, NEW r \in Reqs, ClientMoves(r)
    PROVE  BrokerOwnsOnlyCurrent'
<1>1. at' = at BY DEF ClientMoves, Ask, Deliver
<1>2. ASSUME life'.state = "active"
      PROVE  life' = life /\ \A q \in Reqs : work'[life.gen][q] = work[life.gen][q]
  <2>1. CASE Ask(r) BY <2>1 DEF Ask, brokerVars
  <2>2. CASE Deliver(r)
    <3>1. PICK out \in GatewayOutcomes : Gateway("cancel", r, out) BY <2>2 DEF Deliver
    <3>2. ~GateClosed(out) BY <1>2, SMTT(30) DEF GateClosed, Faulted, Untouched
    <3>3. ServedAs(r, work[life.gen][r], flagged[life.gen] \cup {r})
      BY <3>1, <3>2, GatewayCancel
    <3>4. /\ work' = [work EXCEPT ![life.gen] = [work[life.gen] EXCEPT ![r] = work[life.gen][r]]]
          /\ life' = life
      BY <3>3 DEF ServedAs
    <3>5. work \in [Gens -> [Reqs -> WorkStates]] /\ life.gen \in Gens
      BY <1>2, <3>4, LifeGens DEF PrivilegeTypeOK, BrokersOK
    <3> QED BY <3>4, <3>5
  <2> QED BY <2>1, <2>2 DEF ClientMoves
<1> QED BY <1>1, <1>2, CurrentKept

\* and the window can at most drop the broker.
LEMMA WindowKeepsCurrent ==
    ASSUME PrivilegeTypeOK, OwnerInv, BrokerOwnsOnlyCurrent, WindowMoves
    PROVE  BrokerOwnsOnlyCurrent'
<1>1. at' = at /\ (Untouched \/ Dropped) BY WindowEffects
<1> QED BY <1>1, CurrentKept, SMTT(30) DEF Untouched, Dropped, brokerVars

-----------------------------------------------------------------------------
\* The first broker: no request gets past its check before it is active, and no
\* other launch is under way while it is.
LEMMA OthersKeepFirst ==
    ASSUME PrivilegeTypeOK, OwnerInv, FirstInv, UNCHANGED <<place, nextGen>>,
           life'.state = "active" => life.state = "active",
           \A q \in Reqs : at'[q] \notin Asides => at[q] \notin Asides \/ life.state = "active"
    PROVE  FirstInv'
<1>1. life.state = "active" => nextGen # 1
  BY LifeGens, SMTT(30) DEF OwnerInv, Gens, PrivilegeTypeOK
<1> QED BY <1>1 DEF FirstInv

\* A handler passes its check only when a broker is active,
LEMMA HandlersKeepFirst ==
    ASSUME PrivilegeTypeOK, OwnerInv, FirstInv, NEW r \in Reqs, HandlerMoves(r)
    PROVE  FirstInv'
<1>a. at \in [Reqs -> Asides \cup {"calling", "targeting", "starting"} \cup Serving]
  BY DEF PrivilegeTypeOK, RequestsOK
<1>1. UNCHANGED <<place, nextGen>> /\ (life'.state = "active" => life.state = "active")
  BY HandlerEffects, AlteredOthers
<1>2. at'[r] \notin Asides => at[r] \notin Asides \/ life.state = "active"
  <2>1. CASE Dispatch(r) BY <1>a, <2>1 DEF Dispatch, Carries, Moves, Asides
  <2>2. CASE Check(r) BY <1>a, <2>2
    DEF Check, CheckFilesystem, CheckElevated, PathsRefused, ArgumentsRefused, Answered, Carries,
        Moves, Asides, Refreshed
  <2>3. CASE at[r] \notin {"idle", "checking", "done"} BY <2>3 DEF Asides
  <2> QED
    BY <2>1, <2>2, <2>3 DEF HandlerMoves, HandlerSteps, Legacy, Target, Start, CancelEarly,
       Loop, Poll
<1> QED BY <1>1, <1>2, HandlerAlone, OthersKeepFirst

\* and callers go on with the first launch before any request passed.
LEMMA CallersKeepFirst ==
    ASSUME PrivilegeTypeOK, OwnerInv, FirstInv, NEW t \in Callers, CallerSteps(t)
    PROVE  FirstInv'
<1>a. /\ hold \in [Callers -> 0..MaxGen] /\ place \in [Callers -> Spots]
      /\ nextGen \in 1..(MaxGen + 1) /\ MaxGen \in Nat
  BY PrivilegeConstants DEF PrivilegeTypeOK, CallersOK
<1>b. at' = at /\ \A u \in Callers \ {t} : place'[u] = place[u] BY CallerEffects
<1>1. CASE RequestBroker(t)
  <2>1. nextGen' = nextGen + 1 /\ life'.state # "active" BY <1>1 DEF RequestBroker, Replace
  <2>2. nextGen' # 1 /\ (nextGen' = 2 => nextGen = 1) BY <1>a, <2>1, SMTT(30)
  <2> QED BY <1>b, <2>1, <2>2 DEF FirstInv
<1>2. CASE Activate(t)
  <2>1. /\ nextGen' = nextGen /\ place' = [place EXCEPT ![t] = "returned"] /\ place[t] \in Launching
    BY <1>2 DEF Activate, Goes, Launching
  <2>2. ASSUME nextGen = 2, NEW u \in Callers PROVE place'[u] \notin Launching
    <3>1. CASE u = t BY <1>a, <2>1, <3>1 DEF Launching
    <3>2. CASE u # t
      <4>1. hold[t] # 0 /\ hold[t] < 2 BY <2>1, <2>2 DEF OwnerInv, Holding
      <4>2. hold[t] = 1 BY <1>a, <4>1, SMTT(30)
      <4>3. place[u] \in Launching => hold[u] # 0 /\ hold[u] < 2
        BY <2>2 DEF OwnerInv, Holding
      <4>4. place[u] \in Launching => hold[u] = 1 BY <1>a, <4>3, SMTT(30)
      <4>5. place[u] \notin Launching BY <3>2, <4>2, <4>4, SMTT(30) DEF OwnerInv
      <4> QED BY <1>b, <3>2, <4>5
    <3> QED BY <3>1, <3>2
  <2> QED BY <1>b, <2>1, <2>2 DEF FirstInv
<1>3. CASE ~RequestBroker(t) /\ ~Activate(t)
  <2>1. nextGen' = nextGen /\ (place'[t] \in Launching => place[t] \in Launching)
    BY <1>3, CallerEffects
  <2>2. life'.state = "active" => life.state = "active" BY <1>3, CallerEffects
  <2>3. \A u \in Callers : place'[u] \in Launching => place[u] \in Launching BY <1>b, <2>1
  <2> QED BY <1>b, <2>1, <2>2, <2>3 DEF FirstInv
<1> QED BY <1>1, <1>2, <1>3

-----------------------------------------------------------------------------
\* Marks.  Whatever changes about a request that is marked, its cancellation is on
\* its way or its worker's flag is set.
Signalled(r) ==
    r \in asked =>
      /\ at[r] = "starting" => r \in early \cup mail
      /\ at[r] \in {"looping", "polling"} /\ r \notin mail
         => r \in flagged[life.gen] \/ work[life.gen][r] # "running"

\* The invariant about marks, request by request,
LEMMA MarksBySignals ==
    ASSUME PrivilegeTypeOK
    PROVE  MarkInv <=> (nextGen = 2 /\ life.state = "active" => \A r \in Reqs : Signalled(r))
BY DEF MarkInv, Signalled, PrivilegeTypeOK, RequestsOK

\* and in the next state.
LEMMA MarksBySignalsNext ==
    ASSUME PrivilegeTypeOK', nextGen' = 2 /\ life'.state = "active" => \A r \in Reqs : Signalled(r)'
    PROVE  MarkInv'
BY DEF MarkInv, Signalled, PrivilegeTypeOK, RequestsOK

\* A handler that sets its target sees the mark, or leaves its copy on the way,
LEMMA HandlersKeepMarks ==
    ASSUME PrivilegeTypeOK, OwnerInv, BrokerOwnsOnlyCurrent, MarkInv, NEW r \in Reqs,
           HandlerMoves(r)
    PROVE  MarkInv'
<1> SUFFICES ASSUME nextGen' = 2, life'.state = "active", NEW q \in Reqs PROVE Signalled(q)'
  BY HandlerEffects, MarksBySignalsNext
<1>1. life' = life /\ nextGen = 2 BY HandlerEffects, AlteredOthers
<1>2. Signalled(q) /\ Signalled(r) BY <1>1, MarksBySignals
<1>3. CASE q # r
  <2>1. /\ work'[life.gen][q] = work[life.gen][q]
        /\ q \in flagged'[life.gen] <=> q \in flagged[life.gen]
    BY <1>3, HandlerEffects, AlteredOthers
  <2>2. /\ mail' = mail /\ at'[q] = at[q] /\ (q \in asked' <=> q \in asked)
        /\ q \in early' <=> q \in early
    BY <1>3, HandlerAlone
  <2> QED BY <1>1, <1>2, <2>1, <2>2 DEF Signalled
<1>4. CASE q = r
  <2>1. mail' = mail BY HandlerAlone
  <2>2. Untouched => work' = work /\ flagged' = flagged BY DEF Untouched, brokerVars
  <2> QED BY <1>1, <1>2, <1>4, <2>1, <2>2, HandlerStages DEF Signalled, Asides
<1> QED BY <1>3, <1>4

\* a client's mark leaves a copy, which is spent only by flagging the command,
LEMMA ClientsKeepMarks ==
    ASSUME PrivilegeTypeOK, OwnerInv, BrokerOwnsOnlyCurrent, MarkInv, NEW r \in Reqs,
           ClientMoves(r)
    PROVE  MarkInv'
<1> SUFFICES ASSUME nextGen' = 2, life'.state = "active", NEW q \in Reqs PROVE Signalled(q)'
  BY ClientEffects, MarksBySignalsNext
<1>1. life' = life /\ nextGen = 2 /\ life.gen \in Gens
  BY ClientEffects, AlteredOthers, LifeGens
<1>2. Signalled(q) BY <1>1, MarksBySignals
<1>3. CASE Ask(r) BY <1>1, <1>2, <1>3 DEF Ask, Signalled, Targeted, brokerVars
<1>4. CASE Deliver(r)
  <2>1. PICK out \in GatewayOutcomes : Gateway("cancel", r, out) BY <1>4 DEF Deliver
  <2>2. ~GateClosed(out) BY <1>1, SMTT(30) DEF GateClosed, Faulted
  <2>3. work[life.gen][r] # "absent" /\ ServedAs(r, work[life.gen][r], flagged[life.gen] \cup {r})
    BY <2>1, <2>2, GatewayCancel
  <2>4. at[r] \in Serving BY <1>1, <2>3 DEF BrokerOwnsOnlyCurrent, Owned, Serving
  <2>5. r \in flagged'[life.gen] BY <1>1, <2>3 DEF ServedAs, PrivilegeTypeOK, BrokersOK
  <2>6. at' = at /\ asked' = asked /\ early' = early /\ mail' = mail \ {r} BY <1>4 DEF Deliver
  <2>7. CASE q = r BY <1>1, <2>4, <2>5, <2>6, <2>7 DEF Signalled, Serving
  <2>8. CASE q # r
    <3>1. /\ work'[life.gen][q] = work[life.gen][q]
          /\ q \in flagged'[life.gen] <=> q \in flagged[life.gen]
      BY <2>8, ClientEffects, AlteredOthers
    <3> QED BY <1>1, <1>2, <2>6, <2>8, <3>1 DEF Signalled
  <2> QED BY <2>7, <2>8
<1> QED BY <1>3, <1>4 DEF ClientMoves

\* a caller activates the first broker before there is any mark to lose,
LEMMA CallersKeepMarks ==
    ASSUME PrivilegeTypeOK, OwnerInv, FirstInv, MarkInv, NEW t \in Callers, CallerSteps(t)
    PROVE  MarkInv'
<1>a. PrivilegeTypeOK' BY CallerTypes
<1>b. UNCHANGED <<at, asked, early, mail>> BY CallerEffects
<1> SUFFICES ASSUME nextGen' = 2, life'.state = "active", NEW q \in Reqs PROVE Signalled(q)'
  BY <1>a, MarksBySignalsNext
<1>1. nextGen = 2
  <2>1. ~RequestBroker(t) BY SMTT(30) DEF RequestBroker, Replace
  <2> QED BY <2>1, CallerEffects
<1>2. CASE Activate(t)
  <2>1. place[t] \in Launching BY <1>2 DEF Activate, Launching
  <2>2. at[q] \in Asides BY <1>1, <2>1 DEF FirstInv
  <2> QED BY <1>b, <2>2 DEF Signalled, Asides
<1>3. CASE ~Activate(t)
  <2>1. /\ life' = life /\ work'[life.gen] = work[life.gen]
        /\ flagged'[life.gen] = flagged[life.gen]
    BY <1>3, CallerEffects
  <2>2. Signalled(q) BY <1>1, <2>1, MarksBySignals
  <2> QED BY <1>b, <2>1, <2>2 DEF Signalled
<1> QED BY <1>2, <1>3

\* a broker by itself drops a flag only with the work it flags,
LEMMA BrokersKeepMarks ==
    ASSUME PrivilegeTypeOK, OwnerInv, MarkInv, BrokerMoves
    PROVE  MarkInv'
<1>b. UNCHANGED <<life, nextGen, at, asked, early, mail>> BY BrokerEffects DEF Settled
<1> SUFFICES ASSUME nextGen' = 2, life'.state = "active", NEW q \in Reqs PROVE Signalled(q)'
  BY BrokerEffects, MarksBySignalsNext
<1>1. life.gen \in Gens /\ Signalled(q) BY <1>b, LifeGens, MarksBySignals
<1>2. WorkEnds(life.gen) BY <1>1, BrokerEffects
<1>3. \/ work'[life.gen][q] # "running"
      \/ /\ work'[life.gen][q] = work[life.gen][q]
         /\ flagged'[life.gen] = flagged[life.gen]
  <2>1. CASE work'[life.gen] = Idle BY <2>1 DEF Idle
  <2>2. ASSUME NEW r \in Reqs, NEW end \in WorkStates \ {"absent", "running"},
               WorkerEnded(life.gen, r, end)
        PROVE  \/ work'[life.gen][q] # "running"
               \/ /\ work'[life.gen][q] = work[life.gen][q]
                  /\ flagged'[life.gen] = flagged[life.gen]
    BY <1>1, <2>2 DEF WorkerEnded, PrivilegeTypeOK, BrokersOK
  <2> QED BY <1>2, <2>1, <2>2 DEF WorkEnds
<1> QED BY <1>b, <1>1, <1>3 DEF Signalled

\* and a step that leaves the requests alone keeps the marks.
LEMMA StillsKeepMarks ==
    ASSUME PrivilegeTypeOK, MarkInv, PrivilegeTypeOK', Untouched \/ Dropped,
           UNCHANGED <<nextGen, at, asked, early, mail>>
    PROVE  MarkInv'
BY SMTT(30) DEF MarkInv, Untouched, Dropped, brokerVars

-----------------------------------------------------------------------------
\* The invariant.
LEMMA PrivilegeInit == Init => PrivilegeInv
<1> SUFFICES ASSUME Init PROVE PrivilegeInv OBVIOUS
<1> USE PrivilegeConstants DEF Init
<1>1. PICK scenario \in Scenarios :
        /\ place = [t \in Callers |-> IF t \in scenario.callers THEN "start" ELSE "returned"]
        /\ at = [r \in Reqs |-> IF r \in scenario.reqs THEN "idle" ELSE "done"]
  OBVIOUS
<1>2. Idle \in [Reqs -> WorkStates] BY DEF Idle, WorkStates
<1>3. BrokersOK BY <1>2, SMTT(30) DEF BrokersOK
<1>4. CallersOK BY <1>1, SMTT(30) DEF CallersOK, Spots
<1>5. RequestsOK BY <1>1 DEF RequestsOK, Asides
<1>6. OwnerInv BY <1>1, SMTT(30) DEF OwnerInv, Holding, Launching
<1>7. FreshInv BY <1>1 DEF FreshInv, Launching
<1>8. BrokerOwnsOnlyCurrent /\ MarkInv BY DEF BrokerOwnsOnlyCurrent, MarkInv
<1>9. FirstInv BY <1>1 DEF FirstInv, Asides
<1> QED BY <1>3, <1>4, <1>5, <1>6, <1>7, <1>8, <1>9, SMTT(30) DEF PrivilegeInv, PrivilegeTypeOK

\* Every step keeps the invariant, by the part that takes it.
LEMMA PrivilegeNext == PrivilegeInv /\ [Next]_vars => PrivilegeInv'
<1> SUFFICES ASSUME PrivilegeInv, [Next]_vars PROVE PrivilegeInv' OBVIOUS
<1>a. /\ PrivilegeTypeOK /\ OwnerInv /\ FreshInv /\ BrokerOwnsOnlyCurrent /\ FirstInv /\ MarkInv
  BY DEF PrivilegeInv
<1>1. ASSUME NEW t \in Callers, CallerSteps(t) PROVE PrivilegeInv'
  BY <1>1, <1>a, CallerTypes, CallerKeepsOwners, CallersKeepFresh, CallersKeepCurrent,
     CallersKeepFirst, CallersKeepMarks DEF PrivilegeInv
<1>2. ASSUME NEW r \in Reqs, HandlerMoves(r) PROVE PrivilegeInv'
  <2>1. PrivilegeTypeOK' /\ Alters(r) /\ UNCHANGED <<place, hold, nextGen, app>>
    BY <1>2, <1>a, HandlerEffects
  <2>2. Settled \/ Dropped BY <2>1 DEF Alters, Untouched, Settled, brokerVars
  <2>3. OwnerInv' BY <1>a, <2>1, <2>2, OthersKeepOwners
  <2>4. FreshInv' BY <1>a, <2>1, AlteredWork, OthersKeepFresh
  <2> QED
    BY <1>2, <1>a, <2>1, <2>3, <2>4, HandlersKeepCurrent, HandlersKeepFirst, HandlersKeepMarks
       DEF PrivilegeInv
<1>3. ASSUME NEW r \in Reqs, ClientMoves(r) PROVE PrivilegeInv'
  <2>1. PrivilegeTypeOK' /\ Alters(r) /\ UNCHANGED <<place, hold, nextGen, app>>
    BY <1>3, <1>a, ClientEffects
  <2>2. Settled \/ Dropped BY <2>1 DEF Alters, Untouched, Settled, brokerVars
  <2>3. OwnerInv' BY <1>a, <2>1, <2>2, OthersKeepOwners
  <2>4. FreshInv' BY <1>a, <2>1, AlteredWork, OthersKeepFresh
  <2>5. at' = at BY <1>3 DEF ClientMoves, Ask, Deliver
  <2>6. life'.state = "active" => life.state = "active" BY <1>a, <2>1, AlteredOthers
  <2>7. FirstInv' BY <1>a, <2>1, <2>5, <2>6, OthersKeepFirst
  <2> QED
    BY <1>3, <1>a, <2>1, <2>3, <2>4, <2>7, ClientsKeepCurrent, ClientsKeepMarks DEF PrivilegeInv
<1>4. ASSUME WindowMoves PROVE PrivilegeInv'
  <2>1. /\ PrivilegeTypeOK' /\ (Untouched \/ Dropped)
        /\ UNCHANGED <<place, hold, nextGen, app, at, asked, early, mail>>
    BY <1>4, <1>a, WindowEffects
  <2>2. Settled \/ Dropped BY <2>1 DEF Untouched, Settled, brokerVars
  <2>3. OwnerInv' BY <1>a, <2>1, <2>2, OthersKeepOwners
  <2>4. OnlyActiveWorks BY <2>1 DEF Untouched, brokerVars, Dropped, OnlyActiveWorks
  <2>5. FreshInv' BY <1>a, <2>1, <2>4, OthersKeepFresh
  <2>6. life'.state = "active" => life.state = "active" BY <2>1, SMTT(30) DEF Untouched, Dropped
  <2>7. FirstInv' BY <1>a, <2>1, <2>6, OthersKeepFirst
  <2>8. MarkInv' BY <1>a, <2>1, StillsKeepMarks
  <2> QED BY <1>4, <1>a, <2>1, <2>3, <2>5, <2>7, <2>8, WindowKeepsCurrent DEF PrivilegeInv
<1>5. ASSUME BrokerMoves PROVE PrivilegeInv'
  <2>1. /\ PrivilegeTypeOK' /\ Settled /\ UNCHANGED <<place, hold, nextGen, app, at>>
    BY <1>5, <1>a, BrokerEffects
  <2>2. OwnerInv' BY <1>a, <2>1, OthersKeepOwners
  <2>3. FirstInv' BY <1>a, <2>1, OthersKeepFirst DEF Settled
  <2> QED
    BY <1>5, <1>a, <2>1, <2>2, <2>3, BrokersKeepFresh, BrokersKeepCurrent, BrokersKeepMarks
       DEF PrivilegeInv
<1>6. ASSUME End PROVE PrivilegeInv'
  <2>1. UNCHANGED <<life, nextGen, work, flagged, place, hold, at, asked, early, mail>>
    BY <1>6 DEF End, callerVars, requestVars
  <2>2. FreshInv' /\ BrokerOwnsOnlyCurrent' /\ FirstInv' /\ MarkInv'
    BY <1>a, <2>1 DEF FreshInv, BrokerOwnsOnlyCurrent, Owned, FirstInv, MarkInv
  <2> QED BY <1>6, <1>a, <2>2, EndTypes, EndKeepsOwners DEF PrivilegeInv
<1>7. ASSUME UNCHANGED vars PROVE PrivilegeInv'
  <2>1. UNCHANGED <<life, nextGen, brokerVars, callerVars, requestVars, app>>
    BY <1>7 DEF vars, restVars
  <2>2. PrivilegeTypeOK'
    BY <1>a, <2>1 DEF PrivilegeTypeOK, BrokersOK, CallersOK, RequestsOK, brokerVars, callerVars,
       requestVars
  <2>3. OwnerInv' /\ FreshInv' /\ BrokerOwnsOnlyCurrent' /\ FirstInv' /\ MarkInv'
    BY <1>a, <2>1 DEF OwnerInv, FreshInv, BrokerOwnsOnlyCurrent, Owned, FirstInv, MarkInv,
       brokerVars, callerVars, requestVars
  <2> QED BY <2>2, <2>3 DEF PrivilegeInv
<1> QED
  BY <1>1, <1>2, <1>3, <1>4, <1>5, <1>6, <1>7 DEF Next, HandlerMoves, ClientMoves, WindowMoves,
     BrokerMoves

\* Hence the invariant holds throughout.
LEMMA PrivilegeInvariant == Spec => []PrivilegeInv
BY PrivilegeInit, PrivilegeNext, PTL DEF Spec

-----------------------------------------------------------------------------
\* Every reachable broker has one owner, and every command an active broker runs
\* has a handler that still serves it: nothing elevated is left to nobody by a
\* displacement, a fault, a downgrade or a late answer (control.rs, broker.rs).
THEOREM ElevationStaysOwned == Spec => []ElevationIsOwned
<1>1. PrivilegeInv => ElevationIsOwned
  <2> SUFFICES ASSUME PrivilegeInv PROVE ElevationIsOwned OBVIOUS
  <2>a. PrivilegeTypeOK /\ OwnerInv /\ BrokerOwnsOnlyCurrent BY DEF PrivilegeInv
  <2>1. ASSUME NEW g \in Gens, app = "up", pipe[g] = "open"
        PROVE  Cardinality({t \in Callers : hold[t] = g}) + (IF life.gen = g THEN 1 ELSE 0) = 1
    <3>0. g # 0 BY SMTT(30) DEF Gens
    <3>1. CASE life.gen = g
      <4>1. {t \in Callers : hold[t] = g} = {} BY <2>a, <3>0, <3>1 DEF OwnerInv
      <4> QED BY <3>1, <4>1, FS_EmptySet, SMTT(30)
    <3>2. CASE life.gen # g
      <4>1. PICK t \in Callers : hold[t] = g BY <2>1, <2>a, <3>2 DEF OwnerInv
      <4>2. {u \in Callers : hold[u] = g} = {t} BY <2>a, <3>0, <4>1 DEF OwnerInv
      <4>3. Cardinality({t}) = 1 BY FS_Singleton
      <4> QED BY <3>2, <4>2, <4>3, SMTT(30)
    <3> QED BY <3>1, <3>2
  <2> QED BY <2>1, <2>a DEF ElevationIsOwned, BrokerHasOneOwner
<1> QED BY <1>1, PrivilegeInvariant, PTL

\* While one broker serves, a cancellation that was accepted is on its way until
\* the flag of the worker it names is set: neither the handler that finds the mark
\* when it sets its target, nor the copy that follows a later one, misses it
\* (server.rs, activate_request_target and cancel_registered_request).
THEOREM MarksAreSignalled == Spec => []MarkedIsSignalled
<1>1. PrivilegeInv => MarkedIsSignalled BY DEF PrivilegeInv, MarkInv, MarkedIsSignalled
<1> QED BY <1>1, PrivilegeInvariant, PTL

\* disable reports success only with the broker process it took gone, and the
\* privileged work with it (control.rs, wait_for_exit and terminate).
THEOREM DisabledBrokersEnd == Spec => DisableEnds
<1>1. ASSUME PrivilegeInv, [Next]_vars, NEW t \in Callers, place[t] = "waiting",
             place'[t] # "waiting", fine'[t]
      PROVE  proc'[hold[t]] = "exited" /\ work'[hold[t]] = Idle
  <2>a. PrivilegeTypeOK /\ OwnerInv BY <1>1 DEF PrivilegeInv
  <2>1. CallerSteps(t)
    <3>1. ASSUME place' = place PROVE FALSE BY <1>1, <3>1
    <3>2. ASSUME NEW u \in Callers, u # t, CallerSteps(u) PROVE FALSE
      BY <1>1, <2>a, <3>2, CallerEffects
    <3>3. ASSUME NEW r \in Reqs, HandlerMoves(r) \/ ClientMoves(r) PROVE place' = place
      BY <2>a, <3>3, HandlerEffects, ClientEffects
    <3>4. WindowMoves \/ BrokerMoves => place' = place BY <2>a, WindowEffects, BrokerEffects
    <3>5. End \/ UNCHANGED vars => place' = place BY DEF End, vars, callerVars
    <3> QED
      BY <1>1, <3>1, <3>2, <3>3, <3>4, <3>5 DEF Next, HandlerMoves, ClientMoves, WindowMoves,
         BrokerMoves
  <2>2. AwaitExit(t)
    BY <1>1, <2>1 DEF CallerSteps, AdmitMode, SetDesired, Downgrade, Persist, Reconcile,
       FollowPlan, StartUp, CloseGate, StopServer, ShutDown, RequestBroker, CreatePipe, Launch,
       Accept, Handshake, Activate
  <2>3. hold[t] \in Gens BY <1>1, <2>a, SMTT(30) DEF OwnerInv, Holding, PrivilegeTypeOK,
                            CallersOK, Gens
  <2>4. Release({hold[t]}, {}) BY <2>2 DEF AwaitExit
  <2>8. PICK ok \in {FALSE, fine[t] /\ proc'[hold[t]] = "exited"} :
          fine' = [fine EXCEPT ![t] = ok]
    BY <2>2 DEF AwaitExit
  <2>5. proc'[hold[t]] = "exited"
    BY <1>1, <2>8, <2>a DEF PrivilegeTypeOK, CallersOK
  <2>6. PICK resists \in SUBSET {g \in {hold[t]} : Alive(g)} :
          /\ proc' = [g \in Gens |-> IF g \in {hold[t]} \ resists THEN "exited" ELSE proc[g]]
          /\ work' = [g \in Gens |-> IF g \in {hold[t]} \ resists THEN Idle ELSE work[g]]
    BY <2>4 DEF Release
  <2>7. hold[t] \notin resists BY <2>3, <2>5, <2>6 DEF Alive
  <2> QED BY <2>3, <2>5, <2>6, <2>7
<1>2. PrivilegeInv /\ [Next]_vars =>
        [\A t \in Callers :
           place[t] = "waiting" /\ place'[t] # "waiting" /\ fine'[t]
           => proc'[hold[t]] = "exited" /\ work'[hold[t]] = Idle]_vars
  BY <1>1
<1> QED BY <1>2, PrivilegeInvariant, PTL DEF Spec, DisableEnds
=============================================================================
