--------------------------- MODULE RequestsProofs ---------------------------
(***************************************************************************)
(* Proofs about the life of a tools/call, for any number of workers,       *)
(* sessions and requests: it uses the scheduler as the scheduler allows,   *)
(* its task tells what the client is told, a stopped server leaves nothing *)
(* behind, and a cancellation made before the admission is honoured.       *)
(***************************************************************************)
EXTENDS Requests, SchedulerProofs

\* The provers and their time limits, unless a step names another.
USE ZenonT(30), SMTT(30)

\* A client gives a filesystem call an id that no other call of its own uses.
FilesystemIdsAreFresh ==
    \A v, w \in Workers :
        Request[v] = Request[w] /\ Tool[v] = "filesystem" /\ v # w => Tool[w] = "observe"

Results == {"completed", "failed", "cancelled"}
Replies == Results \cup {"blocked", "duplicate", "lost", "unavailable", "stopping",
                           "no_session"}
Stages == {"idle", "known", "leased", "tasked", "registered", "admitted", "activated",
           "direct", "authorized", "redirecting", "registering", "guarded", "calling",
           "returned", "recorded", "removing", "answered", "released", "done"}

\* The state of the registries has the values their code can store.
RequestsTypeOK ==
    /\ session \in [Sessions -> {"absent", "open", "gone"}]
    /\ stage \in [Workers -> Stages]
    /\ target \in [Requests -> {"none", "queued"} \cup Workers]
    /\ task \in [Workers -> {"none"} \cup LiveTask \cup Replies]
    /\ call \in [Workers -> {"none", "running", "signalled"}]
    /\ response \in [Workers -> {"none"} \cup Replies]
    /\ guard \in {"free"} \cup Workers
    /\ asked \in SUBSET Requests /\ asks \in SUBSET Requests /\ blamed \in SUBSET Requests
    /\ relay \in SUBSET Workers /\ early \in SUBSET Workers
    /\ mail \in SUBSET [key : Requests, to : {"queued"} \cup Workers]
    /\ settling \in SUBSET Sessions /\ sweeps \in SUBSET Sessions
    /\ server \in {"serving", "ended", "closing", "joined"} /\ stopping \in BOOLEAN
    /\ rounds \in Nat

\* What the scheduler and the task registry hold for a worker at each stage.
Serving == {"admitted", "activated", "direct", "authorized", "redirecting", "registering",
            "guarded", "calling", "returned", "recorded"}
BeforeAdmission(w) ==
    /\ stage[w] \in {"idle", "known", "leased", "tasked"} => pc[w] = "idle"
    /\ stage[w] \in {"idle", "known", "leased"} => task[w] = "none"
    /\ stage[w] = "tasked" => Tool[w] \in WorkTools /\ task[w] = "queued"
InAdmission(w) ==
    stage[w] = "registered" =>
        /\ Tool[w] \in WorkTools
        /\ pc[w] \notin {"released"} \cup ImmediateLanes
        /\ task[w] = IF pc[w] = "cancelled" \/ w \in cancelled THEN "cancelled" ELSE "queued"
InService(w) ==
    /\ stage[w] \in Serving =>
         \/ /\ Tool[w] \in WorkTools /\ pc[w] = "work"
            /\ stage[w] # "recorded" => task[w] = "running"
         \/ Tool[w] = "control" /\ pc[w] = "control" /\ task[w] = "none"
    /\ stage[w] \in {"authorized", "redirecting", "registering"} => Tool[w] = "filesystem"
    /\ stage[w] = "activated" => Tool[w] # "filesystem"
    /\ stage[w] = "direct" => Tool[w] = "control"
    /\ stage[w] \in {"returned", "recorded"} => response[w] \in Results
    /\ stage[w] = "recorded" =>
         /\ Tool[w] # "filesystem"
         /\ Tool[w] = "runtime" =>
              task[w] = IF response[w] = "completed" THEN "running" ELSE response[w]
    /\ stage[w] = "removing" =>
         Tool[w] = "filesystem" /\ pc[w] = "work" /\ task[w] \in Tells(response[w])
AfterService(w) ==
    /\ Over(w) =>
         pc[w] \notin {"waiting", "woken"} /\ task[w] \in {"none"} \cup Tells(response[w])
    /\ stage[w] \in {"released", "done"} => pc[w] \notin {"work"} \cup ImmediateLanes
StageInv ==
    \A w \in Workers :
        BeforeAdmission(w) /\ InAdmission(w) /\ InService(w) /\ AfterService(w)

\* A cancellation has a cause: everything that can still cancel a call belongs to
\* a request that was cancelled or abandoned, unless the scheduler was closed.
Blamed(k) == k \in blamed \/ closed
BlameInv ==
    /\ \A k \in asks \cup asked : Blamed(k)
    /\ \A m \in mail : Blamed(m.key)
    /\ \A s \in settling \cup sweeps, w \in Workers : Owner[w] = s => Blamed(Request[w])
    /\ \A w \in Workers :
         (call[w] = "signalled" \/ task[w] = "cancelled" \/ response[w] = "cancelled")
            => Blamed(Request[w])
    /\ \A w \in Workers : pc[w] = "closed" => closed
\* Targets, and the copies of them under way, point to calls of their own request.
TargetInv ==
    /\ \A k \in Requests : target[k] \in Workers => Request[target[k]] = k
    /\ \A m \in mail : m.to \in Workers => Request[m.to] = m.key

\* One worker at a time has its request in the registry.
Holds(w) ==
    \/ stage[w] \in {"registered"} \cup Serving /\ Tool[w] \in WorkTools
    \/ stage[w] \in Serving \ {"admitted"} /\ Tool[w] = "control"
    \/ stage[w] = "removing"
HoldInv ==
    /\ \A k \in Requests : Active(k) => \E w \in Workers : Request[w] = k /\ Holds(w)
    /\ \A w \in Workers : Holds(w) /\ stage[w] # "removing" => Active(Request[w])
    /\ \A v, w \in Workers : Holds(v) /\ Holds(w) /\ Request[v] = Request[w] => v = w

\* The guard of the facade is held by a worker that has not dropped its permit.
GuardInv ==
    guard # "free" =>
        /\ stage[guard] \in {"guarded", "calling", "returned", "recorded", "answered"}
        /\ Tool[guard] # "filesystem"

\* A mark made before the admission lasts as long as the call.
EarlyInv ==
    \A w \in early :
        /\ stage[w] \in {"registered", "removing", "answered", "released"} \cup Serving
        /\ Tool[w] = "runtime" =>
             /\ stage[w] \in ({"registered"} \cup Serving) \ {"recorded"} => Request[w] \in asked
             /\ stage[w] \in {"recorded", "answered", "released"} => response[w] # "completed"

ServerInv ==
    /\ server \in {"closing", "joined"} => closed
    /\ server = "joined" => \A w \in Workers : stage[w] \in {"idle", "done"}

RequestsInv ==
    /\ RequestsTypeOK /\ StageInv /\ BlameInv /\ TargetInv
    /\ HoldInv /\ GuardInv /\ EarlyInv /\ ServerInv

-----------------------------------------------------------------------------
\* The composed system changes the scheduler only through its own operations.
LEMMA SchedulerSteps ==
    ASSUME mail \in SUBSET [key : Requests, to : {"queued"} \cup Workers], [Next]_vars
    PROVE  [SchedNext]_schedVars
<1>1. CASE UNCHANGED vars BY <1>1 DEF vars
<1>2. ASSUME NEW w \in Workers,
             \/ Lookup(w) \/ TakeLease(w) \/ RefuseUnauthorized(w) \/ QueueTask(w)
             \/ RegisterWork(w) \/ AdmissionSettled(w) \/ Activate(w) \/ LockGuard(w)
             \/ DirectControl(w)
             \/ StartCall(w) \/ EndCall(w) \/ RecordOutcome(w) \/ FinishCall(w)
             \/ FsAuthorize(w) \/ FsLook(w) \/ FsActivate(w) \/ FsDuplicate(w)
             \/ FsFinish(w) \/ RemoveAgain(w)
             \/ DropGuard(w) \/ DropLease(w) \/ RelaySends(w)
      PROVE  UNCHANGED schedVars
  BY <1>2 DEF Lookup, TakeLease, RefuseUnauthorized, QueueTask, RegisterWork,
     AdmissionSettled, Activate, LockGuard, DirectControl, StartCall, EndCall, RecordOutcome,
     FinishCall,
     FsAuthorize, FsLook, FsActivate, FsDuplicate, FsFinish, RemoveAgain, DropGuard, DropLease,
     RelaySends
<1>3. ASSUME NEW w \in Workers,
             \/ Admit(w) \/ Oversleep(w) \/ LookAgain(w) \/ EnterLane(w) \/ DropPermit(w)
      PROVE  [SchedNext]_schedVars
  BY <1>3 DEF Admit, Oversleep, LookAgain, EnterLane, DropPermit, SchedNext, ImmediateLanes
<1>4. ASSUME NEW s \in Sessions, NEW w \in Workers, CancelTask(s, w)
      PROVE  [SchedNext]_schedVars
  BY <1>4 DEF CancelTask, SchedNext
<1>5. ASSUME NEW k \in Requests, CancelNotification(k) \/ AskNext(k)
      PROVE  UNCHANGED schedVars
  BY <1>5 DEF CancelNotification, AskNext
<1>6. ASSUME NEW m \in mail, Deliver(m) PROVE [SchedNext]_schedVars
  BY <1>6 DEF Deliver, SchedNext
<1>7. ASSUME NEW s \in Sessions, OpenSession(s) \/ CloseSession(s) \/ Reap(s) \/ SettleSession(s)
      PROVE  UNCHANGED schedVars
  BY <1>7 DEF OpenSession, CloseSession, Reap, SettleSession
<1>8. ASSUME NEW s \in Sessions, Sweep(s) PROVE [SchedNext]_schedVars
  BY <1>8 DEF Sweep, SchedNext
<1>9. CASE CloseScheduler BY <1>9 DEF CloseScheduler, SchedNext
<1>10. CASE Stop \/ CancelRound \/ Join BY <1>10 DEF Stop, CancelRound, Join
<1> QED
  BY <1>1, <1>2, <1>3, <1>4, <1>5, <1>6, <1>7, <1>8, <1>9, <1>10
     DEF Next, WorkerStep, ServerStep

-----------------------------------------------------------------------------
\* Finishing tasks leaves every task a task.
LEMMA FinishedTasks ==
    ASSUME NEW ws, NEW outcome \in Replies,
           task \in [Workers -> {"none"} \cup LiveTask \cup Replies], FinishTasks(ws, outcome)
    PROVE  /\ task' \in [Workers -> {"none"} \cup LiveTask \cup Replies]
           /\ \A w \in Workers :
                task'[w] = IF w \in ws /\ task[w] \in LiveTask THEN outcome ELSE task[w]
BY DEF FinishTasks

\* Registering, redirecting and removing keep the registry well formed.
LEMMA RegistryTypes ==
    ASSUME RequestsTypeOK, NEW k \in Requests, NEW t \in {"none", "queued"} \cup Workers,
           \/ RegisterRequest(k, t)
           \/ \E relayed \in SUBSET Workers : ReplaceTarget(k, t, relayed)
    PROVE  /\ target' \in [Requests -> {"none", "queued"} \cup Workers]
           /\ asked' \in SUBSET Requests /\ relay' \in SUBSET Workers
BY DEF RequestsTypeOK, RegisterRequest, ReplaceTarget

\* A worker's own steps keep the types.
LEMMA WorkerTypes ==
    ASSUME SchedTypeOK, RequestsTypeOK, StageInv, NEW w \in Workers,
           Lookup(w) \/ WorkerStep(w) \/ Oversleep(w)
    PROVE  RequestsTypeOK'
<1> USE RequestsConstants, SchedulerConstants DEF Results, Replies, Stages, LiveTask
<1> Request[w] \in Requests OBVIOUS
<1>1. ASSUME \/ Lookup(w) \/ TakeLease(w) \/ RefuseUnauthorized(w) \/ QueueTask(w)
      PROVE  RequestsTypeOK'
  BY <1>1, SMTT(30) DEF Lookup, TakeLease, RefuseUnauthorized, QueueTask, Proceed, Refuse, Answer,
     UpdateOwned, RequestsTypeOK, sessionVars, registryVars, callVars, cancelVars, serverVars
<1>2. ASSUME RegisterWork(w) PROVE RequestsTypeOK'
  BY <1>2, FinishedTasks, RegistryTypes, SMTT(30)
     DEF RegisterWork, Proceed, Answer, RequestsTypeOK, registryVars, cancelVars,
         serverVars, sessionVars
<1>3. ASSUME Admit(w) \/ Oversleep(w) \/ LookAgain(w) PROVE RequestsTypeOK'
  BY <1>3, SMTT(30) DEF Admit, Oversleep, LookAgain, RequestsTypeOK, sessionVars, registryVars,
     callVars, cancelVars, serverVars
<1>4. ASSUME AdmissionSettled(w) PROVE RequestsTypeOK'
  <2>1. CASE MarkRunning(w) /\ Proceed(w, "admitted") /\ UNCHANGED registryVars
    BY <1>4, <2>1 DEF AdmissionSettled, MarkRunning, Proceed, RequestsTypeOK, registryVars,
       cancelVars, serverVars, sessionVars
  <2>2. ASSUME NEW o \in {"blocked", "cancelled"}, NEW r \in {"blocked", "cancelled", "stopping"},
               RemoveRequest(Request[w]), FinishTasks({w}, o), Answer(w, r)
        PROVE  RequestsTypeOK'
    BY <1>4, <2>2, FinishedTasks, RegistryTypes
       DEF AdmissionSettled, RemoveRequest, Answer, RequestsTypeOK, cancelVars, serverVars,
           sessionVars
  <2>3. (IF pc[w] = "closed" THEN "stopping" ELSE "cancelled") \in {"cancelled", "stopping"}
    OBVIOUS
  <2> QED BY <1>4, <2>1, <2>2, <2>3 DEF AdmissionSettled
<1>5. ASSUME EnterLane(w) PROVE RequestsTypeOK'
  BY <1>5, SMTT(30) DEF EnterLane, Proceed, Answer, RequestsTypeOK, registryVars, cancelVars,
     serverVars, sessionVars
<1>6. ASSUME Activate(w) PROVE RequestsTypeOK'
  <2>1. /\ target' \in [Requests -> {"none", "queued"} \cup Workers]
        /\ asked' \in SUBSET Requests /\ relay' \in SUBSET Workers
    <3>1. CASE UNCHANGED registryVars BY <3>1 DEF registryVars, RequestsTypeOK
    <3>2. CASE RegisterRequest(Request[w], w) BY <3>2, RegistryTypes
    <3>3. CASE ReplaceTarget(Request[w], w, {w}) BY <3>3, RegistryTypes
    <3> QED BY <1>6, <3>1, <3>2, <3>3 DEF Activate
  <2>2. mail' \in SUBSET [key : Requests, to : {"queued"} \cup Workers]
    BY <1>6, SMTT(30) DEF Activate, cancelVars, RequestsTypeOK
  <2>3. stage' \in [Workers -> Stages] /\ response' \in [Workers -> {"none"} \cup Replies]
    <3>1. CASE Answer(w, "duplicate")
      BY <3>1, SMTT(30) DEF Answer, RequestsTypeOK, Stages, Replies
    <3>2. CASE Proceed(w, "activated") BY <3>2, SMTT(30) DEF Proceed, RequestsTypeOK, Stages
    <3> QED BY <1>6, <3>1, <3>2 DEF Activate
  <2>4. /\ UNCHANGED <<session, task, call, guard, server, stopping, rounds>>
        /\ UNCHANGED <<asks, settling, sweeps, blamed, early>>
    BY <1>6 DEF Activate, Proceed, Answer, cancelVars, serverVars, sessionVars
  <2> QED BY <2>1, <2>2, <2>3, <2>4 DEF RequestsTypeOK
<1>7. ASSUME LockGuard(w) PROVE RequestsTypeOK'
  BY <1>7, FinishedTasks, RegistryTypes, SMTT(30)
     DEF LockGuard, RemoveRequest, AbandonTask, Answer, Proceed, RequestsTypeOK,
         registryVars, cancelVars, serverVars, sessionVars
<1>8. ASSUME StartCall(w) \/ EndCall(w) \/ DropGuard(w) \/ DropPermit(w) PROVE RequestsTypeOK'
  BY <1>8, SMTT(30) DEF StartCall, EndCall, DropGuard, DropPermit, Proceed, RequestsTypeOK,
     registryVars, cancelVars, serverVars, sessionVars
<1>9. ASSUME RecordOutcome(w) PROVE RequestsTypeOK'
  <2>1. Normalize(w) \in Replies
    BY <1>9 DEF RecordOutcome, Normalize, StageInv, InService
  <2> QED BY <1>9, <2>1, FinishedTasks
      DEF RecordOutcome, RequestsTypeOK, registryVars, cancelVars, serverVars, sessionVars
<1>10. ASSUME FinishCall(w) PROVE RequestsTypeOK'
  <2>1. response[w] \in Replies BY <1>10 DEF FinishCall, StageInv, InService
  <2> QED BY <1>10, <2>1, FinishedTasks, RegistryTypes
      DEF FinishCall, RemoveRequest, Answer, RequestsTypeOK, registryVars, cancelVars,
          serverVars, sessionVars
<1>11. ASSUME FsAuthorize(w) \/ FsLook(w) \/ FsDuplicate(w) PROVE RequestsTypeOK'
  <2> DEFINE Typed ==
        /\ stage' \in [Workers -> Stages] /\ response' \in [Workers -> {"none"} \cup Replies]
        /\ task' \in [Workers -> {"none"} \cup LiveTask \cup Replies]
  <2>1. Typed
    <3>1. ASSUME NEW o \in {"blocked", "lost"}, NEW r \in {"blocked", "stopping", "duplicate"},
                 HandlerEnds(w, o, r)
          PROVE  Typed
      BY <3>1, FinishedTasks DEF HandlerEnds, RequestsTypeOK
    <3>2. ASSUME NEW s \in {"authorized", "redirecting", "registering"}, Proceed(w, s),
                 task' = task
          PROVE  Typed
      BY <3>2 DEF Proceed, RequestsTypeOK
    <3> QED BY <1>11, <3>1, <3>2 DEF FsAuthorize, FsLook, FsDuplicate
  <2>2. UNCHANGED <<call, guard, sessionVars, registryVars, cancelVars, serverVars>>
    BY <1>11 DEF FsAuthorize, FsLook, FsDuplicate, HandlerEnds, Proceed
  <2> QED BY <2>1, <2>2 DEF RequestsTypeOK, sessionVars, registryVars, cancelVars, serverVars
<1>12. ASSUME FsActivate(w) PROVE RequestsTypeOK'
  BY <1>12, RegistryTypes DEF FsActivate, RequestsTypeOK,
     registryVars, cancelVars, serverVars, sessionVars
<1>13. ASSUME FsFinish(w) PROVE RequestsTypeOK'
  <2>1. response[w] \in Replies BY <1>13 DEF FsFinish, StageInv, InService
  <2> QED BY <1>13, <2>1, FinishedTasks, RegistryTypes
      DEF FsFinish, HandlerEnds, RemoveRequest, RequestsTypeOK, registryVars, cancelVars,
          serverVars, sessionVars
<1>14. ASSUME RemoveAgain(w) \/ DropLease(w) PROVE RequestsTypeOK'
  BY <1>14, RegistryTypes, SMTT(30) DEF RemoveAgain, DropLease, RemoveRequest, UpdateOwned,
     Proceed,
     RequestsTypeOK, registryVars, cancelVars, serverVars, sessionVars
<1>15. ASSUME DirectControl(w) PROVE RequestsTypeOK'
  BY <1>15, RegistryTypes, SMTT(30)
     DEF DirectControl, RemoveRequest, Answer, RequestsTypeOK, cancelVars, serverVars, sessionVars
<1> QED
  BY <1>1, <1>2, <1>3, <1>4, <1>5, <1>6, <1>7, <1>8, <1>9, <1>10, <1>11, <1>12, <1>13,
     <1>14, <1>15 DEF WorkerStep

\* So do the steps of the threads that cancel, open, close and stop.
LEMMA OtherTypes ==
    ASSUME SchedTypeOK, RequestsTypeOK,
           \/ \E w \in Workers : RelaySends(w) \/ \E s \in Sessions : CancelTask(s, w)
           \/ \E k \in Requests : CancelNotification(k) \/ AskNext(k)
           \/ \E m \in mail : Deliver(m)
           \/ \E s \in Sessions : \/ OpenSession(s) \/ CloseSession(s) \/ Reap(s)
                                     \/ SettleSession(s) \/ Sweep(s)
           \/ Stop \/ ServerStep
    PROVE  RequestsTypeOK'
<1> USE RequestsConstants, SchedulerConstants DEF Results, Replies, Stages, LiveTask
<1>1. ASSUME NEW w \in Workers, RelaySends(w) PROVE RequestsTypeOK'
  BY <1>1 DEF RelaySends, Signal, RequestsTypeOK, registryVars, cancelVars, serverVars,
     sessionVars
<1>2. ASSUME NEW w \in Workers, NEW s \in Sessions, CancelTask(s, w) PROVE RequestsTypeOK'
  BY <1>2, FinishedTasks, SMTT(30) DEF CancelTask, Disrupt, RequestsTypeOK, registryVars,
     callVars,
     serverVars, sessionVars
<1>3. ASSUME NEW k \in Requests, CancelNotification(k) \/ AskNext(k) PROVE RequestsTypeOK'
  <2>1. Active(k) => target[k] \in {"queued"} \cup Workers BY DEF Active, RequestsTypeOK
  <2>2. ASSUME MarkCancelled(k)
        PROVE  /\ mail' \in SUBSET [key : Requests, to : {"queued"} \cup Workers]
               /\ asked' \in SUBSET Requests /\ early' \in SUBSET Workers
    BY <2>1, <2>2, SMTT(30) DEF MarkCancelled, RequestsTypeOK
  <2> QED BY <1>3, <2>2, SMTT(30) DEF CancelNotification, AskNext, Disrupt, RequestsTypeOK,
          callVars, serverVars, sessionVars
<1>4. ASSUME NEW m \in mail, Deliver(m) PROVE RequestsTypeOK'
  <2>1. task' \in [Workers -> {"none"} \cup LiveTask \cup Replies]
    <3>1. CASE UNCHANGED task BY <3>1 DEF RequestsTypeOK
    <3>2. CASE FinishTasks(queue \ queue', "cancelled")
      BY <3>2, FinishedTasks DEF RequestsTypeOK
    <3> QED BY <1>4, <3>1, <3>2 DEF Deliver
  <2>2. call' \in [Workers -> {"none", "running", "signalled"}]
    BY <1>4 DEF Deliver, Signal, RequestsTypeOK
  <2> QED BY <1>4, <2>1, <2>2 DEF Deliver, RequestsTypeOK, registryVars, serverVars,
          sessionVars
<1>5. ASSUME NEW s \in Sessions, OpenSession(s) \/ CloseSession(s) \/ Reap(s)
      PROVE  RequestsTypeOK'
  BY <1>5, SMTT(30) DEF OpenSession, CloseSession, Reap, Disrupt, KeysOf, RequestsTypeOK,
     registryVars, callVars, cancelVars, serverVars
<1>9. ASSUME NEW s \in Sessions, SettleSession(s) PROVE RequestsTypeOK'
  <2>1. KeysOf(s) \cap ActiveKeys \in SUBSET Requests BY DEF ActiveKeys
  <2> QED BY <1>9, <2>1 DEF SettleSession, RequestsTypeOK, registryVars, callVars, serverVars,
          sessionVars
<1>6. ASSUME NEW s \in Sessions, Sweep(s) PROVE RequestsTypeOK'
  BY <1>6, FinishedTasks DEF Sweep, RequestsTypeOK, registryVars, callVars, serverVars,
     sessionVars
<1>7. CASE Stop \/ CancelRound \/ Join
  BY <1>7, SMTT(30) DEF Stop, CancelRound, Join, ActiveKeys, RoundsLeft, RequestsTypeOK,
     registryVars,
     callVars, cancelVars, sessionVars
<1>8. CASE CloseScheduler
  BY <1>8, FinishedTasks DEF CloseScheduler, RequestsTypeOK, registryVars, callVars,
     cancelVars, sessionVars
<1> QED BY <1>1, <1>2, <1>3, <1>4, <1>5, <1>6, <1>7, <1>8, <1>9 DEF ServerStep

-----------------------------------------------------------------------------
\* Stages.  A step leaves a worker where it is, at most awake, or takes its ticket
\* out of the queue, or is the worker's own.
Stays(v) ==
    /\ stage'[v] = stage[v] /\ response'[v] = response[v] /\ task'[v] = task[v]
    /\ \/ pc'[v] = pc[v]
       \/ pc[v] = "waiting" /\ pc'[v] = "woken"
    /\ v \in cancelled' <=> v \in cancelled
Struck(v) ==
    /\ stage'[v] = stage[v] /\ response'[v] = response[v]
    /\ task'[v] = IF task[v] \in LiveTask THEN "cancelled" ELSE task[v]
    /\ v \in queue /\ pc'[v] = "woken" /\ v \in cancelled'
Staged(w) == BeforeAdmission(w) /\ InAdmission(w) /\ InService(w) /\ AfterService(w)

\* A worker that a step leaves alone keeps what its stage promises.
LEMMA StaysStaged ==
    ASSUME NEW v \in Workers, Staged(v), Stays(v)
    PROVE  Staged(v)'
BY DEF Stays, Staged, BeforeAdmission, InAdmission, InService, AfterService, Over,
   ImmediateLanes

\* A queued worker is registered, and its task is live.
LEMMA QueuedIsRegistered ==
    ASSUME TicketsMatchWaiters, RequestsTypeOK, NEW v \in queue, v \in Workers, Staged(v)
    PROVE  stage[v] = "registered" /\ task[v] = "queued" /\ Tool[v] \in WorkTools
BY DEF TicketsMatchWaiters, RequestsTypeOK, Stages, Staged, BeforeAdmission, InAdmission,
   InService, AfterService, Over, Serving

\* So does a queued worker that a cancellation or the close takes out of the queue.
LEMMA StruckStaged ==
    ASSUME TicketsMatchWaiters, RequestsTypeOK, NEW v \in Workers, Staged(v), Struck(v)
    PROVE  Staged(v)'
<1>1. stage[v] = "registered" /\ task[v] = "queued" /\ Tool[v] \in WorkTools
  BY QueuedIsRegistered DEF Struck
<1> QED BY <1>1 DEF Struck, Staged, BeforeAdmission, InAdmission, InService, AfterService,
        Over, ImmediateLanes, LiveTask, Serving

\* A worker's own step leaves the others where they are, and takes it to the next
\* stage with what belongs there.
LEMMA WorkerStages ==
    ASSUME SchedTypeOK, TicketsMatchWaiters, RequestsTypeOK, StageInv, HoldInv,
           NEW w \in Workers, Lookup(w) \/ WorkerStep(w) \/ Oversleep(w)
    PROVE  (\A v \in Workers : v # w => Stays(v)) /\ Staged(w)'
<1>a. Staged(w) BY DEF StageInv, Staged
<1> USE RequestsConstants
    DEF RequestsTypeOK, Stays, Staged, BeforeAdmission, InAdmission, InService,
        AfterService, Over, Serving, ImmediateLanes, WorkTools, LiveTask, Tells
<1>1. CASE Lookup(w) BY <1>a, <1>1, SMTT(30) DEF Lookup, Proceed, Refuse, schedVars
<1>2. CASE TakeLease(w) BY <1>a, <1>2, SMTT(30) DEF TakeLease, Proceed, Refuse, schedVars
<1>3. CASE RefuseUnauthorized(w) BY <1>a, <1>3 DEF RefuseUnauthorized, Answer, schedVars
<1>4. CASE QueueTask(w) BY <1>a, <1>4 DEF QueueTask, Proceed, schedVars
<1>5. CASE RegisterWork(w)
  <2>1. CASE Answer(w, "duplicate")
    BY <1>a, <1>5, <2>1, SMTT(30) DEF RegisterWork, FinishTasks, Proceed, Answer, schedVars
  <2>2. CASE Proceed(w, "registered")
    BY <1>a, <1>5, <2>2, SMTT(30) DEF RegisterWork, Proceed, Answer, schedVars,
       TicketsMatchWaiters
  <2> QED BY <1>5, <2>1, <2>2 DEF RegisterWork
<1>6. CASE Admit(w)
  <2>1. stage' = stage /\ response' = response /\ task' = task /\ cancelled' = cancelled
    BY <1>6 DEF Admit, callVars, AdmitWork, AdmitClosed, AdmitDirectly, AdmitRejected,
       AdmitQueued
  <2>2. /\ pc[w] = "idle" /\ pc'[w] \in {"closed", "work", "rejected", "waiting"}
        /\ \A v \in Workers : v # w => pc'[v] = pc[v]
    BY <1>6 DEF Admit, AdmitWork, AdmitClosed, AdmitDirectly, AdmitRejected, AdmitQueued,
       SchedTypeOK
  <2>3. w \notin cancelled BY <2>2 DEF TicketsMatchWaiters
  <2> QED BY <1>a, <1>6, <2>1, <2>2, <2>3 DEF Admit
<1>7. CASE Oversleep(w)
  BY <1>a, <1>7 DEF Oversleep, WakeSpuriously, SchedTypeOK, callVars
<1>8. CASE LookAgain(w)
  <2>1. stage' = stage /\ response' = response /\ task' = task
    BY <1>8 DEF LookAgain, callVars
  <2>2. /\ pc[w] = "woken"
        /\ \/ w \in cancelled /\ pc'[w] = "cancelled"
           \/ w \notin cancelled' /\ w \notin cancelled /\ pc'[w] \in {"work", "waiting"}
        /\ \A v \in Workers : v # w => pc'[v] = pc[v] /\ (v \in cancelled' <=> v \in cancelled)
    BY <1>8, SMTT(30) DEF LookAgain, Recheck, TakeCancellation, TakeSlot, WaitAgain,
       ConsumeTicket,
       SchedTypeOK
  <2> QED BY <1>a, <2>1, <2>2
<1>9. CASE AdmissionSettled(w)
  BY <1>a, <1>9, SMTT(30) DEF AdmissionSettled, MarkRunning, FinishTasks, Proceed, Answer,
     schedVars,
     TicketsMatchWaiters
<1>10. CASE EnterLane(w)
  BY <1>a, <1>10, SMTT(30) DEF EnterLane, EnterImmediate, SchedTypeOK, Proceed, Answer
<1>11. CASE Activate(w)
  <2>1. CASE Answer(w, "duplicate")
    <3>1. Tool[w] = "runtime" => Active(Request[w]) BY <1>11 DEF Activate, HoldInv, Holds
    <3>2. Tool[w] = "control" BY <1>11, <2>1, <3>1 DEF Activate, Proceed, Answer
    <3> QED BY <1>a, <1>11, <2>1, <3>2 DEF Activate, Answer, schedVars
  <2>2. CASE Proceed(w, "activated")
    BY <1>a, <1>11, <2>2 DEF Activate, Proceed, Answer, schedVars
  <2> QED BY <1>11, <2>1, <2>2 DEF Activate
<1>12. CASE LockGuard(w)
  BY <1>a, <1>12, SMTT(30) DEF LockGuard, AbandonTask, FinishTasks, Answer, Proceed, schedVars
<1>13. CASE StartCall(w) BY <1>a, <1>13 DEF StartCall, schedVars
<1>14. CASE EndCall(w) BY <1>a, <1>14, SMTT(30) DEF EndCall, schedVars, Results
<1>15. CASE RecordOutcome(w)
  BY <1>a, <1>15, SMTT(30) DEF RecordOutcome, Normalize, FinishTasks, schedVars, Results
<1>16. CASE FinishCall(w)
  BY <1>a, <1>16 DEF FinishCall, FinishTasks, Answer, schedVars, Results
<1>17. CASE FsAuthorize(w) \/ FsLook(w) \/ FsDuplicate(w)
  BY <1>a, <1>17, SMTT(30) DEF FsAuthorize, FsLook, FsDuplicate, HandlerEnds, FinishTasks,
     Proceed, schedVars
<1>18. CASE FsActivate(w) BY <1>a, <1>18 DEF FsActivate, schedVars
<1>19. CASE FsFinish(w)
  <2>1. Tells(response[w]) = {response[w]} BY <1>a, <1>19 DEF FsFinish, Results
  <2>2. /\ stage' = [stage EXCEPT ![w] = "removing"]
        /\ response' = [response EXCEPT ![w] = response[w]] /\ task'[w] = response[w]
    BY <1>a, <1>19 DEF FsFinish, HandlerEnds, FinishTasks
  <2>3. \A v \in Workers : v # w => Stays(v)
    BY <1>19 DEF FsFinish, HandlerEnds, FinishTasks, schedVars
  <2>4. pc' = pc /\ cancelled' = cancelled BY <1>19 DEF FsFinish, schedVars
  <2> HIDE DEF Tells
  <2> QED BY <1>a, <1>19, <2>1, <2>2, <2>3, <2>4 DEF FsFinish
<1>20. CASE RemoveAgain(w) BY <1>a, <1>20 DEF RemoveAgain, Proceed, schedVars
<1>21. CASE DropGuard(w) BY <1>a, <1>21 DEF DropGuard, schedVars
<1>22. CASE DropPermit(w)
  <2>1. /\ stage' = [stage EXCEPT ![w] = "released"] /\ response' = response /\ task' = task
        /\ cancelled' = cancelled
    BY <1>22 DEF DropPermit, Proceed, ReleaseWork, LeaveImmediate, schedVars
  <2>2. /\ pc'[w] \notin {"waiting", "woken", "work"} \cup ImmediateLanes
        /\ \A v \in Workers :
             v # w => pc'[v] = pc[v] \/ (pc[v] = "waiting" /\ pc'[v] = "woken")
    BY <1>a, <1>22, SMTT(30) DEF DropPermit, ReleaseWork, LeaveImmediate, NotifyAll,
       SchedTypeOK, schedVars
  <2> QED BY <1>a, <1>22, <2>1, <2>2 DEF DropPermit
<1>23. CASE DropLease(w) BY <1>a, <1>23 DEF DropLease, Proceed, schedVars
<1>24. CASE DirectControl(w) BY <1>a, <1>24, SMTT(30) DEF DirectControl, Answer, schedVars
<1> QED
  BY <1>1, <1>2, <1>3, <1>4, <1>5, <1>6, <1>7, <1>8, <1>9, <1>10, <1>11, <1>12, <1>13,
     <1>14, <1>15, <1>16, <1>17, <1>18, <1>19, <1>20, <1>21, <1>22, <1>23,
     <1>24 DEF WorkerStep

\* A step of another thread leaves a worker where it is or strikes its ticket.
LEMMA OtherStages ==
    ASSUME SchedTypeOK, TicketsMatchWaiters, RequestsTypeOK, StageInv,
           \/ \E w \in Workers : RelaySends(w) \/ \E s \in Sessions : CancelTask(s, w)
           \/ \E k \in Requests : CancelNotification(k) \/ AskNext(k)
           \/ \E m \in mail : Deliver(m)
           \/ \E s \in Sessions : \/ OpenSession(s) \/ CloseSession(s) \/ Reap(s)
                                     \/ SettleSession(s) \/ Sweep(s)
           \/ Stop \/ ServerStep
    PROVE  \A v \in Workers : Stays(v) \/ Struck(v)
<1> DEFINE Same == /\ stage' = stage /\ response' = response /\ task' = task
                   /\ pc' = pc /\ cancelled' = cancelled
<1>a. ASSUME Same PROVE \A v \in Workers : Stays(v) \/ Struck(v)
  BY <1>a DEF Stays
<1>b. ASSUME NEW ws \in SUBSET queue, CancelQueued(ws), FinishTasks(ws, "cancelled"),
             stage' = stage, response' = response
      PROVE  \A v \in Workers : Stays(v) \/ Struck(v)
  <2> TAKE v \in Workers
  <2>1. CASE v \in ws
    BY <1>b, <2>1 DEF CancelQueued, NotifyAll, FinishTasks, Struck, TicketsMatchWaiters,
       SchedTypeOK
  <2>2. CASE v \notin ws
    BY <1>b, <2>2 DEF CancelQueued, NotifyAll, FinishTasks, Stays, SchedTypeOK
  <2> QED BY <2>1, <2>2
<1>1. ASSUME NEW w \in Workers, RelaySends(w) PROVE Same
  BY <1>1 DEF RelaySends, schedVars
<1>2. ASSUME NEW w \in Workers, NEW s \in Sessions, CancelTask(s, w)
      PROVE  \A v \in Workers : Stays(v) \/ Struck(v)
  <2>1. stage' = stage /\ response' = response BY <1>2 DEF CancelTask, callVars
  <2>2. CASE w \in queue
    <3>1. {w} \in SUBSET queue /\ CancelQueued({w}) /\ FinishTasks({w}, "cancelled")
      BY <1>2, <2>2 DEF CancelTask, CancelQueuedTask
    <3> QED BY <1>b, <2>1, <3>1
  <2>3. CASE w \notin queue BY <1>a, <1>2, <2>1, <2>3 DEF CancelTask, schedVars
  <2> QED BY <2>2, <2>3
<1>3. ASSUME NEW k \in Requests, CancelNotification(k) \/ AskNext(k) PROVE Same
  BY <1>3 DEF CancelNotification, AskNext, schedVars, callVars
<1>4. ASSUME NEW m \in mail, Deliver(m) PROVE \A v \in Workers : Stays(v) \/ Struck(v)
  <2>1. stage' = stage /\ response' = response BY <1>4 DEF Deliver
  <2>2. CASE UNCHANGED <<schedVars, task>> BY <1>a, <2>1, <2>2 DEF schedVars
  <2>3. CASE CancelQueuedRequest(m.key) /\ FinishTasks(queue \ queue', "cancelled")
    <3>1. PICK w \in queue : CancelQueued({w}) BY <2>3 DEF CancelQueuedRequest
    <3>2. queue \ queue' = {w} BY <3>1 DEF CancelQueued
    <3>3. {w} \in SUBSET queue OBVIOUS
    <3> QED BY <1>b, <2>1, <2>3, <3>1, <3>2, <3>3
  <2> QED BY <1>4, <2>2, <2>3 DEF Deliver
<1>5. ASSUME NEW s \in Sessions, OpenSession(s) \/ CloseSession(s) \/ Reap(s) \/ SettleSession(s)
      PROVE  Same
  BY <1>5 DEF OpenSession, CloseSession, Reap, SettleSession, schedVars, callVars
<1>6. ASSUME NEW s \in Sessions, Sweep(s) PROVE \A v \in Workers : Stays(v) \/ Struck(v)
  <2> DEFINE ws == {w \in queue : Owner[w] = s}
  <2>1. /\ ws \in SUBSET queue /\ CancelQueued(ws) /\ FinishTasks(ws, "cancelled")
        /\ stage' = stage /\ response' = response
    BY <1>6 DEF Sweep, CancelQueuedBySession, callVars
  <2> HIDE DEF ws
  <2> QED BY <1>b, <2>1
<1>7. CASE Stop \/ CancelRound \/ Join
  BY <1>a, <1>7 DEF Stop, CancelRound, Join, schedVars, callVars
<1>8. CASE CloseScheduler
  <2>1. /\ queue \in SUBSET queue /\ CancelQueued(queue) /\ FinishTasks(queue, "cancelled")
        /\ stage' = stage /\ response' = response
    BY <1>8 DEF CloseScheduler, Close, ClosedTickets, callVars
  <2> QED BY <1>b, <2>1
<1> HIDE DEF Same
<1> QED BY <1>a, <1>1, <1>2, <1>3, <1>4, <1>5, <1>6, <1>7, <1>8 DEF ServerStep

\* What belongs to a stage is there in every reachable state.
LEMMA StageNext ==
    ASSUME SchedTypeOK, TicketsMatchWaiters, RequestsTypeOK, StageInv, HoldInv, [Next]_vars
    PROVE  StageInv'
<1>a. \A v \in Workers : Staged(v) BY DEF StageInv, Staged
<1>b. ASSUME \A v \in Workers : Staged(v)' PROVE StageInv'
  BY <1>b DEF StageInv, Staged
<1>1. ASSUME NEW w \in Workers, Lookup(w) \/ WorkerStep(w) \/ Oversleep(w) PROVE StageInv'
  <2>1. (\A v \in Workers : v # w => Stays(v)) /\ Staged(w)' BY <1>1, WorkerStages
  <2> QED BY <1>a, <1>b, <2>1, StaysStaged
<1>2. ASSUME \A v \in Workers : Stays(v) \/ Struck(v) PROVE StageInv'
  BY <1>a, <1>b, <1>2, StaysStaged, StruckStaged
<1>3. CASE UNCHANGED vars
  <2>1. \A v \in Workers : Stays(v) BY <1>3 DEF vars, schedVars, callVars, Stays
  <2> QED BY <1>2, <2>1
<1> QED BY <1>1, <1>2, <1>3, OtherStages DEF Next

\* The types, too.
LEMMA TypesNext ==
    ASSUME SchedTypeOK, RequestsTypeOK, StageInv, [Next]_vars
    PROVE  RequestsTypeOK'
<1>1. CASE UNCHANGED vars
  BY <1>1 DEF vars, sessionVars, registryVars, callVars, cancelVars, serverVars, RequestsTypeOK
<1> QED BY <1>1, WorkerTypes, OtherTypes DEF Next

-----------------------------------------------------------------------------
\* Who holds a registration.  A worker's own step concerns its own request, and
\* takes, keeps or gives up the registration of it.
Unheld(w) == ~Holds(w) /\ ~Holds(w)' /\ target' = target
GivesUp(w) == Holds(w) /\ ~Holds(w)' /\ target'[Request[w]] = "none"
Keeps(w) == Holds(w) /\ Holds(w)' /\ (target'[Request[w]] # "none" \/ stage'[w] = "removing")
Takes(w) ==
    /\ ~Holds(w) /\ Holds(w)' /\ Tool[w] # "observe"
    /\ target[Request[w]] = "none" /\ target'[Request[w]] # "none"

\* One entry per request and one holder per entry survive any step in which a worker
\* keeps, takes, gives up or does not have its entry and the others stay.
LEMMA HoldMoves ==
    ASSUME FilesystemIdsAreFresh, RequestsTypeOK, StageInv, HoldInv, NEW w \in Workers,
           \A v \in Workers : v # w => stage'[v] = stage[v],
           \A k \in Requests : k # Request[w] => target'[k] = target[k],
           Unheld(w) \/ GivesUp(w) \/ Keeps(w) \/ Takes(w)
    PROVE  HoldInv'
<1> USE SchedulerConstants
<1>a. \A v \in Workers : v # w => (Holds(v)' <=> Holds(v)) BY DEF Holds
<1>b. \A v \in Workers : stage[v] = "removing" => Tool[v] = "filesystem"
  BY DEF StageInv, InService
<1>c. \A v \in Workers : Holds(v) /\ v # w /\ Request[v] = Request[w] => Unheld(w)
  <2> SUFFICES ASSUME NEW v \in Workers, Holds(v), v # w, Request[v] = Request[w], ~Unheld(w)
               PROVE  FALSE
    OBVIOUS
  <2>1. ~Holds(w) BY DEF HoldInv
  <2>2. Takes(w) BY <2>1 DEF GivesUp, Keeps
  <2>3. stage[v] = "removing" BY <2>2 DEF Takes, HoldInv, Active
  <2> QED BY <1>b, <2>2, <2>3 DEF Takes, FilesystemIdsAreFresh
<1>1. \A v \in Workers : (Holds(v) /\ stage[v] # "removing" => Active(Request[v]))'
  <2> TAKE v \in Workers
  <2>1. CASE v = w BY <2>1 DEF Unheld, GivesUp, Keeps, Takes, Active
  <2>2. CASE v # w /\ Request[v] # Request[w] BY <1>a, <2>2 DEF HoldInv, Active
  <2>3. CASE v # w /\ Request[v] = Request[w]
    BY <1>a, <1>c, <2>3 DEF HoldInv, Active, Unheld
  <2> QED BY <2>1, <2>2, <2>3
<1>2. \A u, v \in Workers : (Holds(u) /\ Holds(v) /\ Request[u] = Request[v])' => u = v
  BY <1>a, <1>c DEF HoldInv, Unheld
<1>3. \A k \in Requests : Active(k)' => \E v \in Workers : Request[v] = k /\ Holds(v)'
  <2> TAKE k \in Requests
  <2>1. CASE k = Request[w]
    <3>1. CASE Unheld(w) BY <1>a, <2>1, <3>1, SMTT(30) DEF Unheld, HoldInv, Active
    <3>2. CASE GivesUp(w) BY <2>1, <3>2 DEF GivesUp, Active
    <3>3. CASE Keeps(w) \/ Takes(w) BY <2>1, <3>3 DEF Keeps, Takes
    <3> QED BY <3>1, <3>2, <3>3
  <2>2. CASE k # Request[w] BY <1>a, <2>2 DEF HoldInv, Active
  <2> QED BY <2>1, <2>2
<1> QED BY <1>1, <1>2, <1>3 DEF HoldInv

\* Every step of a worker is of that kind.
LEMMA WorkerHolds ==
    ASSUME RequestsTypeOK, StageInv, HoldInv, NEW w \in Workers,
           Lookup(w) \/ WorkerStep(w) \/ Oversleep(w)
    PROVE  /\ \A v \in Workers : v # w => stage'[v] = stage[v]
           /\ \A k \in Requests : k # Request[w] => target'[k] = target[k]
           /\ Unheld(w) \/ GivesUp(w) \/ Keeps(w) \/ Takes(w)
<1>a. /\ Staged(w) /\ Tool[w] \in {"runtime", "filesystem", "control", "observe"}
      /\ Request[w] \in Requests /\ w # "none" /\ w # "queued"
  BY RequestsConstants, SchedulerConstants DEF StageInv, Staged, Tools, WorkTools
<1>b. Holds(w) /\ stage[w] # "removing" => target[Request[w]] # "none" BY DEF HoldInv, Active
<1> USE <1>a, <1>b DEF RequestsTypeOK, Unheld, GivesUp, Keeps, Takes, Holds, WorkTools, Serving
<1>1. CASE \/ Lookup(w) \/ TakeLease(w) \/ RefuseUnauthorized(w) \/ QueueTask(w)
  BY <1>1, SMTT(30) DEF Lookup, TakeLease, RefuseUnauthorized, QueueTask, Proceed, Refuse, Answer,
     registryVars
<1>2. CASE RegisterWork(w)
  BY <1>2, SMTT(30) DEF RegisterWork, RegisterRequest, Proceed, Answer, registryVars, Active,
     Staged,
     BeforeAdmission
<1>3. CASE Admit(w) \/ Oversleep(w) \/ LookAgain(w)
  BY <1>3 DEF Admit, Oversleep, LookAgain, registryVars, callVars
<1>4. CASE AdmissionSettled(w)
  BY <1>4, SMTT(30) DEF AdmissionSettled, RemoveRequest, RegisterRequest, Proceed, Answer,
     registryVars,
     Staged, InAdmission
<1>5. CASE EnterLane(w)
  BY <1>5 DEF EnterLane, Proceed, Answer, registryVars
<1>6. CASE Activate(w)
  BY <1>6, SMTT(30) DEF Activate, ReplaceTarget, RegisterRequest, Proceed, Answer, registryVars,
     Active
<1>7. CASE LockGuard(w)
  BY <1>7, SMTT(30) DEF LockGuard, RemoveRequest, RegisterRequest, Answer, Proceed, registryVars,
     Staged, InService
<1>8. CASE StartCall(w) \/ EndCall(w) \/ RecordOutcome(w)
  BY <1>8 DEF StartCall, EndCall, RecordOutcome, registryVars
<1>9. CASE FinishCall(w)
  BY <1>9 DEF FinishCall, RemoveRequest, RegisterRequest, Answer, Staged, InService
<1>10. CASE FsAuthorize(w) \/ FsLook(w) \/ FsDuplicate(w)
  BY <1>10, SMTT(30) DEF FsAuthorize, FsLook, FsDuplicate, HandlerEnds, Proceed, registryVars,
     Staged, InService
<1>11. CASE FsActivate(w)
  BY <1>11 DEF FsActivate, ReplaceTarget, RegisterRequest, Staged, InService
<1>12. CASE FsFinish(w)
  BY <1>12 DEF FsFinish, HandlerEnds, RemoveRequest, RegisterRequest, Staged, InService
<1>13. CASE RemoveAgain(w)
  BY <1>13 DEF RemoveAgain, RemoveRequest, RegisterRequest, Proceed
<1>14. CASE DropGuard(w) \/ DropPermit(w) \/ DropLease(w)
  BY <1>14, SMTT(30) DEF DropGuard, DropPermit, DropLease, Proceed, registryVars
<1>15. CASE DirectControl(w)
  BY <1>15 DEF DirectControl, RemoveRequest, RegisterRequest, Answer, Staged, InService
<1> QED
  BY <1>1, <1>2, <1>3, <1>4, <1>5, <1>6, <1>7, <1>8, <1>9, <1>10, <1>11, <1>12, <1>13,
     <1>14, <1>15 DEF WorkerStep

\* A registration has one holder, and a holder has its registration.
LEMMA HoldNext ==
    ASSUME FilesystemIdsAreFresh, RequestsTypeOK, StageInv, HoldInv, [Next]_vars
    PROVE  HoldInv'
<1>1. ASSUME NEW w \in Workers, Lookup(w) \/ WorkerStep(w) \/ Oversleep(w) PROVE HoldInv'
  BY <1>1, WorkerHolds, HoldMoves
<1>2. ASSUME stage' = stage, target' = target PROVE HoldInv'
  BY <1>2, SMTT(30) DEF HoldInv, Holds, Active
<1>3. ASSUME \/ \E w \in Workers : RelaySends(w) \/ \E s \in Sessions : CancelTask(s, w)
             \/ \E k \in Requests : CancelNotification(k) \/ AskNext(k)
             \/ \E m \in mail : Deliver(m)
             \/ \E s \in Sessions : \/ OpenSession(s) \/ CloseSession(s) \/ Reap(s)
                                       \/ SettleSession(s) \/ Sweep(s)
             \/ Stop \/ ServerStep \/ UNCHANGED vars
      PROVE  stage' = stage /\ target' = target
  BY <1>3 DEF RelaySends, CancelTask, CancelNotification, AskNext, Deliver, OpenSession,
     CloseSession, Reap, SettleSession, Sweep, Stop, ServerStep, CloseScheduler, CancelRound,
     Join, vars,
     registryVars, callVars
<1> QED BY <1>1, <1>2, <1>3 DEF Next

-----------------------------------------------------------------------------
\* Targets and their copies stay with their request.
LEMMA TargetNext ==
    ASSUME RequestsTypeOK, TargetInv, [Next]_vars
    PROVE  TargetInv'
<1> USE RequestsConstants, SchedulerConstants DEF TargetInv, RequestsTypeOK
<1>1. ASSUME target' = target, mail' \in SUBSET mail PROVE TargetInv'
  BY <1>1
<1>2. ASSUME NEW w \in Workers, NEW t \in {"none", "queued", w}, mail' = mail,
             target' = [target EXCEPT ![Request[w]] = t]
      PROVE  TargetInv'
  BY <1>2
<1>3. ASSUME NEW k \in Requests, MarkCancelled(k), target' = target PROVE TargetInv'
  <2>1. CASE Active(k)
    <3>1. mail' = mail \cup {[key |-> k, to |-> target[k]]} BY <1>3, <2>1 DEF MarkCancelled
    <3> QED BY <1>3, <3>1, SMTT(30)
  <2>2. CASE ~Active(k) BY <1>1, <1>3, <2>2 DEF MarkCancelled
  <2> QED BY <2>1, <2>2
<1>4. ASSUME NEW w \in Workers, Activate(w) PROVE TargetInv'
  <2>1. CASE Answer(w, "duplicate") /\ UNCHANGED <<registryVars, cancelVars>>
    BY <1>1, <2>1 DEF registryVars, cancelVars
  <2>2. CASE /\ target' = [target EXCEPT ![Request[w]] = w]
             /\ mail' = mail \/ mail' = mail \cup {[key |-> Request[w], to |-> w]}
    <3>1. \A k \in Requests : (target'[k] \in Workers => Request[target'[k]] = k) BY <2>2
    <3>2. \A m \in mail' : (m.to \in Workers => Request[m.to] = m.key) BY <2>2, SMTT(30)
    <3> QED BY <3>1, <3>2
  <2> QED BY <1>4, <2>1, <2>2 DEF Activate, ReplaceTarget, RegisterRequest
<1>5. ASSUME NEW w \in Workers,
             \/ Lookup(w) \/ TakeLease(w) \/ RefuseUnauthorized(w) \/ QueueTask(w) \/ Admit(w)
             \/ Oversleep(w) \/ LookAgain(w) \/ EnterLane(w) \/ StartCall(w) \/ EndCall(w)
             \/ RecordOutcome(w) \/ FsAuthorize(w) \/ FsLook(w) \/ FsDuplicate(w)
             \/ DropGuard(w) \/ DropPermit(w) \/ DropLease(w) \/ RelaySends(w)
      PROVE  TargetInv'
  BY <1>1, <1>5 DEF Lookup, TakeLease, RefuseUnauthorized, QueueTask, Admit, Oversleep,
     LookAgain, EnterLane, StartCall, EndCall, RecordOutcome, FsAuthorize, FsLook, FsDuplicate,
     DropGuard, DropPermit, DropLease, RelaySends, registryVars, cancelVars
<1>6. ASSUME NEW w \in Workers,
             \/ RegisterWork(w) \/ AdmissionSettled(w) \/ LockGuard(w) \/ DirectControl(w)
             \/ FinishCall(w) \/ FsActivate(w) \/ FsFinish(w) \/ RemoveAgain(w)
      PROVE  TargetInv'
  <2>1. mail' = mail
    BY <1>6 DEF RegisterWork, AdmissionSettled, LockGuard, DirectControl, FinishCall,
       FsActivate, FsFinish,
       RemoveAgain, cancelVars
  <2>2. \/ target' = target
        \/ \E t \in {"none", "queued", w} : target' = [target EXCEPT ![Request[w]] = t]
    BY <1>6 DEF RegisterWork, AdmissionSettled, LockGuard, DirectControl, FinishCall,
       FsActivate, FsFinish,
       RemoveAgain, RemoveRequest, RegisterRequest, ReplaceTarget, registryVars
  <2> QED BY <1>1, <1>2, <2>1, <2>2
<1>7. ASSUME NEW k \in Requests, CancelNotification(k) \/ AskNext(k) PROVE TargetInv'
  BY <1>3, <1>7 DEF CancelNotification, AskNext
<1>8. ASSUME \/ \E w \in Workers, s \in Sessions : CancelTask(s, w)
             \/ \E m \in mail : Deliver(m)
             \/ \E s \in Sessions : \/ OpenSession(s) \/ CloseSession(s) \/ Reap(s)
                                       \/ SettleSession(s) \/ Sweep(s)
             \/ Stop \/ ServerStep \/ UNCHANGED vars
      PROVE  TargetInv'
  BY <1>1, <1>8 DEF CancelTask, Deliver, OpenSession, CloseSession, Reap, SettleSession, Sweep,
     Stop,
     ServerStep, CloseScheduler, CancelRound, Join, vars, registryVars, cancelVars
<1> QED BY <1>4, <1>5, <1>6, <1>7, <1>8 DEF Next, WorkerStep

\* The guard is held by a worker that has not released its permit.
LEMMA GuardNext ==
    ASSUME RequestsTypeOK, StageInv, GuardInv, [Next]_vars
    PROVE  GuardInv'
<1> USE RequestsConstants DEF GuardInv, RequestsTypeOK
<1>1. ASSUME NEW w \in Workers, LockGuard(w) PROVE GuardInv'
  BY <1>1, SMTT(30) DEF LockGuard, Answer, Proceed, StageInv, InService
<1>2. ASSUME NEW w \in Workers, DropGuard(w) PROVE GuardInv'
  BY <1>2 DEF DropGuard
<1>3. ASSUME NEW w \in Workers, DropPermit(w) PROVE GuardInv'
  BY <1>3 DEF DropPermit, Proceed
<1>4. ASSUME NEW w \in Workers,
             \/ Lookup(w) \/ TakeLease(w) \/ RefuseUnauthorized(w) \/ QueueTask(w)
             \/ RegisterWork(w) \/ AdmissionSettled(w) \/ EnterLane(w) \/ Activate(w)
             \/ DirectControl(w) \/ FsAuthorize(w) \/ FsLook(w) \/ FsActivate(w)
             \/ FsDuplicate(w) \/ RemoveAgain(w) \/ DropLease(w)
      PROVE  GuardInv'
  <2>1. stage[w] \notin {"guarded", "calling", "returned", "recorded", "answered"}
    BY <1>4 DEF Lookup, TakeLease, RefuseUnauthorized, QueueTask, RegisterWork,
       AdmissionSettled, EnterLane, Activate, DirectControl, FsAuthorize, FsLook, FsActivate,
       FsDuplicate, RemoveAgain, DropLease
  <2>2. guard' = guard /\ \A v \in Workers : v # w => stage'[v] = stage[v]
    BY <1>4 DEF Lookup, TakeLease, RefuseUnauthorized, QueueTask, RegisterWork,
       AdmissionSettled, EnterLane, Activate, DirectControl, FsAuthorize, FsLook, FsActivate,
       FsDuplicate, RemoveAgain, DropLease,
       HandlerEnds, Proceed, Refuse, Answer
  <2> QED BY <2>1, <2>2
<1>5. ASSUME NEW w \in Workers, StartCall(w) \/ EndCall(w) \/ RecordOutcome(w) \/ FinishCall(w)
      PROVE  GuardInv'
  BY <1>5, SMTT(30) DEF StartCall, EndCall, RecordOutcome, FinishCall, Answer
<1>6. ASSUME NEW w \in Workers, FsFinish(w) PROVE GuardInv'
  BY <1>6 DEF FsFinish, HandlerEnds
<1>7. ASSUME stage' = stage, guard' = guard PROVE GuardInv'
  BY <1>7
<1>8. ASSUME \/ \E w \in Workers : \/ Admit(w) \/ Oversleep(w) \/ LookAgain(w) \/ RelaySends(w)
                                   \/ \E s \in Sessions : CancelTask(s, w)
             \/ \E k \in Requests : CancelNotification(k) \/ AskNext(k)
             \/ \E m \in mail : Deliver(m)
             \/ \E s \in Sessions : \/ OpenSession(s) \/ CloseSession(s) \/ Reap(s)
                                       \/ SettleSession(s) \/ Sweep(s)
             \/ Stop \/ ServerStep \/ UNCHANGED vars
      PROVE  GuardInv'
  BY <1>7, <1>8 DEF Admit, Oversleep, LookAgain, RelaySends, CancelTask, CancelNotification,
     AskNext, Deliver, OpenSession, CloseSession, Reap, SettleSession, Sweep, Stop, ServerStep,
     CloseScheduler, CancelRound, Join, vars, callVars
<1> QED BY <1>1, <1>2, <1>3, <1>4, <1>5, <1>6, <1>8 DEF Next, WorkerStep

\* A mark made before the admission lasts until the call has been answered.
LEMMA EarlyNext ==
    ASSUME RequestsTypeOK, StageInv, HoldInv, EarlyInv, [Next]_vars
    PROVE  EarlyInv'
<1> DEFINE Marked(v) ==
      /\ stage[v] \in {"registered", "removing", "answered", "released"} \cup Serving
      /\ Tool[v] = "runtime" =>
           /\ stage[v] \in ({"registered"} \cup Serving) \ {"recorded"} => Request[v] \in asked
           /\ stage[v] \in {"recorded", "answered", "released"} => response[v] # "completed"
<1> USE RequestsConstants, SchedulerConstants DEF RequestsTypeOK
<1>a. \A v \in early : Marked(v) BY DEF EarlyInv
<1>b. ASSUME \A v \in early' : Marked(v)' PROVE EarlyInv' BY <1>b DEF EarlyInv
<1>1. ASSUME stage' = stage, response' = response, early' = early, asked \subseteq asked'
      PROVE  EarlyInv'
  BY <1>a, <1>b, <1>1
<1>2. ASSUME NEW k \in Requests, MarkCancelled(k), stage' = stage, response' = response
      PROVE  EarlyInv'
  <2>1. CASE Active(k)
    <3>1. asked' = asked \cup {k} BY <1>2, <2>1 DEF MarkCancelled
    <3>2. early' = early \cup {w \in Workers : Request[w] = k /\ stage[w] = "registered"}
      BY <1>2, <2>1 DEF MarkCancelled
    <3> QED BY <1>a, <1>b, <1>2, <3>1, <3>2 DEF Serving
  <2>2. CASE ~Active(k) BY <1>1, <1>2, <2>2 DEF MarkCancelled
  <2> QED BY <2>1, <2>2
\* A step of one worker.  Only the holder of a request can take its mark away.
<1>3. ASSUME NEW w \in Workers, early' \subseteq early,
             \A v \in Workers : v # w => stage'[v] = stage[v] /\ response'[v] = response[v],
             \A k \in asked : k \in asked' \/ (k = Request[w] /\ (Holds(w) \/ ~Active(k))),
             w \in early' => Marked(w)'
      PROVE  EarlyInv'
  <2>1. ASSUME NEW v \in early', v # w PROVE Marked(v)'
    <3>1. Marked(v) /\ v \in Workers BY <1>3, <1>a, <2>1
    <3>2. /\ Tool[v] = "runtime"
          /\ stage[v] \in ({"registered"} \cup Serving) \ {"recorded"}
          => Request[v] \in asked'
      <4> SUFFICES ASSUME Tool[v] = "runtime",
                          stage[v] \in ({"registered"} \cup Serving) \ {"recorded"}
                   PROVE  Request[v] \in asked'
        OBVIOUS
      <4>1. Holds(v) /\ Active(Request[v]) BY <3>1 DEF Holds, HoldInv, WorkTools, Serving
      <4>2. Request[v] \in asked BY <3>1
      <4> QED BY <1>3, <2>1, <3>1, <4>1, <4>2 DEF HoldInv
    <3> QED BY <1>3, <2>1, <3>1, <3>2
  <2> QED BY <1>b, <1>3, <2>1
<1> HIDE DEF Marked
<1>4. ASSUME NEW w \in Workers, Lookup(w) \/ WorkerStep(w) \/ Oversleep(w) PROVE EarlyInv'
  <2>1. early' \subseteq early
    BY <1>4 DEF WorkerStep, Lookup, TakeLease, RefuseUnauthorized, QueueTask, RegisterWork,
       Admit, Oversleep, LookAgain, AdmissionSettled, EnterLane, Activate, LockGuard,
       DirectControl,
       StartCall, EndCall, RecordOutcome, FinishCall, FsAuthorize, FsLook, FsActivate,
       FsDuplicate, FsFinish,
       RemoveAgain, DropGuard, DropPermit, DropLease, cancelVars
  <2>2. \A v \in Workers : v # w => stage'[v] = stage[v] /\ response'[v] = response[v]
    BY <1>4 DEF WorkerStep, Lookup, TakeLease, RefuseUnauthorized, QueueTask, RegisterWork,
       Admit, Oversleep, LookAgain, AdmissionSettled, EnterLane, Activate, LockGuard,
       DirectControl,
       StartCall, EndCall, RecordOutcome, FinishCall, FsAuthorize, FsLook, FsActivate,
       FsDuplicate, FsFinish,
       RemoveAgain, DropGuard, DropPermit, DropLease, Proceed, Refuse, Answer, HandlerEnds,
       callVars
  <2>3. \A k \in asked : k \in asked' \/ (k = Request[w] /\ (Holds(w) \/ ~Active(k)))
    <3>1. CASE asked' = asked BY <3>1
    <3>2. CASE RegisterWork(w) BY <3>2 DEF RegisterWork, RegisterRequest, registryVars
    <3>3. CASE Activate(w)
      BY <3>3 DEF Activate, RegisterRequest, ReplaceTarget, registryVars
    <3>4. CASE FsActivate(w) BY <3>4 DEF FsActivate, RegisterRequest, ReplaceTarget
    <3>5. CASE \/ AdmissionSettled(w) \/ LockGuard(w) \/ DirectControl(w) \/ FinishCall(w)
               \/ FsFinish(w) \/ RemoveAgain(w)
      <4>1. Holds(w)
        BY <3>5 DEF AdmissionSettled, LockGuard, DirectControl, FinishCall, FsFinish,
           RemoveAgain, Holds,
           StageInv, InAdmission, InService, Serving, WorkTools
      <4>2. asked' = asked \/ asked' = asked \ {Request[w]}
        BY <3>5 DEF AdmissionSettled, LockGuard, DirectControl, FinishCall, FsFinish, RemoveAgain,
           RemoveRequest, RegisterRequest, registryVars
      <4> QED BY <4>1, <4>2
    <3> QED
      BY <1>4, <3>1, <3>2, <3>3, <3>4, <3>5
         DEF WorkerStep, Lookup, TakeLease, RefuseUnauthorized, QueueTask, Admit, Oversleep,
             LookAgain, EnterLane, StartCall, EndCall, RecordOutcome, FsAuthorize, FsLook,
             FsDuplicate, DropGuard, DropPermit, DropLease, registryVars
  <2>4. ASSUME w \in early' PROVE Marked(w)'
    <3> USE <2>1, <2>4, <1>a DEF Marked, Serving
    <3>a. Marked(w) BY <2>1, <2>4, <1>a
    <3>1. CASE \/ Lookup(w) \/ TakeLease(w) \/ RefuseUnauthorized(w) \/ QueueTask(w)
               \/ RegisterWork(w) \/ EnterLane(w)
      BY <3>1, <3>a DEF Lookup, TakeLease, RefuseUnauthorized, QueueTask, RegisterWork,
         EnterLane
    <3>2. CASE Admit(w) \/ Oversleep(w) \/ LookAgain(w) \/ DropGuard(w)
      BY <3>2, <3>a DEF Admit, Oversleep, LookAgain, DropGuard, callVars, registryVars
    <3>3. CASE AdmissionSettled(w)
      BY <3>3, <3>a, SMTT(30) DEF AdmissionSettled, Proceed, Answer, registryVars
    <3>4. CASE Activate(w)
      <4>1. CASE Tool[w] = "runtime"
        BY <3>4, <3>a, <4>1, SMTT(30) DEF Activate, ReplaceTarget, Proceed, Answer
      <4>2. CASE Tool[w] # "runtime"
        BY <3>4, <4>2 DEF Activate, Proceed, Answer
      <4> QED BY <4>1, <4>2
    <3>5. CASE LockGuard(w) \/ DirectControl(w)
      BY <3>5, <3>a, SMTT(30) DEF LockGuard, DirectControl, Answer, Proceed, registryVars,
         StageInv, InService
    <3>6. CASE StartCall(w) \/ EndCall(w)
      BY <3>6, <3>a, SMTT(30) DEF StartCall, EndCall, registryVars
    <3>7. CASE RecordOutcome(w)
      BY <3>7, <3>a DEF RecordOutcome, Normalize, registryVars
    <3>8. CASE FinishCall(w) BY <3>8, <3>a DEF FinishCall, Answer
    <3>9. CASE \/ FsAuthorize(w) \/ FsLook(w) \/ FsActivate(w) \/ FsDuplicate(w)
               \/ FsFinish(w) \/ RemoveAgain(w)
      <4>1. Tool[w] # "runtime"
        BY <3>9 DEF FsAuthorize, FsLook, FsActivate, FsDuplicate, FsFinish, RemoveAgain,
           StageInv, InService
      <4>2. \E p \in {"authorized", "redirecting", "registering", "guarded", "removing",
                     "answered"} : stage' = [stage EXCEPT ![w] = p]
        BY <3>9 DEF FsAuthorize, FsLook, FsActivate, FsDuplicate, FsFinish, RemoveAgain,
           HandlerEnds, Proceed
      <4>3. stage'[w] \in {"registered", "removing", "answered", "released"} \cup Serving
        BY <4>2
      <4> QED BY <4>1, <4>3
    <3>10. CASE DropPermit(w) BY <3>10, <3>a DEF DropPermit, Proceed
    <3>11. CASE DropLease(w) BY <3>11, <2>4 DEF DropLease
    <3> QED
      BY <1>4, <3>1, <3>2, <3>3, <3>4, <3>5, <3>6, <3>7, <3>8, <3>9, <3>10, <3>11
         DEF WorkerStep
  <2> QED BY <1>3, <2>1, <2>2, <2>3, <2>4
<1>5. ASSUME NEW k \in Requests, CancelNotification(k) \/ AskNext(k) PROVE EarlyInv'
  BY <1>2, <1>5 DEF CancelNotification, AskNext, callVars
<1>6. ASSUME \/ \E w \in Workers : RelaySends(w) \/ \E s \in Sessions : CancelTask(s, w)
             \/ \E m \in mail : Deliver(m)
             \/ \E s \in Sessions : \/ OpenSession(s) \/ CloseSession(s) \/ Reap(s)
                                       \/ SettleSession(s) \/ Sweep(s)
             \/ Stop \/ ServerStep \/ UNCHANGED vars
      PROVE  EarlyInv'
  <2>1. stage' = stage /\ response' = response /\ early' = early /\ asked' = asked
    BY <1>6 DEF RelaySends, CancelTask, Deliver, OpenSession, CloseSession, Reap, SettleSession,
       Sweep, Stop,
       ServerStep, CloseScheduler, CancelRound, Join, vars, registryVars, callVars, cancelVars
  <2> QED BY <1>1, <2>1
<1> QED BY <1>4, <1>5, <1>6 DEF Next

-----------------------------------------------------------------------------
\* Whatever cancels a call has a cause that concerns it.
LEMMA BlameNext ==
    ASSUME SchedTypeOK, TicketsMatchWaiters, RequestsTypeOK, StageInv, HoldInv, TargetInv,
           ServerInv, BlameInv, [Next]_vars
    PROVE  BlameInv'
<1> DEFINE Touched(v) == \/ call[v] = "signalled" \/ task[v] = "cancelled"
                         \/ response[v] = "cancelled"
           Grows == blamed \subseteq blamed' /\ (closed => closed')
           Asks == \A k \in asks' \cup asked' : Blamed(k)'
           Mails == \A m \in mail' : Blamed(m.key)'
           Sweeps == \A s \in settling' \cup sweeps', v \in Workers :
                        Owner[v] = s => Blamed(Request[v])'
           Calls == \A v \in Workers : Touched(v)' => Blamed(Request[v])'
           Shut == \A v \in Workers : pc'[v] = "closed" => closed'
<1>a. \A k : Grows /\ Blamed(k) => Blamed(k)' BY DEF Blamed
<1>b. BlameInv' <=> Asks /\ Mails /\ Sweeps /\ Calls /\ Shut BY DEF BlameInv
<1>c. /\ \A k \in asks \cup asked : Blamed(k)
      /\ \A m \in mail : Blamed(m.key)
      /\ \A s \in settling \cup sweeps, v \in Workers : Owner[v] = s => Blamed(Request[v])
      /\ \A v \in Workers : Touched(v) => Blamed(Request[v])
      /\ \A v \in Workers : pc[v] = "closed" => closed
  BY DEF BlameInv
<1> USE RequestsConstants, SchedulerConstants DEF RequestsTypeOK, SchedTypeOK
\* A worker's own steps
<1>1. ASSUME NEW w \in Workers, Lookup(w) \/ WorkerStep(w) \/ Oversleep(w) PROVE BlameInv'
  <2>1. /\ Grows /\ asks' = asks /\ settling' = settling /\ sweeps' = sweeps
        /\ blamed' = blamed /\ closed' = closed
    BY <1>1 DEF WorkerStep, Lookup, TakeLease, RefuseUnauthorized, QueueTask, RegisterWork,
       Admit, Oversleep, LookAgain, AdmissionSettled, EnterLane, Activate, LockGuard,
       DirectControl,
       StartCall, EndCall, RecordOutcome, FinishCall, FsAuthorize, FsLook, FsActivate,
       FsDuplicate, FsFinish,
       RemoveAgain, DropGuard, DropPermit, DropLease, cancelVars, schedVars, AdmitWork,
       AdmitClosed, AdmitDirectly, AdmitRejected, AdmitQueued, WakeSpuriously, Recheck,
       TakeCancellation, TakeSlot, WaitAgain, EnterImmediate, ReleaseWork, LeaveImmediate
  <2>2. asked' \subseteq asked
    BY <1>1 DEF WorkerStep, Lookup, TakeLease, RefuseUnauthorized, QueueTask, RegisterWork,
       Admit, Oversleep, LookAgain, AdmissionSettled, EnterLane, Activate, LockGuard,
       DirectControl,
       StartCall, EndCall, RecordOutcome, FinishCall, FsAuthorize, FsLook, FsActivate,
       FsDuplicate, FsFinish,
       RemoveAgain, DropGuard, DropPermit, DropLease, registryVars, RemoveRequest,
       RegisterRequest, ReplaceTarget
  <2>3. Mails
    <3>1. CASE Activate(w)
      BY <3>1, <2>1, <2>2, <1>a, <1>c, SMTT(30) DEF Activate, cancelVars
    <3>2. CASE mail' = mail BY <3>2, <2>1, <1>a, <1>c
    <3> QED
      BY <1>1, <3>1, <3>2 DEF WorkerStep, Lookup, TakeLease, RefuseUnauthorized, QueueTask,
         RegisterWork, Admit, Oversleep, LookAgain, AdmissionSettled, EnterLane, LockGuard,
         DirectControl,
         StartCall, EndCall, RecordOutcome, FinishCall, FsAuthorize, FsLook, FsActivate,
         FsDuplicate, FsFinish,
         RemoveAgain, DropGuard, DropPermit, DropLease, cancelVars
  <2>4. Shut
    <3>1. CASE pc' = pc BY <3>1, <2>1, <1>c
    <3>2. CASE Admit(w) \/ Oversleep(w) \/ LookAgain(w)
      <4>1. CASE Admit(w)
        <5>1. AdmitWork(w) BY <4>1 DEF Admit
        <5> QED BY <5>1, <2>1, <1>c, SMTT(30) DEF AdmitWork, AdmitClosed, AdmitDirectly,
               AdmitRejected, AdmitQueued
      <4>2. CASE Oversleep(w)
        <5>1. WakeSpuriously(w) BY <4>2 DEF Oversleep
        <5> QED BY <5>1, <2>1, <1>c, SMTT(30) DEF WakeSpuriously
      <4>3. CASE LookAgain(w)
        <5>1. Recheck(w) BY <4>3 DEF LookAgain
        <5>2. CASE TakeCancellation(w) BY <5>2, <2>1, <1>c, SMTT(30) DEF TakeCancellation
        <5>3. CASE TakeSlot(w) BY <5>3, <2>1, <1>c, SMTT(30) DEF TakeSlot
        <5>4. CASE WaitAgain(w) BY <5>4, <2>1, <1>c, SMTT(30) DEF WaitAgain
        <5> QED BY <5>1, <5>2, <5>3, <5>4 DEF Recheck
      <4> QED BY <3>2, <4>1, <4>2, <4>3
    <3>3. ASSUME NEW lane \in ImmediateLanes, EnterImmediate(w, lane) PROVE Shut
      BY <3>3, <2>1, <1>c, SMTT(30) DEF EnterImmediate, ImmediateLanes
    <3>4. CASE EnterLane(w) BY <3>3, <3>4 DEF EnterLane, ImmediateLanes
    <3>5. CASE ReleaseWork(w) \/ LeaveImmediate(w)
      BY <3>5, <2>1, <1>c DEF ReleaseWork, LeaveImmediate, NotifyAll
    <3>6. CASE DropPermit(w) BY <3>1, <3>5, <3>6 DEF DropPermit, schedVars
    <3> QED
      BY <1>1, <3>1, <3>2, <3>4, <3>6
         DEF WorkerStep, Lookup, TakeLease, RefuseUnauthorized, QueueTask, RegisterWork,
         AdmissionSettled, Activate, LockGuard, DirectControl, StartCall, EndCall,
         RecordOutcome, FinishCall, FsAuthorize, FsLook, FsActivate, FsDuplicate, FsFinish,
         RemoveAgain, DropGuard,
         DropLease, schedVars
  <2>5. \A v \in Workers : v # w => (Touched(v)' <=> Touched(v))
    <3>1. \A v \in Workers : v # w => stage'[v] = stage[v] /\ response'[v] = response[v]
                                      /\ task'[v] = task[v]
      BY <1>1, WorkerStages DEF Stays
    <3>2. \A v \in Workers : v # w => call'[v] = call[v]
      BY <1>1 DEF WorkerStep, Lookup, TakeLease, RefuseUnauthorized, QueueTask, RegisterWork,
         Admit, Oversleep, LookAgain, AdmissionSettled, EnterLane, Activate, LockGuard,
         DirectControl,
         StartCall, EndCall, RecordOutcome, FinishCall, FsAuthorize, FsLook, FsActivate,
         FsDuplicate, FsFinish,
         RemoveAgain, DropGuard, DropPermit, DropLease, Proceed, Refuse, Answer,
         HandlerEnds, callVars
    <3> QED BY <3>1, <3>2
  <2>6. Touched(w)' => Touched(w) \/ Request[w] \in asked \/ closed
    <3>1. call'[w] = "signalled" => call[w] = "signalled" \/ Request[w] \in asked
      <4>1. CASE FsActivate(w) BY <4>1, <2>2 DEF FsActivate
      <4>2. CASE StartCall(w) \/ EndCall(w) BY <4>2, SMTT(30) DEF StartCall, EndCall
      <4>3. CASE call' = call BY <4>3
      <4> QED
        BY <1>1, <4>1, <4>2, <4>3
           DEF WorkerStep, Lookup, TakeLease, RefuseUnauthorized, QueueTask, RegisterWork,
               Admit, Oversleep, LookAgain, AdmissionSettled, EnterLane, Activate, LockGuard,
               DirectControl,
               RecordOutcome, FinishCall, FsAuthorize, FsLook, FsDuplicate, FsFinish,
               RemoveAgain, DropGuard,
               DropPermit, DropLease, Proceed, Refuse, Answer, HandlerEnds, callVars
    <3>2. /\ response'[w] = "cancelled" => Touched(w) \/ Request[w] \in asked \/ closed
          /\ task'[w] = "cancelled" => Touched(w) \/ Request[w] \in asked \/ closed
      <4>1. CASE AdmissionSettled(w)
        <5>1. pc[w] = "cancelled" => task[w] = "cancelled"
          BY <4>1 DEF AdmissionSettled, StageInv, InAdmission
        <5> QED BY <4>1, <5>1, <1>c, SMTT(30) DEF AdmissionSettled, MarkRunning, FinishTasks,
                   Proceed,
                Answer
      <4>2. CASE EndCall(w) BY <4>2 DEF EndCall
      <4>3. CASE RecordOutcome(w) BY <4>3, SMTT(30) DEF RecordOutcome, Normalize, FinishTasks
      <4>4. CASE FinishCall(w) BY <4>4 DEF FinishCall, FinishTasks, Answer
      <4>5. CASE FsAuthorize(w) \/ FsLook(w) \/ FsDuplicate(w) \/ FsFinish(w)
        BY <4>5, SMTT(30) DEF FsAuthorize, FsLook, FsDuplicate, FsFinish, HandlerEnds,
           FinishTasks, Proceed
      <4>6. CASE LockGuard(w) \/ DirectControl(w)
        BY <4>6, SMTT(30) DEF LockGuard, DirectControl, AbandonTask, FinishTasks, Answer, Proceed
      <4>8. CASE RegisterWork(w)
        BY <4>8, SMTT(30) DEF RegisterWork, AbandonTask, FinishTasks, Proceed, Answer
      <4>7. CASE \/ Lookup(w) \/ TakeLease(w) \/ RefuseUnauthorized(w) \/ QueueTask(w)
                 \/ EnterLane(w) \/ Activate(w) \/ Admit(w) \/ Oversleep(w) \/ LookAgain(w)
                 \/ StartCall(w) \/ FsActivate(w) \/ RemoveAgain(w) \/ DropGuard(w)
                 \/ DropPermit(w) \/ DropLease(w)
        BY <4>7 DEF Lookup, TakeLease, RefuseUnauthorized, QueueTask, EnterLane, Activate,
           Admit, Oversleep, LookAgain, StartCall, FsActivate, RemoveAgain, DropGuard,
           DropPermit, DropLease, Proceed, Refuse, Answer, callVars
      <4> QED BY <1>1, <4>1, <4>2, <4>3, <4>4, <4>5, <4>6, <4>7, <4>8 DEF WorkerStep
    <3> QED BY <3>1, <3>2
  <2>7. Calls
    <3>1. closed => Blamed(Request[w]) BY DEF Blamed
    <3> HIDE DEF Touched
    <3> QED BY <2>1, <2>5, <2>6, <3>1, <1>a, <1>c
  <2> QED BY <1>a, <1>b, <1>c, <2>1, <2>2, <2>3, <2>4, <2>7
\* Marking a request whose cause is known
<1>2. ASSUME NEW k \in Requests, MarkCancelled(k), Blamed(k)', Grows, asks' \subseteq asks,
             settling' = settling, sweeps' = sweeps, pc' = pc, task' = task, call' = call,
             response' = response
      PROVE  BlameInv'
  <2>1. asked' \subseteq asked \cup {k} BY <1>2 DEF MarkCancelled
  <2>2. \A m \in mail' : m \in mail \/ m.key = k BY <1>2, SMTT(30) DEF MarkCancelled
  <2>3. Asks /\ Mails /\ Sweeps BY <1>2, <1>a, <1>c, <2>1, <2>2
  <2>4. Calls /\ Shut BY <1>2, <1>a, <1>c
  <2> QED BY <1>b, <2>3, <2>4
<1>3. ASSUME NEW k \in Requests, CancelNotification(k) PROVE BlameInv'
  <2>1. /\ MarkCancelled(k) /\ Blamed(k)' /\ Grows /\ asks' \subseteq asks
        /\ settling' = settling /\ sweeps' = sweeps
        /\ pc' = pc /\ task' = task /\ call' = call /\ response' = response
    BY <1>3 DEF CancelNotification, Disrupt, Blamed, schedVars, callVars
  <2> QED BY <1>2, <2>1
<1>4. ASSUME NEW k \in Requests, AskNext(k) PROVE BlameInv'
  <2>1. /\ MarkCancelled(k) /\ Grows /\ asks' \subseteq asks
        /\ settling' = settling /\ sweeps' = sweeps
        /\ pc' = pc /\ task' = task /\ call' = call /\ response' = response
    BY <1>4 DEF AskNext, schedVars, callVars
  <2>2. Blamed(k)' BY <1>4, <1>a, <1>c, <2>1 DEF AskNext
  <2> QED BY <1>2, <2>1, <2>2
\* Striking tickets whose cause is known
<1>5. ASSUME NEW ws \in SUBSET queue, CancelQueued(ws), FinishTasks(ws, "cancelled"), Grows,
             \A v \in ws : Blamed(Request[v])', call' = call, response' = response
      PROVE  Calls /\ Shut
  <2>1. \A v \in Workers : task'[v] = "cancelled" => v \in ws \/ task[v] = "cancelled"
    BY <1>5 DEF FinishTasks
  <2>2. Calls BY <1>5, <1>a, <1>c, <2>1
  <2>3. Shut BY <1>5, <1>c DEF CancelQueued, NotifyAll
  <2> QED BY <2>2, <2>3
<1>6. ASSUME NEW s \in Sessions, NEW w \in Workers, CancelTask(s, w) PROVE BlameInv'
  <2>1. /\ Grows /\ Request[w] \in blamed' /\ mail' = mail
        /\ settling' = settling /\ sweeps' = sweeps
        /\ asked' = asked /\ asks' = asks \cup {Request[w]} /\ call' = call
        /\ response' = response
    BY <1>6 DEF CancelTask, Disrupt, CancelQueuedTask, registryVars, callVars, schedVars
  <2>2. Asks /\ Mails /\ Sweeps BY <1>a, <1>c, <2>1 DEF Blamed
  <2>3. CASE w \in queue
    <3>1. {w} \in SUBSET queue /\ CancelQueued({w}) /\ FinishTasks({w}, "cancelled")
      BY <1>6, <2>3 DEF CancelTask, CancelQueuedTask
    <3>2. \A v \in {w} : Blamed(Request[v])' BY <2>1 DEF Blamed
    <3>3. Calls /\ Shut BY <1>5, <2>1, <3>1, <3>2
    <3> QED BY <1>b, <2>2, <3>3
  <2>4. CASE w \notin queue
    <3>1. Calls /\ Shut BY <1>6, <1>a, <1>c, <2>1, <2>4 DEF CancelTask, schedVars
    <3> QED BY <1>b, <2>2, <3>1
  <2> QED BY <2>3, <2>4
\* Signalling a call whose cause is known
<1>7. ASSUME NEW w \in Workers, Signal(w), Blamed(Request[w]), Grows, task' = task,
             response' = response
      PROVE  Calls
  BY <1>7, <1>a, <1>c DEF Signal
<1>8. ASSUME NEW m \in mail, Deliver(m) PROVE BlameInv'
  <2>1. /\ asks' = asks /\ asked' = asked /\ mail' \subseteq mail
        /\ settling' = settling /\ sweeps' = sweeps
        /\ response' = response /\ Grows
    BY <1>8 DEF Deliver, registryVars, CancelQueuedRequest, schedVars
  <2>2. Asks /\ Mails /\ Sweeps BY <1>a, <1>c, <2>1
  <2>3. m.key \in Requests /\ m.to \in {"queued"} \cup Workers /\ Blamed(m.key)
    BY <1>c
  <2>4. Calls /\ Shut
    <3>1. CASE m.to = "queued"
      <4>1. call' = call BY <1>8, <3>1 DEF Deliver
      <4>2. CASE CancelQueuedRequest(m.key) /\ FinishTasks(queue \ queue', "cancelled")
        <5>1. PICK w \in queue : CancelQueued({w}) /\ Request[w] = m.key
          BY <4>2 DEF CancelQueuedRequest
        <5>2. queue \ queue' = {w} BY <5>1, SMTT(30) DEF CancelQueued
        <5>3. {w} \in SUBSET queue OBVIOUS
        <5>4. \A v \in {w} : Blamed(Request[v])' BY <5>1, <2>1, <2>3, <1>a
        <5>5. CancelQueued({w}) /\ FinishTasks({w}, "cancelled") BY <4>2, <5>1, <5>2
        <5> QED BY <1>5, <2>1, <4>1, <5>3, <5>4, <5>5
      <4>3. CASE UNCHANGED <<schedVars, task>>
        BY <1>a, <1>c, <2>1, <4>1, <4>3 DEF schedVars
      <4> QED BY <1>8, <3>1, <4>2, <4>3 DEF Deliver
    <3>2. CASE m.to # "queued"
      <4>1. /\ m.to \in Workers /\ Signal(m.to) /\ task' = task /\ pc' = pc
            /\ closed' = closed
        BY <1>8, <2>3, <3>2 DEF Deliver, schedVars
      <4>2. Blamed(Request[m.to]) BY <2>3, <4>1 DEF TargetInv
      <4>3. Calls BY <1>7, <2>1, <4>1, <4>2
      <4> QED BY <1>c, <4>1, <4>3
    <3> QED BY <3>1, <3>2
  <2> QED BY <1>b, <2>2, <2>4
<1>9. ASSUME NEW w \in Workers, RelaySends(w) PROVE BlameInv'
  <2>1. /\ Signal(w) /\ Request[w] \in asked /\ task' = task /\ response' = response /\ Grows
        /\ asks' = asks /\ asked' = asked /\ settling' = settling /\ sweeps' = sweeps
        /\ mail' = mail /\ pc' = pc /\ closed' = closed
    BY <1>9 DEF RelaySends, schedVars, registryVars, cancelVars
  <2>2. Calls BY <1>7, <1>c, <2>1
  <2> QED BY <1>a, <1>b, <1>c, <2>1, <2>2
<1>10. ASSUME NEW s \in Sessions, CloseSession(s) PROVE BlameInv'
  <2>1. /\ asks' = asks /\ settling' = settling \cup {s} /\ sweeps' = sweeps
        /\ blamed' = blamed \cup KeysOf(s) /\ mail' = mail /\ asked' = asked /\ task' = task
        /\ call' = call /\ response' = response /\ pc' = pc /\ closed' = closed
    BY <1>10 DEF CloseSession, Disrupt, schedVars, registryVars, callVars
  <2>2. Grows BY <2>1
  <2>3. \A v \in Workers : Owner[v] = s => Request[v] \in KeysOf(s) BY DEF KeysOf
  <2>4. Asks /\ Mails BY <1>a, <1>c, <2>1, <2>2 DEF Blamed
  <2>5. Sweeps BY <1>a, <1>c, <2>1, <2>2, <2>3 DEF Blamed
  <2>6. Calls /\ Shut BY <1>a, <1>c, <2>1, <2>2
  <2> QED BY <1>b, <2>4, <2>5, <2>6
<1>17. ASSUME NEW s \in Sessions, SettleSession(s) PROVE BlameInv'
  <2>1. /\ asks' \subseteq asks \cup KeysOf(s) /\ s \in settling
        /\ settling' \cup sweeps' \subseteq settling \cup sweeps
        /\ blamed' = blamed /\ mail' = mail /\ asked' = asked /\ task' = task
        /\ call' = call /\ response' = response /\ pc' = pc /\ closed' = closed
    BY <1>17 DEF SettleSession, schedVars, registryVars, callVars
  <2>2. Grows BY <2>1
  <2>3. \A k \in KeysOf(s) : Blamed(k) BY <1>c, <2>1 DEF KeysOf
  <2>4. Asks /\ Mails BY <1>a, <1>c, <2>1, <2>2, <2>3
  <2>5. Sweeps BY <1>a, <1>c, <2>1, <2>2
  <2>6. Calls /\ Shut BY <1>a, <1>c, <2>1, <2>2
  <2> QED BY <1>b, <2>4, <2>5, <2>6
<1>11. ASSUME NEW s \in Sessions, Sweep(s) PROVE BlameInv'
  <2> DEFINE ws == {w \in queue : Owner[w] = s}
  <2>1. /\ ws \in SUBSET queue /\ CancelQueued(ws) /\ FinishTasks(ws, "cancelled") /\ Grows
        /\ call' = call /\ response' = response /\ asks' = asks /\ asked' = asked
        /\ mail' = mail /\ settling' = settling /\ sweeps' \subseteq sweeps /\ s \in sweeps
    BY <1>11 DEF Sweep, CancelQueuedBySession, registryVars, callVars
  <2>2. \A v \in ws : Blamed(Request[v])' BY <2>1, <1>a, <1>c
  <2> HIDE DEF ws
  <2>3. Calls /\ Shut BY <1>5, <2>1, <2>2
  <2>4. Asks /\ Mails /\ Sweeps BY <1>a, <1>c, <2>1
  <2> QED BY <1>b, <2>3, <2>4
<1>12. ASSUME asks' = asks, asked' = asked, mail' = mail, settling' = settling,
              sweeps' = sweeps, Grows,
              task' = task, call' = call, response' = response, pc' = pc, closed' = closed
       PROVE  BlameInv'
  BY <1>12, <1>a, <1>b, <1>c
<1>13. ASSUME NEW s \in Sessions, OpenSession(s) PROVE BlameInv'
  BY <1>12, <1>13 DEF OpenSession, cancelVars, registryVars, callVars, schedVars
<1>14. CASE Stop \/ Join \/ UNCHANGED vars
  BY <1>12, <1>14 DEF Stop, Join, vars, cancelVars, registryVars, callVars, schedVars
<1>15. CASE CloseScheduler
  <2>1. closed' BY <1>15 DEF CloseScheduler, Close
  <2>2. \A k : Blamed(k)' BY <2>1 DEF Blamed
  <2> QED BY <1>b, <2>1, <2>2
<1>16. CASE CancelRound
  <2>1. closed /\ closed' BY <1>16 DEF CancelRound, ServerInv, schedVars
  <2>2. \A k : Blamed(k)' BY <2>1 DEF Blamed
  <2> QED BY <1>b, <2>1, <2>2
<1> QED
  BY <1>1, <1>3, <1>4, <1>6, <1>8, <1>9, <1>10, <1>11, <1>13, <1>14, <1>15, <1>16,
     <1>17 DEF Next, Reap, ServerStep

\* A closing server has closed its scheduler; a joined one has no worker left.
LEMMA ServerNext ==
    ASSUME RequestsTypeOK, StageInv, TicketsMatchWaiters, ServerInv, [Next]_vars
    PROVE  ServerInv'
<1>1. ASSUME server' = server, closed' = closed,
             \A v \in Workers : stage'[v] = stage[v]
                                \/ ~(stage[v] \in {"idle", "done"} /\ server = "joined")
      PROVE  ServerInv'
  <2>1. server = "joined" => \A v \in Workers : stage'[v] \in {"idle", "done"}
    BY <1>1 DEF ServerInv
  <2> QED BY <1>1, <2>1 DEF ServerInv
<1>2. ASSUME NEW w \in Workers, Lookup(w) \/ WorkerStep(w) \/ Oversleep(w) PROVE ServerInv'
  <2>1. server' = server /\ closed' = closed
    BY <1>2 DEF WorkerStep, Lookup, TakeLease, RefuseUnauthorized, QueueTask, RegisterWork,
       Admit, Oversleep, LookAgain, AdmissionSettled, EnterLane, Activate, LockGuard,
       DirectControl,
       StartCall, EndCall, RecordOutcome, FinishCall, FsAuthorize, FsLook, FsActivate,
       FsDuplicate, FsFinish,
       RemoveAgain, DropGuard, DropPermit, DropLease, serverVars, schedVars, AdmitWork,
       AdmitClosed, AdmitDirectly, AdmitRejected, AdmitQueued, WakeSpuriously, Recheck,
       TakeCancellation, TakeSlot, WaitAgain, EnterImmediate, ReleaseWork, LeaveImmediate
  <2>2. CASE Oversleep(w) \/ LookAgain(w) \/ Admit(w)
    BY <1>1, <2>1, <2>2 DEF Oversleep, LookAgain, Admit, callVars
  <2>3. CASE Lookup(w)
    BY <1>1, <2>1, <2>3 DEF Lookup, Proceed, Refuse, RequestsTypeOK
  <2>4. CASE \/ TakeLease(w) \/ RefuseUnauthorized(w) \/ QueueTask(w) \/ RegisterWork(w)
             \/ AdmissionSettled(w) \/ EnterLane(w) \/ Activate(w) \/ LockGuard(w)
             \/ DirectControl(w)
             \/ StartCall(w) \/ EndCall(w) \/ RecordOutcome(w) \/ FinishCall(w)
             \/ FsAuthorize(w) \/ FsLook(w) \/ FsActivate(w) \/ FsDuplicate(w)
             \/ FsFinish(w) \/ RemoveAgain(w)
             \/ DropGuard(w) \/ DropPermit(w) \/ DropLease(w)
    <3>1. stage[w] \notin {"idle", "done"}
      BY <2>4 DEF TakeLease, RefuseUnauthorized, QueueTask, RegisterWork, AdmissionSettled,
         EnterLane, Activate, LockGuard, DirectControl, StartCall, EndCall, RecordOutcome,
         FinishCall,
         FsAuthorize, FsLook, FsActivate, FsDuplicate, FsFinish, RemoveAgain, DropGuard,
         DropPermit, DropLease
    <3>2. server # "joined" BY <3>1 DEF ServerInv
    <3> QED BY <1>1, <2>1, <3>2
  <2> QED BY <1>2, <2>2, <2>3, <2>4 DEF WorkerStep
<1>3. ASSUME \/ \E w \in Workers : RelaySends(w) \/ \E s \in Sessions : CancelTask(s, w)
             \/ \E k \in Requests : CancelNotification(k) \/ AskNext(k)
             \/ \E m \in mail : Deliver(m)
             \/ \E s \in Sessions : \/ OpenSession(s) \/ CloseSession(s) \/ Reap(s)
                                       \/ SettleSession(s) \/ Sweep(s)
             \/ CancelRound \/ UNCHANGED vars
      PROVE  ServerInv'
  <2>1. server' = server /\ closed' = closed /\ stage' = stage
    BY <1>3 DEF RelaySends, CancelTask, CancelNotification, AskNext, Deliver, OpenSession,
       CloseSession, Reap, SettleSession, Sweep, CancelRound, vars, serverVars, schedVars,
       callVars,
       CancelQueuedTask, CancelQueuedRequest, CancelQueuedBySession
  <2> QED BY <1>1, <2>1
<1>4. CASE Stop \/ CloseScheduler \/ Join
  BY <1>4 DEF Stop, CloseScheduler, Join, Close, ServerInv, schedVars, callVars
<1> QED BY <1>2, <1>3, <1>4 DEF Next, ServerStep

-----------------------------------------------------------------------------
\* In the initial state nobody has called.
LEMMA RequestsInit == Init => RequestsInv
<1> SUFFICES ASSUME Init PROVE RequestsInv OBVIOUS
<1> USE RequestsConstants, SchedulerConstants DEF Init, SchedInit
<1>1. stage \in [Workers -> {"idle", "done"}] /\ rounds \in Nat OBVIOUS
<1>2. RequestsTypeOK BY <1>1 DEF RequestsTypeOK, Stages
<1>3. StageInv
  BY <1>1 DEF StageInv, BeforeAdmission, InAdmission, InService, AfterService, Over, Serving,
     ImmediateLanes, Tells
<1>4. BlameInv /\ TargetInv BY DEF BlameInv, TargetInv
<1>5. HoldInv BY <1>1 DEF HoldInv, Holds, Active, Serving
<1>6. GuardInv /\ EarlyInv /\ ServerInv BY DEF GuardInv, EarlyInv, ServerInv
<1> QED BY <1>2, <1>3, <1>4, <1>5, <1>6 DEF RequestsInv

\* Every step keeps the invariant, and every step is one the scheduler allows.
LEMMA RequestsNext ==
    ASSUME FilesystemIdsAreFresh, SchedInv, RequestsInv, [Next]_vars
    PROVE  RequestsInv'
<1>1. SchedTypeOK /\ TicketsMatchWaiters BY DEF SchedInv
<1> USE DEF RequestsInv
<1>2. RequestsTypeOK' BY <1>1, TypesNext
<1>3. StageInv' BY <1>1, StageNext
<1>4. HoldInv' BY HoldNext
<1>5. BlameInv' BY <1>1, BlameNext
<1>6. TargetInv' BY TargetNext
<1>7. GuardInv' BY GuardNext
<1>8. EarlyInv' BY EarlyNext
<1>9. ServerInv' BY <1>1, ServerNext
<1> QED BY <1>2, <1>3, <1>4, <1>5, <1>6, <1>7, <1>8, <1>9

\* The life of the calls drives the scheduler as any client of it may: everything
\* that is proved of the scheduler alone holds of it inside the server.
THEOREM CallsUseTheScheduler ==
    ASSUME FilesystemIdsAreFresh
    PROVE  Spec => SchedSpec
<1>1. Init => SchedInit /\ SchedInv /\ RequestsInv
  BY SchedInvInit, RequestsInit DEF Init
<1>2. ASSUME SchedInv, RequestsInv, [Next]_vars
      PROVE  [SchedNext]_schedVars /\ SchedInv' /\ RequestsInv'
  <2>1. [SchedNext]_schedVars
    BY <1>2, SchedulerSteps DEF RequestsInv, RequestsTypeOK
  <2> QED BY <1>2, <2>1, SchedInvNext, RequestsNext
<1> QED BY <1>1, <1>2, PTL DEF Spec, SchedSpec

\* The scheduler's invariant and the one of the requests hold together.
LEMMA RequestsInvariant ==
    ASSUME FilesystemIdsAreFresh
    PROVE  Spec => [](SchedInv /\ RequestsInv)
<1>1. Init => SchedInv /\ RequestsInv BY SchedInvInit, RequestsInit DEF Init
<1>2. ASSUME SchedInv, RequestsInv, [Next]_vars
      PROVE  SchedInv' /\ RequestsInv'
  BY <1>2, SchedulerSteps, SchedInvNext, RequestsNext DEF RequestsInv, RequestsTypeOK
<1> QED BY <1>1, <1>2, PTL DEF Spec

\* What the task registry says of a call is what its client was answered, and a
\* call is cancelled only for a cause of its own.
THEOREM OutcomesStayTrue ==
    ASSUME FilesystemIdsAreFresh
    PROVE  Spec => []OutcomesAreTrue
<1>1. SchedInv /\ RequestsInv => OutcomesAreTrue
  <2> SUFFICES ASSUME RequestsInv PROVE OutcomeAgrees /\ CancelledOnDemand
    BY DEF OutcomesAreTrue
  <2>1. OutcomeAgrees BY DEF RequestsInv, StageInv, AfterService, OutcomeAgrees
  <2>2. CancelledOnDemand BY DEF RequestsInv, BlameInv, Blamed, CancelledOnDemand
  <2> QED BY <2>1, <2>2
<1> QED BY <1>1, RequestsInvariant, PTL

\* A server that has joined its workers leaves nothing behind.
THEOREM NothingAfterJoin ==
    ASSUME FilesystemIdsAreFresh
    PROVE  Spec => []QuietAfterJoin
<1>1. ASSUME SchedInv, RequestsInv, LaneAccounting PROVE QuietAfterJoin
  <2> SUFFICES ASSUME server = "joined"
               PROVE  /\ ActiveKeys = {}
                      /\ \A w \in Workers : task[w] \notin LiveTask
                      /\ work_running = 0
                      /\ \A l \in ImmediateLanes : active[l] = 0
                      /\ guard = "free"
                      /\ queue = {}
    BY DEF QuietAfterJoin
  <2>1. \A w \in Workers : stage[w] \in {"idle", "done"} BY <1>1 DEF RequestsInv, ServerInv
  <2>2. \A w \in Workers : pc[w] \notin {"waiting", "woken", "work"} \cup ImmediateLanes
    BY <1>1, <2>1 DEF RequestsInv, StageInv, BeforeAdmission, AfterService, Over,
       ImmediateLanes
  <2>3. ActiveKeys = {}
    <3>1. \A w \in Workers : ~Holds(w) BY <2>1 DEF Holds, Serving
    <3> QED BY <1>1, <3>1 DEF RequestsInv, HoldInv, ActiveKeys
  <2>4. \A w \in Workers : task[w] \notin LiveTask
    BY <1>1, <2>1 DEF RequestsInv, RequestsTypeOK, StageInv, BeforeAdmission, AfterService,
       Over, LiveTask, Replies, Results, Tells
  <2>5. work_running = 0 BY <1>1, <2>2 DEF SchedInv, SlotExclusion
  <2>6. \A l \in ImmediateLanes : active[l] = 0
    <3> TAKE l \in ImmediateLanes
    <3>1. {w \in Workers : pc[w] = l} = {} BY <2>2
    <3> QED BY <1>1, <3>1, FS_EmptySet DEF LaneAccounting
  <2>7. guard = "free" BY <1>1, <2>1 DEF RequestsInv, RequestsTypeOK, GuardInv
  <2>8. queue = {} BY <1>1, <2>2 DEF SchedInv, TicketsMatchWaiters
  <2> QED BY <2>3, <2>4, <2>5, <2>6, <2>7, <2>8
<1> QED BY <1>1, RequestsInvariant, CallsUseTheScheduler, LanesAreAccounted, PTL

\* A runtime call that was cancelled before its admission is not reported as
\* completed.
THEOREM EarlyCancelsCount ==
    ASSUME FilesystemIdsAreFresh
    PROVE  Spec => []EarlyCancelHonoured
<1>1. RequestsInv => EarlyCancelHonoured
  <2> SUFFICES ASSUME RequestsInv, NEW w \in early, Over(w), Tool[w] = "runtime"
               PROVE  response[w] # "completed"
    BY DEF EarlyCancelHonoured
  <2>1. w \in Workers BY DEF RequestsInv, RequestsTypeOK
  <2>2. stage[w] \in {"answered", "released"}
    BY <2>1 DEF RequestsInv, EarlyInv, Over, Serving
  <2> QED BY <2>2 DEF RequestsInv, EarlyInv
<1> QED BY <1>1, RequestsInvariant, PTL
=============================================================================
