------------------------------- MODULE Requests ------------------------------
(***************************************************************************)
(* The life of a tools/call in the MCP server (mcp/server.rs), from the    *)
(* session lookup to the drop of its lease, composed with the scheduler    *)
(* and with the session, request and task registries                       *)
(* (control_plane/{session,request,task}_registry.rs).                     *)
(*                                                                         *)
(* A worker serves one tools/call of the session Owner[w], under the       *)
(* request key Request[w]; two workers with the same key are a client that *)
(* reuses an id.  Tool[w] says which path of handle_connection it takes:   *)
(*   "runtime"     a work tool run by the facade under its guard,          *)
(*   "filesystem"  the workspace filesystem handler,                       *)
(*   "control"     command_control, in the control lane,                   *)
(*   "observe"     a tool of the observation lane that registers nothing.  *)
(*                                                                         *)
(* One step is one critical section (the removal of a request and the      *)
(* completion of its task, always done together by one worker, are one).   *)
(* Cancellations come from other threads: one first marks the request      *)
(* (request_cancellation, which also returns a copy of its target) and     *)
(* later acts on that copy (cancel_registered_request).  "asks" are marks  *)
(* about to be made, "mail" copies about to be acted on; they are taken in *)
(* any order.                                                              *)
(***************************************************************************)
EXTENDS Scheduler

CONSTANTS
    Tool,
    MaxSessions,      \* MAX_DOWNSTREAM_MCP_SESSIONS
    Scenarios         \* bounds: which workers call at all, how often the
                      \* clients cancel or end a session, and how many rounds
                      \* of cancellation precede the join

WorkTools == {"runtime", "filesystem"}
Tools == WorkTools \cup {"control", "observe"}

ASSUME RequestsConstants ==
    /\ Tool \in [Workers -> Tools]
    /\ MaxSessions \in Nat
    /\ Scenarios \subseteq [crew : SUBSET Workers, disruptions : Nat, rounds : Nat]
    /\ \A v, w \in Workers : Request[v] = Request[w] => Owner[v] = Owner[w]
    /\ {"none", "queued", "free"} \cap Workers = {}

VARIABLES
    session,    \* absent, open or gone, by session
    owned,      \* owned_requests, by session
    stage,      \* where each worker is in handle_connection
    target,     \* the cancellation target of each active request: none,
                \* queued, or the worker whose call it points to
    asked,      \* the active requests in state CancellationRequested
    task,       \* the lifecycle of each worker's task
    call,       \* the tool call of each worker: none, running or signalled
    response,   \* the answer of each worker
    guard,      \* who holds the mutex of the facade
    relay,      \* the workers whose call a cancellation relay is after
    asks, mail, settling, sweeps,
    blamed,     \* history: requests that a client has cancelled or abandoned
    early,      \* history: calls in flight marked before their admission
    disruptions,\* how many more a client may cancel or abandon
    server,     \* serving, ended (the accept loop), closing or joined
    stopping,   \* the flag that the workers read
    rounds      \* cancellation rounds left before the join

sessionVars == <<session, owned>>
registryVars == <<target, asked, relay>>
callVars == <<stage, call, response, guard>>
cancelVars == <<asks, mail, settling, sweeps, blamed, early, disruptions>>
serverVars == <<server, stopping, rounds>>
vars == <<schedVars, sessionVars, registryVars, task, callVars, cancelVars,
          serverVars>>

LiveTask == {"queued", "running"}

Init ==
    /\ SchedInit
    /\ session = [s \in Sessions |-> "absent"]
    /\ owned = [s \in Sessions |-> {}]
    /\ \E scenario \in Scenarios :
         /\ stage = [w \in Workers |-> IF w \in scenario.crew THEN "idle" ELSE "done"]
         /\ disruptions = scenario.disruptions
         /\ rounds = scenario.rounds
    /\ target = [k \in Requests |-> "none"]
    /\ asked = {}
    /\ task = [w \in Workers |-> "none"]
    /\ call = [w \in Workers |-> "none"]
    /\ response = [w \in Workers |-> "none"]
    /\ guard = "free"
    /\ relay = {}
    /\ asks = {}
    /\ mail = {}
    /\ settling = {}
    /\ sweeps = {}
    /\ blamed = {}
    /\ early = {}
    /\ server = "serving"
    /\ stopping = FALSE

-----------------------------------------------------------------------------
\* Registry operations, and their faulty versions.

KeysOf(s) == {Request[w] : w \in {v \in Workers : Owner[v] = s}}
Active(k) == target[k] # "none"
ActiveKeys == {k \in Requests : Active(k)}

\* TaskRegistry::finish and finish_with_error: the first terminal outcome stays.
FinishTasks(ws, outcome) ==
    task' = [w \in Workers |->
                IF w \in ws /\ task[w] \in LiveTask THEN outcome ELSE task[w]]

\* TaskRegistry::mark_running
MarkRunning(w) ==
    task' = [task EXCEPT ![w] = IF @ = "queued" THEN "running" ELSE @]

\* RequestRegistry::register of an absent key, replace_cancellation_target,
\* and remove.
RegisterRequest(k, t) ==
    /\ target' = [target EXCEPT ![k] = t]
    /\ asked' = asked \ {k}
    /\ relay' = {w \in relay : Request[w] # k}
\* (A relay for an earlier target of the key finds that it is gone, and ends.)
ReplaceTarget(k, t, relayed) ==
    /\ target' = [target EXCEPT ![k] = t]
    /\ relay' = {w \in relay : Request[w] # k} \cup (IF k \in asked THEN relayed ELSE {})
    /\ UNCHANGED asked
RemoveRequest(k) == RegisterRequest(k, "none")

\* SessionRegistry::update: only an open session is touched or changed.
UpdateOwned(s, keys) ==
    IF session[s] = "open"
    THEN /\ owned' = [owned EXCEPT ![s] = keys]
         /\ UNCHANGED session
    ELSE UNCHANGED sessionVars

\* What a worker does last with its request: the response is written.
Answer(w, r) ==
    /\ stage' = [stage EXCEPT ![w] = "answered"]
    /\ response' = [response EXCEPT ![w] = r]
    /\ UNCHANGED <<call, guard>>
Refuse(w, r) ==
    /\ stage' = [stage EXCEPT ![w] = "done"]
    /\ response' = [response EXCEPT ![w] = r]
    /\ UNCHANGED <<call, guard>>
Proceed(w, to) ==
    /\ stage' = [stage EXCEPT ![w] = to]
    /\ UNCHANGED <<call, response, guard>>

-----------------------------------------------------------------------------
\* handle_connection, up to the admission.

\* The session is looked up.
Lookup(w) ==
    /\ stage[w] = "idle"
    /\ server = "serving"
    /\ \/ /\ session[Owner[w]] = "open"
          /\ Proceed(w, "known")
       \/ /\ session[Owner[w]] # "open"
          /\ Refuse(w, "no_session")
    /\ UNCHANGED <<schedVars, sessionVars, registryVars, task, cancelVars, serverVars>>

\* A stopping server, or one without an authority snapshot, refuses; otherwise
\* the call takes its lease on the session, if that is still there.
TakeLease(w) ==
    /\ stage[w] = "known"
    /\ \/ /\ stopping
          /\ Refuse(w, "stopping")
          /\ UNCHANGED sessionVars
       \/ /\ ~stopping
          /\ Refuse(w, "unavailable")
          /\ UNCHANGED sessionVars
       \/ /\ ~stopping
          /\ UpdateOwned(Owner[w], owned[Owner[w]] \cup {Request[w]})
          /\ Proceed(w, "leased")
    /\ UNCHANGED <<schedVars, registryVars, task, cancelVars, serverVars>>

\* Work is refused before it is queued while intent has not converged.
RefuseUnauthorized(w) ==
    /\ stage[w] = "leased"
    /\ Tool[w] \in WorkTools
    /\ Answer(w, "unavailable")
    /\ UNCHANGED <<schedVars, sessionVars, registryVars, task, cancelVars,
                   serverVars>>

QueueTask(w) ==
    /\ stage[w] = "leased"
    /\ Tool[w] \in WorkTools
    /\ task' = [task EXCEPT ![w] = "queued"]
    /\ Proceed(w, "tasked")
    /\ UNCHANGED <<schedVars, sessionVars, registryVars, cancelVars, serverVars>>

\* An id that is already active is refused, and its task is blocked.
RegisterWork(w) ==
    /\ stage[w] = "tasked"
    /\ \/ /\ Active(Request[w])
          /\ FinishTasks({w}, "blocked")
          /\ Answer(w, "duplicate")
          /\ UNCHANGED registryVars
       \/ /\ ~Active(Request[w])
          /\ RegisterRequest(Request[w], "queued")
          /\ Proceed(w, "registered")
          /\ UNCHANGED task
    /\ UNCHANGED <<schedVars, sessionVars, cancelVars, serverVars>>

\* The scheduler's part of the admission.
Admit(w) ==
    /\ stage[w] = "registered"
    /\ AdmitWork(w)
    /\ UNCHANGED <<sessionVars, registryVars, task, callVars, cancelVars,
                   serverVars>>
Oversleep(w) ==
    /\ WakeSpuriously(w)
    /\ UNCHANGED <<sessionVars, registryVars, task, callVars, cancelVars,
                   serverVars>>
LookAgain(w) ==
    /\ Recheck(w)
    /\ UNCHANGED <<sessionVars, registryVars, task, callVars, cancelVars,
                   serverVars>>

\* What the worker makes of the scheduler's answer.  A closed scheduler cancels the
\* task, and the client is told that the server stops.
AdmissionSettled(w) ==
    /\ stage[w] = "registered"
    /\ \/ /\ pc[w] = "work"
          /\ MarkRunning(w)
          /\ Proceed(w, "admitted")
          /\ UNCHANGED registryVars
       \/ /\ pc[w] = "rejected"
          /\ RemoveRequest(Request[w])
          /\ FinishTasks({w}, "blocked")
          /\ Answer(w, "blocked")
       \/ /\ pc[w] \in {"cancelled", "closed"}
          /\ RemoveRequest(Request[w])
          /\ FinishTasks({w}, "cancelled")
          /\ Answer(w, IF pc[w] = "closed" THEN "stopping" ELSE "cancelled")
    /\ UNCHANGED <<schedVars, sessionVars, cancelVars, serverVars>>

EnterLane(w) ==
    /\ stage[w] = "leased"
    /\ \/ Tool[w] = "control" /\ EnterImmediate(w, "control")
       \/ Tool[w] = "observe" /\ EnterImmediate(w, "observation")
    /\ \/ pc'[w] = "closed" /\ Answer(w, "stopping")
       \/ pc'[w] = "rejected" /\ Answer(w, "blocked")
       \/ pc'[w] = "control" /\ Proceed(w, "admitted")
       \/ pc'[w] = "observation" /\ Answer(w, "completed")
    /\ UNCHANGED <<sessionVars, registryVars, task, cancelVars, serverVars>>

-----------------------------------------------------------------------------
\* The general path: activate the runtime target, take the guard, call.

\* A scheduled call redirects its own registration; a control call makes one.
\* A request cancelled in between is cancelled again at its new target.
Activate(w) ==
    /\ stage[w] = "admitted"
    /\ Tool[w] \in {"runtime", "control"}
    /\ LET k == Request[w]
           usable == IF Tool[w] = "runtime" THEN Active(k) ELSE ~Active(k)
       IN  \/ /\ ~usable
              /\ Answer(w, "duplicate")
              /\ UNCHANGED <<registryVars, cancelVars>>
           \/ /\ usable
              /\ IF Tool[w] = "runtime" THEN ReplaceTarget(k, w, {w})
                                        ELSE RegisterRequest(k, w)
              /\ mail' = IF k \in asked' THEN mail \cup {[key |-> k, to |-> w]}
                                         ELSE mail
              /\ UNCHANGED <<asks, settling, sweeps, blamed, early, disruptions>>
              /\ Proceed(w, "activated")
    /\ UNCHANGED <<schedVars, sessionVars, task, serverVars>>

AbandonTask(w) == FinishTasks({w}, "lost")

\* Work waits for the guard, a control call only tries, and goes on without it while
\* another call has it.  Whoever gets the guard of a stopping server gives up.
LockGuard(w) ==
    /\ stage[w] = "activated"
    /\ \/ /\ guard = "free"
          /\ ~stopping
          /\ stage' = [stage EXCEPT ![w] = "guarded"]
          /\ guard' = w
          /\ UNCHANGED <<call, response, registryVars, task>>
       \/ /\ guard = "free"
          /\ stopping
          /\ RemoveRequest(Request[w])
          /\ AbandonTask(w)
          /\ Answer(w, "stopping")
       \/ /\ guard # "free"
          /\ Tool[w] = "control"
          /\ Proceed(w, "direct")
          /\ UNCHANGED <<registryVars, task>>
    /\ UNCHANGED <<schedVars, sessionVars, cancelVars, serverVars>>

\* command_control of a public session is carried out beside the work, if the policy
\* allows it; anything else is told to come back.  A mark is not looked at.
DirectControl(w) ==
    /\ stage[w] = "direct"
    /\ \E r \in {"completed", "failed", "unavailable"} : Answer(w, r)
    /\ RemoveRequest(Request[w])
    /\ UNCHANGED <<schedVars, sessionVars, task, cancelVars, serverVars>>

StartCall(w) ==
    /\ stage[w] = "guarded"
    /\ call' = [call EXCEPT ![w] = IF @ = "none" THEN "running" ELSE @]
    /\ stage' = [stage EXCEPT ![w] = "calling"]
    /\ UNCHANGED <<response, guard, schedVars, sessionVars, registryVars, task,
                   cancelVars, serverVars>>

\* The tool ends: with a result, because it was cancelled, or with any other
\* error or denial ("failed").
EndCall(w) ==
    /\ stage[w] = "calling"
    /\ \E r \in {"completed", "failed", "cancelled"} :
         /\ r = "cancelled" => call[w] = "signalled"
         /\ response' = [response EXCEPT ![w] = r]
    /\ call' = [call EXCEPT ![w] = "none"]
    /\ stage' = [stage EXCEPT ![w] = "returned"]
    /\ UNCHANGED <<guard, schedVars, sessionVars, registryVars, task,
                   cancelVars, serverVars>>

\* normalize_accepted_request_cancellation
FaultyNormalize(w) == response[w]
Normalize(w) == IF Request[w] \in asked THEN "cancelled" ELSE response[w]

\* The result is normalised, and an error is recorded in the task at once.
RecordOutcome(w) ==
    /\ stage[w] = "returned"
    /\ Tool[w] \in {"runtime", "control"}
    /\ LET r == Normalize(w)
       IN  /\ response' = [response EXCEPT ![w] = r]
           /\ IF r = "completed" THEN UNCHANGED task ELSE FinishTasks({w}, r)
    /\ stage' = [stage EXCEPT ![w] = "recorded"]
    /\ UNCHANGED <<call, guard, schedVars, sessionVars, registryVars,
                   cancelVars, serverVars>>

FinishCall(w) ==
    /\ stage[w] = "recorded"
    /\ RemoveRequest(Request[w])
    /\ FinishTasks({w}, response[w])
    /\ Answer(w, response[w])
    /\ UNCHANGED <<schedVars, sessionVars, cancelVars, serverVars>>

-----------------------------------------------------------------------------
\* The workspace filesystem handler.

\* Its outcome is recorded and its response written by the handler; the caller
\* then removes the request once more.
HandlerEnds(w, outcome, r) ==
    /\ FinishTasks({w}, outcome)
    /\ stage' = [stage EXCEPT ![w] = "removing"]
    /\ response' = [response EXCEPT ![w] = r]
    /\ UNCHANGED <<call, guard>>

\* A request that cannot be parsed is refused at once.  The guard is held only to
\* authorise the others.  (A handler that returns without an outcome leaves the task
\* to the drop of its projection, which marks it lost.)
FsAuthorize(w) ==
    /\ stage[w] = "admitted"
    /\ Tool[w] = "filesystem"
    /\ \/ HandlerEnds(w, "blocked", "blocked")
       \/ guard = "free" /\ stopping /\ HandlerEnds(w, "lost", "stopping")
       \/ guard = "free" /\ ~stopping /\ HandlerEnds(w, "blocked", "blocked")
       \/ guard = "free" /\ ~stopping /\ Proceed(w, "authorized") /\ UNCHANGED task
    /\ UNCHANGED <<schedVars, sessionVars, registryVars, cancelVars, serverVars>>

\* activate_request_target looks whether the request is active, and then redirects or
\* registers it: by then another call of the same id may have removed or made the entry.
FsLook(w) ==
    /\ stage[w] = "authorized"
    /\ Proceed(w, IF Active(Request[w]) THEN "redirecting" ELSE "registering")
    /\ UNCHANGED <<schedVars, sessionVars, registryVars, task, cancelVars, serverVars>>

\* A request that was already cancelled cancels the new token.
FsActivate(w) ==
    /\ \/ /\ stage[w] = "redirecting" /\ Active(Request[w])
          /\ ReplaceTarget(Request[w], w, {})
       \/ /\ stage[w] = "registering" /\ ~Active(Request[w])
          /\ RegisterRequest(Request[w], w)
    /\ call' = [call EXCEPT ![w] = IF Request[w] \in asked' THEN "signalled" ELSE @]
    /\ stage' = [stage EXCEPT ![w] = "guarded"]
    /\ UNCHANGED <<response, guard, schedVars, sessionVars, task, cancelVars,
                   serverVars>>

FsDuplicate(w) ==
    /\ \/ stage[w] = "redirecting" /\ ~Active(Request[w])
       \/ stage[w] = "registering" /\ Active(Request[w])
    /\ HandlerEnds(w, "lost", "duplicate")
    /\ UNCHANGED <<schedVars, sessionVars, registryVars, cancelVars, serverVars>>

FsFinish(w) ==
    /\ stage[w] = "returned"
    /\ Tool[w] = "filesystem"
    /\ RemoveRequest(Request[w])
    /\ HandlerEnds(w, response[w], response[w])
    /\ UNCHANGED <<schedVars, sessionVars, cancelVars, serverVars>>

RemoveAgain(w) ==
    /\ stage[w] = "removing"
    /\ RemoveRequest(Request[w])
    /\ Proceed(w, "answered")
    /\ UNCHANGED <<schedVars, sessionVars, task, cancelVars, serverVars>>

-----------------------------------------------------------------------------
\* The end of handle_connection: guard, permit and lease are dropped in turn.

DropGuard(w) ==
    /\ stage[w] = "answered"
    /\ guard = w
    /\ guard' = "free"
    /\ UNCHANGED <<stage, call, response, schedVars, sessionVars, registryVars,
                   task, cancelVars, serverVars>>

DropPermit(w) ==
    /\ stage[w] = "answered"
    /\ guard # w
    /\ \/ ReleaseWork(w)
       \/ LeaveImmediate(w)
       \/ pc[w] \notin {"work"} \cup ImmediateLanes /\ UNCHANGED schedVars
    /\ Proceed(w, "released")
    /\ UNCHANGED <<sessionVars, registryVars, task, cancelVars, serverVars>>

DropLease(w) ==
    /\ stage[w] = "released"
    /\ UpdateOwned(Owner[w], owned[Owner[w]] \ {Request[w]})
    /\ Proceed(w, "done")
    /\ early' = early \ {w}
    /\ UNCHANGED <<asks, mail, settling, sweeps, blamed, disruptions, schedVars, registryVars,
                   task, serverVars>>

-----------------------------------------------------------------------------
\* Cancellation.

\* (The threads that cancel are joined like the others.)
Disrupt(keys) ==
    /\ server # "joined"
    /\ disruptions > 0
    /\ disruptions' = disruptions - 1
    /\ blamed' = blamed \cup keys

\* RequestRegistry::request_cancellation: mark the request, copy its target.
MarkCancelled(k) ==
    IF Active(k)
    THEN /\ asked' = asked \cup {k}
         /\ mail' = mail \cup {[key |-> k, to |-> target[k]]}
         /\ early' = early \cup {w \in Workers : Request[w] = k /\ stage[w] = "registered"}
    ELSE UNCHANGED <<asked, mail, early>>

\* notifications/cancelled; a running call also gets a relay that repeats the
\* cancellation.
CancelNotification(k) ==
    /\ \E s \in Sessions : session[s] = "open" /\ k \in KeysOf(s)
    /\ Active(k)
    /\ MarkCancelled(k)
    /\ relay' = relay \cup {w \in Workers : target[k] = w /\ Tool[w] # "filesystem"}
    /\ Disrupt({k})
    /\ UNCHANGED <<target, asks, settling, sweeps, schedVars, sessionVars, task, callVars,
                   serverVars>>

\* task_control cancel of a live task of the caller's session: first its
\* ticket, later its request.
CancelTask(s, w) ==
    /\ session[s] = "open"
    /\ Owner[w] = s
    /\ task[w] \in LiveTask
    /\ IF w \in queue
       THEN CancelQueuedTask(s, w) /\ FinishTasks({w}, "cancelled")
       ELSE UNCHANGED <<schedVars, task>>
    /\ asks' = asks \cup {Request[w]}
    /\ Disrupt({Request[w]})
    /\ UNCHANGED <<mail, settling, sweeps, early, sessionVars, registryVars, callVars,
                   serverVars>>

AskNext(k) ==
    /\ k \in asks
    /\ asks' = asks \ {k}
    /\ MarkCancelled(k)
    /\ UNCHANGED <<target, relay, settling, sweeps, blamed, disruptions, schedVars,
                   sessionVars, task, callVars, serverVars>>

\* A cancellation reaches a call: a runtime knows only a call it is running, a
\* filesystem token can be cancelled before the operation starts.
Reaches(w) ==
    \/ call[w] = "running"
    \/ Tool[w] = "filesystem" /\ stage[w] \in {"guarded", "calling"}

Signal(w) ==
    call' = IF Reaches(w) THEN [call EXCEPT ![w] = "signalled"] ELSE call

\* cancel_registered_request, on the copy of the target.
Deliver(m) ==
    /\ m \in mail
    /\ mail' = mail \ {m}
    /\ IF m.to = "queued"
       THEN /\ \/ \E w \in queue :
                    /\ Request[w] = m.key
                    /\ CancelQueuedRequest(m.key)
                    /\ FinishTasks(queue \ queue', "cancelled")
               \/ /\ \A w \in queue : Request[w] # m.key
                  /\ UNCHANGED <<schedVars, task>>
            /\ UNCHANGED call
       ELSE Signal(m.to) /\ UNCHANGED <<schedVars, task>>
    /\ UNCHANGED <<asks, settling, sweeps, blamed, early, disruptions, stage, response, guard,
                   sessionVars, registryVars, serverVars>>

\* spawn_runtime_cancellation_relay: repeat while the request is still marked
\* and still points to the same call.  It gives up after eight tries: nothing
\* says that it sends at all.
RelaySends(w) ==
    /\ w \in relay
    /\ Request[w] \in asked
    /\ target[Request[w]] = w
    /\ Signal(w)
    /\ UNCHANGED <<stage, response, guard, schedVars, sessionVars, registryVars,
                   task, cancelVars, serverVars>>
-----------------------------------------------------------------------------
\* Sessions.

\* (Only by a client that has a call to make.)
OpenSession(s) ==
    /\ server = "serving"
    /\ \E w \in Workers : Owner[w] = s /\ stage[w] = "idle"
    /\ session[s] = "absent"
    /\ Cardinality({t \in Sessions : session[t] = "open"}) < MaxSessions
    /\ session' = [session EXCEPT ![s] = "open"]
    /\ UNCHANGED <<owned, schedVars, registryVars, task, callVars,
                   cancelVars, serverVars>>

\* close_and_remove, by the client or by the reaper.
CloseSession(s) ==
    /\ session[s] = "open"
    /\ session' = [session EXCEPT ![s] = "gone"]
    /\ owned' = [owned EXCEPT ![s] = {}]
    /\ settling' = settling \cup {s}
    /\ Disrupt(KeysOf(s))
    /\ UNCHANGED <<asks, mail, sweeps, early, schedVars, registryVars, task, callVars,
                   serverVars>>

\* settle_closed_session: the requests of the session that are active by then are
\* cancelled, and then the queue is swept.
SettleSession(s) ==
    /\ s \in settling
    /\ settling' = settling \ {s}
    /\ asks' = asks \cup (KeysOf(s) \cap ActiveKeys)
    /\ sweeps' = sweeps \cup {s}
    /\ UNCHANGED <<mail, blamed, early, disruptions, schedVars, sessionVars, registryVars, task,
                   callVars, serverVars>>

\* The reaper closes a session that owns no request and has been silent for
\* MCP_SESSION_TTL_MS; any session may have been silent for that long.
Reapable(s) == owned[s] = {}

Reap(s) ==
    /\ server = "serving"
    /\ Reapable(s)
    /\ CloseSession(s)

Sweep(s) ==
    /\ s \in sweeps
    /\ sweeps' = sweeps \ {s}
    /\ CancelQueuedBySession(s)
    /\ FinishTasks({w \in queue : Owner[w] = s}, "cancelled")
    /\ UNCHANGED <<asks, mail, settling, blamed, early, disruptions, sessionVars, registryVars,
                   callVars, serverVars>>

-----------------------------------------------------------------------------
\* Shutdown of the serve loop.

\* A shutdown (or a failed observation of the executions) sets the flag and ends the
\* loop; an error of accept only ends it.
Stop ==
    /\ server = "serving"
    /\ server' = "ended"
    /\ stopping' \in BOOLEAN
    /\ UNCHANGED <<rounds, schedVars, sessionVars, registryVars, task, callVars,
                   cancelVars>>

CloseScheduler ==
    /\ server = "ended"
    /\ server' = "closing"
    /\ Close
    /\ FinishTasks(queue, "cancelled")
    /\ UNCHANGED <<stopping, rounds, sessionVars, registryVars, callVars, cancelVars>>

\* One round cancels every active request; with none left the rounds are over.
RoundsLeft == rounds > 0

CancelRound ==
    /\ server = "closing"
    /\ RoundsLeft
    /\ rounds' = IF ActiveKeys = {} THEN 0 ELSE rounds - 1
    /\ asks' = asks \cup ActiveKeys
    /\ UNCHANGED <<server, stopping, mail, settling, sweeps, blamed, early, disruptions,
                   schedVars, sessionVars, registryVars, task, callVars>>

\* The workers are joined.  (Cancelling clients are workers as well.)
Join ==
    /\ server = "closing"
    /\ rounds = 0
    /\ asks = {} /\ mail = {} /\ settling = {} /\ sweeps = {}
    /\ \A w \in Workers : stage[w] \in {"idle", "done"}
    /\ server' = "joined"
    /\ UNCHANGED <<stopping, rounds, schedVars, sessionVars, registryVars, task, callVars,
                   cancelVars>>

-----------------------------------------------------------------------------
\* The steps a worker takes by itself once it has been accepted.
WorkerStep(w) ==
    \/ TakeLease(w) \/ RefuseUnauthorized(w) \/ QueueTask(w) \/ RegisterWork(w)
    \/ Admit(w) \/ LookAgain(w) \/ AdmissionSettled(w) \/ EnterLane(w) \/ Activate(w)
    \/ LockGuard(w) \/ DirectControl(w) \/ StartCall(w) \/ EndCall(w) \/ RecordOutcome(w)
    \/ FinishCall(w) \/ FsAuthorize(w) \/ FsLook(w) \/ FsActivate(w) \/ FsDuplicate(w)
    \/ FsFinish(w) \/ RemoveAgain(w) \/ DropGuard(w) \/ DropPermit(w) \/ DropLease(w)

ServerStep == CloseScheduler \/ CancelRound \/ Join

Next ==
    \/ \E w \in Workers :
         \/ Lookup(w) \/ WorkerStep(w) \/ Oversleep(w)
         \/ RelaySends(w)
         \/ \E s \in Sessions : CancelTask(s, w)
    \/ \E k \in Requests : CancelNotification(k) \/ AskNext(k)
    \/ \E m \in mail : Deliver(m)
    \/ \E s \in Sessions :
         OpenSession(s) \/ CloseSession(s) \/ Reap(s) \/ SettleSession(s) \/ Sweep(s)
    \/ Stop \/ ServerStep

Spec == Init /\ [][Next]_vars

\* What is left to do for the threads that cancel.
CancellerStep ==
    \/ \E k \in Requests : AskNext(k)
    \/ \E m \in mail : Deliver(m)
    \/ \E s \in Sessions : SettleSession(s) \/ Sweep(s)

\* Threads that can run do run, and a tool call ends.
FairSpec ==
    /\ Spec
    /\ \A w \in Workers : WF_vars(WorkerStep(w))
    /\ WF_vars(CancellerStep)
    /\ WF_vars(ServerStep)

-----------------------------------------------------------------------------
\* Properties.

Over(w) == stage[w] \in {"answered", "released", "done"}

\* What a response says of the task of the call.  A stopping server has cancelled the
\* call in the queue, or lost it later; a call whose id was taken did not begin.
Tells(r) ==
    CASE r = "stopping"  -> {"cancelled", "lost"}
      [] r = "duplicate" -> {"blocked", "lost"}
      [] OTHER           -> {r}

\* The task registry tells the same story as the response the client gets,
\* whoever finished the task: the worker, a canceller, a closing session or
\* the shutdown.
OutcomeAgrees ==
    \A w \in Workers : Over(w) /\ task[w] # "none" => task[w] \in Tells(response[w])

\* A task is cancelled only because its own request was cancelled, its own
\* session ended, or the server shut down: cancelling one request or closing
\* one session never ends the work of another.
CancelledOnDemand ==
    \A w \in Workers :
        task[w] = "cancelled" => Request[w] \in blamed \/ closed

\* What the task registry says of a call is true: it is what the client was
\* answered, and "cancelled" has a cause that concerns this very call.
OutcomesAreTrue == OutcomeAgrees /\ CancelledOnDemand

\* When the server has joined its workers nothing is left: no active request,
\* no live task, no permit, no guard, no queued ticket.
QuietAfterJoin ==
    server = "joined" =>
        /\ ActiveKeys = {}
        /\ \A w \in Workers : task[w] \notin LiveTask
        /\ work_running = 0
        /\ \A l \in ImmediateLanes : active[l] = 0
        /\ guard = "free"
        /\ queue = {}

\* Every accepted call comes to its end, cancelled or not, stopped or not.
EveryCallEnds == \A w \in Workers : stage[w] = "known" ~> stage[w] = "done"

\* A request that was cancelled before it was admitted is never reported as
\* completed, even when the cancellation came too early for the queue and was
\* lost on the way to the runtime.  (The filesystem handler does not normalise:
\* its operation may be over when it sees the token.)
EarlyCancelHonoured ==
    \A w \in early : Over(w) /\ Tool[w] = "runtime" => response[w] # "completed"
=============================================================================
