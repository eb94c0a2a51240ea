----------------------------- MODULE Executions -----------------------------
(***************************************************************************)
(* The execution registry (control_plane/execution_registry.rs) and every  *)
(* path that drives a detached command to its end: the facade, which works *)
(* under the facade lock (mcp/facade.rs), the control calls that run beside *)
(* it (control_plane/command_control.rs, task_control in mcp/server.rs),   *)
(* the observation loop, the stale-execution reaper, session close with    *)
(* orphaning and adoption, and the recovery of the registry from disk.     *)
(*                                                                         *)
(* An execution is one public command session.  A registry transaction is  *)
(* one step (the registry lock is held while the new state is persisted    *)
(* and then applied); the calls of one handler are separate steps, since   *)
(* each takes the lock anew.  A crash in the middle of a transaction leaves *)
(* the old file or the new one, as a crash just before or just after it.   *)
(***************************************************************************)
EXTENDS Naturals, FiniteSets

CONSTANTS
    Executions,     \* the commands that may be started
    Sessions,       \* MCP sessions
    Controllers,    \* connection threads running a control call beside the facade
    None,           \* no session, no execution
    TaskOf,         \* the task each command belongs to
    MaxActive,      \* MAX_ACTIVE_EXECUTIONS
    MaxTerminal,    \* MAX_TERMINAL_EXECUTIONS
    MaxToken,       \* bound: adoption credentials issued for one execution
    Scenarios       \* bounds: the commands and sessions of a behaviour, the number
                    \* of control calls, of crashes (of the application or the
                    \* runtime), and whether the "storage" may fail to write and
                    \* the runtime leave its "protocol"

ASSUME BoundsAssumption ==
    /\ MaxActive \in Nat \ {0} /\ MaxTerminal \in Nat \ {0}
    /\ MaxToken \in Nat \ {0}
    /\ Scenarios \subseteq [commands : SUBSET Executions, sessions : SUBSET Sessions,
                            calls : Nat, crashes : Nat, faults : SUBSET {"storage", "protocol"}]

\* The commands are finitely many, and None is no session.
ASSUME IdentityAssumption == IsFiniteSet(Executions) /\ None \notin Sessions

VARIABLES
    mem,        \* the records of the registry, by execution
    disk,       \* the registry file
    signals,    \* accepted cancellation intents (never persisted)
    fresh,      \* commands not started yet
    stale,      \* executions past the orphan TTL or the maximum age
    reaped,     \* marked lost by the reaper, their signals not removed yet
    session,    \* "new", "open", "closing" (its executions still to orphan),
                \* "gone", or "past": of an earlier run of the application
    proc,       \* the process behind a command, as the Python runtime holds it
    runtime,    \* "up" or "dead"
    up,         \* the application runs
    crashes,    \* crashes to come
    calls,      \* control calls to come
    faults,     \* what may fail
    thread      \* the call each thread is in

registryVars == <<mem, disk>>
clockVars == <<stale, reaped>>
worldVars == <<session, runtime, up, crashes, calls, faults>>

\* What clients were told and did, for the properties; no action reads them.
VARIABLES
    told,       \* the terminal outcome answered from the record, or recorded and
                \* then answered by a direct call, per execution
    said,       \* the terminal statuses the facade made of the runtime's answers
                \* and gave to clients: <<execution, status>>
    killed,     \* executions with a kill accepted at any time
    hit,        \* executions whose process lived when a kill was accepted that
                \* was not itself answered with an error and withdrawn
    spent,      \* credentials used by an adoption: <<execution, generation>>
    stranded    \* live executions whose owner went without orphaning them

historyVars == <<told, said, killed, hit, spent, stranded>>
vars == <<mem, disk, signals, fresh, clockVars, worldVars, proc, thread, historyVars>>

-----------------------------------------------------------------------------
\* Records.  "failed" is an exit with an error, by the command's own time limit
\* too; "errored" is TerminalOutcome::Failed recorded for a failed call.

Outcomes == {"completed", "failed", "errored", "cancelled", "lost"}
Public(o) == IF o = "errored" THEN "failed" ELSE o

Absent == [state |-> "absent", owner |-> None, token |-> 0, bound |-> FALSE,
           orphaned |-> FALSE, born |-> 0]

Live(r) == r.state = "running"
Terminal(r) == r.state \in Outcomes
Settled(r, outcome) == [r EXCEPT !.state = outcome, !.token = 0, !.bound = FALSE]
Lost(r) == [r EXCEPT !.state = "lost", !.token = 0]

Owned(m, s) == {e \in Executions : Live(m[e]) /\ m[e].owner = s}

-----------------------------------------------------------------------------
\* Transactions

\* The terminal records kept are the ones started last.
TrimState(m) ==
    LET Later(e) == {d \in Executions : Terminal(m[d]) /\ m[d].born >= m[e].born}
    IN  [e \in Executions |->
            IF Terminal(m[e]) /\ Cardinality(Later(e)) > MaxTerminal THEN Absent ELSE m[e]]

\* Persist, then apply.
Transact(m) == mem' = TrimState(m) /\ disk' = TrimState(m)

FaultyPersistFails(m) == "storage" \in faults /\ mem' = TrimState(m) /\ UNCHANGED disk

\* The write failed: the error returns before the new state is applied.
PersistFails(m) == "storage" \in faults /\ UNCHANGED registryVars

Signalled(e) == e \in signals /\ Live(mem[e])

-----------------------------------------------------------------------------
\* Threads.  The facade lock admits one facade call at a time, so the facade
\* is one thread; its calls are "exec" (execute_shell), "control"
\* (control_command) and "observe" (reap_command_sessions).

Threads == {"facade"} \cup Controllers

\* What a call will answer once its outcome is recorded (ans): a status, the
\* "record" as it then is, or "none": an error, or nobody asked.
Idle == [pc |-> "idle", mode |-> "none", exec |-> None, act |-> "none",
         obs |-> "none", out |-> "none", ans |-> "none"]

Call(mode, e, act) ==
    [pc |-> IF act = "kill" THEN "accepting" ELSE "calling",
     mode |-> mode, exec |-> e, act |-> act, obs |-> "none", out |-> "none", ans |-> "none"]

At(t, pc) == thread[t].pc = pc
Go(t, pc) == thread' = [thread EXCEPT ![t].pc = pc]
Settle(t, pc, outcome, answer) ==
    thread' = [thread EXCEPT ![t] = [Idle EXCEPT
        !.pc = pc, !.out = outcome, !.ans = answer,
        !.mode = thread[t].mode, !.exec = thread[t].exec]]
Return(t) == thread' = [thread EXCEPT ![t] = Idle]

\* The application stops: memory, threads and managed processes are gone.
Down ==
    /\ up' = FALSE
    /\ mem' = [e \in Executions |-> Absent]
    /\ signals' = {} /\ reaped' = {} /\ stale' = {}
    /\ session' = [s \in Sessions |-> IF session[s] = "new" THEN "new" ELSE "past"]
    /\ thread' = [t \in Threads |-> Idle]
    /\ proc' = [e \in Executions |-> "gone"]
    /\ UNCHANGED <<disk, fresh, runtime, calls, faults, historyVars>>

-----------------------------------------------------------------------------
Init ==
    /\ mem = [e \in Executions |-> Absent]
    /\ disk = mem
    /\ \E scenario \in Scenarios :
         /\ fresh = scenario.commands
         /\ session = [s \in Sessions |-> IF s \in scenario.sessions THEN "new" ELSE "past"]
         /\ calls = scenario.calls /\ crashes = scenario.crashes /\ faults = scenario.faults
    /\ signals = {}
    /\ stale = {} /\ reaped = {}
    /\ proc = [e \in Executions |-> "none"]
    /\ runtime = "up" /\ up = TRUE
    /\ thread = [t \in Threads |-> Idle]
    /\ told = [e \in Executions |-> "none"]
    /\ said = {} /\ killed = {} /\ hit = {} /\ spent = {} /\ stranded = {}

-----------------------------------------------------------------------------
\* Beginning a call

\* A call looks its session up when it is accepted; it may run after the
\* session has closed.
Calling(s) == session[s] \in {"open", "closing", "gone"}

\* start_owned
NewRecord(s) ==
    [state |-> "running", owner |-> s, token |-> 1, bound |-> FALSE, orphaned |-> FALSE,
     born |-> 1 + Cardinality({e \in Executions : e \notin fresh})]

\* execute_shell: the record is created, owned by the calling session, before
\* the runtime is asked to start the process.
StartSession(e, s) ==
    /\ up /\ At("facade", "idle") /\ e \in fresh /\ Calling(s)
    /\ Cardinality({d \in Executions : Live(mem[d])}) < MaxActive
    /\ Transact([mem EXCEPT ![e] = NewRecord(s)])
    /\ fresh' = fresh \ {e}
    /\ thread' = [thread EXCEPT !["facade"] = Call("exec", e, "exec")]
    /\ stranded' = IF session[s] = "gone" THEN stranded \cup {e} ELSE stranded
    /\ UNCHANGED <<signals, clockVars, worldVars, proc, told, said, killed, hit, spent>>

\* Only the owner controls a command.
MayControl(e) == mem[e].owner # None /\ Calling(mem[e].owner)
Controllable(e) == Live(mem[e]) /\ mem[e].bound
CountCall == calls > 0 /\ calls' = calls - 1

Begin(t, mode, e, act) ==
    /\ up /\ At(t, "idle") /\ MayControl(e) /\ Controllable(e) /\ CountCall
    /\ thread' = [thread EXCEPT ![t] = Call(mode, e, act)]
    /\ UNCHANGED <<registryVars, signals, fresh, clockVars, session, runtime, up, crashes,
                   faults, proc, historyVars>>

\* The first part of control_command, of control_command_during_work and of
\* task_control.  (A record that is not live, or not bound to a session of the
\* runtime, is answered from the record or refused, and nothing changes.)
BeginFacadeControl(e, act) == Begin("facade", "control", e, act)
BeginDirectControl(t, e, act) == Begin(t, "direct", e, act)
BeginTaskCancel(t, e) == Begin(t, "task", e, "kill")

\* control_command_during_work and, under its lock, the facade: a terminal
\* record answers a poll at once.
PollEnded(t, e) ==
    /\ up /\ At(t, "idle") /\ MayControl(e) /\ Terminal(mem[e]) /\ CountCall
    /\ told' = [told EXCEPT ![e] = Public(mem[e].state)]
    /\ UNCHANGED <<registryVars, signals, fresh, clockVars, session, runtime, up, crashes,
                   faults, proc, thread, said, killed, hit, spent, stranded>>

\* The observation loop polls every running execution with a handle.
BeginObserve(e) ==
    /\ up /\ runtime = "up" /\ At("facade", "idle") /\ Live(mem[e]) /\ mem[e].bound
    /\ thread' = [thread EXCEPT !["facade"] = Call("observe", e, "poll")]
    /\ UNCHANGED <<registryVars, signals, fresh, clockVars, worldVars, proc, historyVars>>

\* The runtime root is gone: mark_all_running_lost.
ObserveRuntimeGone(e) ==
    /\ up /\ runtime = "dead" /\ At("facade", "idle") /\ Live(mem[e])
    /\ thread' = [thread EXCEPT !["facade"] =
           [Call("observe", e, "poll") EXCEPT !.pc = "marking", !.out = "lost"]]
    /\ UNCHANGED <<registryVars, signals, fresh, clockVars, worldVars, proc, historyVars>>

FaultyCancellable(e) == mem[e].state # "absent"

Cancellable(e) == Live(mem[e])

\* request_cancellation: a kill is accepted only while the record is live.
RequestCancellation(t) ==
    LET e == thread[t].exec IN
    /\ At(t, "accepting")
    /\ \/ /\ Cancellable(e)
          /\ signals' = signals \cup {e}
          /\ killed' = killed \cup {e}
          /\ hit' = IF proc[e] \in {"running", "dying"} THEN hit \cup {e} ELSE hit
          /\ Go(t, "calling")
       \/ /\ ~Cancellable(e) /\ Return(t)
          /\ UNCHANGED <<signals, killed, hit>>
    /\ UNCHANGED <<registryVars, fresh, clockVars, worldVars, proc, told, said, spent, stranded>>

-----------------------------------------------------------------------------
\* The runtime's answers, as <<observation, process afterwards>>.  A process
\* killed within the wait is evicted; one that is not is kept as "dying".

ExitStatus(p) == IF p = "exit_ok" THEN "completed" ELSE "failed"

Answers(act, p) ==
    CASE act = "exec" -> {<<"running", "running">>, <<"completed", "exit_ok">>,
                          <<"failed", "exit_bad">>, <<"refused", "gone">>}
      [] act # "exec" /\ p \in {"none", "gone"} -> {<<"unavailable", p>>}
      [] act = "poll" /\ p \in {"running", "dying"} -> {<<"running", p>>}
      [] act = "poll" /\ p \in {"exit_ok", "exit_bad"} -> {<<ExitStatus(p), p>>}
      [] act = "write" /\ p \in {"running", "dying"} -> {<<"running", p>>, <<"unavailable", p>>}
      [] act = "write" /\ p \in {"exit_ok", "exit_bad"} -> {<<"unavailable", p>>}
      [] act = "kill" /\ p \in {"running", "dying"} -> {<<"cancelled", "gone">>, <<"running", "dying">>}
      [] act = "kill" /\ p \in {"exit_ok", "exit_bad"} -> {<<ExitStatus(p), "gone">>}

\* A call that times out may still have taken effect.
Replies(act, p) ==
    Answers(act, p) \cup {<<"timeout", a[2]>> : a \in Answers(act, p)}
    \cup {<<obs, p>> : obs \in IF "protocol" \in faults THEN {"invalid", "upstream"} ELSE {}}

RuntimeAnswers(t) ==
    LET e == thread[t].exec IN
    /\ At(t, "calling")
    /\ \E a \in IF runtime = "up" THEN Replies(thread[t].act, proc[e])
                ELSE {<<"broken", proc[e]>>} :
          /\ proc' = [proc EXCEPT ![e] = a[2]]
          /\ thread' = [thread EXCEPT ![t].obs = a[1], ![t].pc =
                 IF thread[t].mode = "exec" /\ a[1] \in {"running", "completed", "failed"}
                 THEN "binding" ELSE "observed"]
    /\ UNCHANGED <<registryVars, signals, fresh, clockVars, worldVars, historyVars>>

\* bind_private_session, of execute_shell only: its error, RuntimeUnavailable,
\* ends the record as lost.
BindRuntimeHandle(t) ==
    LET e == thread[t].exec
        m == [mem EXCEPT ![e].bound = TRUE] IN
    /\ At(t, "binding")
    /\ \/ mem[e].state # "absent" /\ Transact(m) /\ Go(t, "observed")
       \/ mem[e].state # "absent" /\ PersistFails(m) /\ Settle(t, "marking", "lost", "none")
       \/ mem[e].state = "absent" /\ UNCHANGED registryVars /\ Settle(t, "marking", "lost", "none")
    /\ UNCHANGED <<signals, fresh, clockVars, worldVars, proc, historyVars>>

-----------------------------------------------------------------------------
\* What a call does with the answer

ExitSeen == {"completed", "failed", "cancelled"}

\* normalize_runtime_error, and normalize_private_error for the first and last
ErrorCode(obs) ==
    CASE obs \in {"unavailable", "broken"} -> "SessionUnavailable"
      [] obs = "invalid" -> "RuntimeProtocolMismatch"
      [] obs = "timeout" -> "OperationTimedOut"
      [] obs = "upstream" -> "Internal"
      [] obs = "refused" -> "Denied"

\* execution_terminal_from_result, on an error
ErrorOutcome(code) ==
    IF code \in {"SessionUnavailable", "RuntimeProtocolMismatch"} THEN "lost" ELSE "errored"

\* An accepted intent, not the exit the adapter saw, names the outcome.
ObservedOutcome(e, obs) == IF Signalled(e) THEN "cancelled" ELSE obs

\* control_command_during_work
SettleDirect(t, e, obs) ==
    \/ obs \in ExitSeen /\ Settle(t, "finishing", ObservedOutcome(e, obs), ObservedOutcome(e, obs))
    \/ obs = "unavailable" /\ Signalled(e) /\ Settle(t, "finishing", "cancelled", "record")
    \/ obs = "unavailable" /\ ~Signalled(e) /\ Return(t)
    \/ obs \in {"invalid", "upstream"} /\ Go(t, "withdrawing")
    \/ obs \in {"running", "timeout", "broken"} /\ Return(t)

\* task_control cancel settles only a process it killed
\* (runtime_cancellation_terminal).
TaskTerminal(obs) == obs = "cancelled"

SettleTask(t, obs) ==
    \/ TaskTerminal(obs) /\ Settle(t, "finishing", "cancelled", "none")
    \/ ~TaskTerminal(obs) /\ Return(t)

\* control_command: an error that leaves the command's end unknown confirms an
\* accepted intent; any other than a timeout ends the record.
SettleControl(t, e, obs, act) ==
    LET code == ErrorCode(obs)
        confirmed == code = "SessionUnavailable" /\ Signalled(e)
    IN  \/ confirmed /\ Settle(t, "marking", "cancelled", "record")
        \/ ~confirmed /\ code = "OperationTimedOut" /\ Return(t)
        \/ /\ ~confirmed /\ code # "OperationTimedOut"
           /\ Settle(t, IF act = "kill" THEN "withdrawing" ELSE "marking", ErrorOutcome(code), "none")

\* normalize_command_result: an accepted intent names the status, but not that of
\* a command that ran out of its own time, which is one of the "failed".
Statuses(e, obs) == {ObservedOutcome(e, obs)} \cup (IF obs = "failed" THEN {obs} ELSE {})

\* normalize_command_result, whose status is fixed before it is recorded, and the
\* error paths of the facade's calls: reap_command_sessions and execute_shell end
\* the record on any error.
SettleFacade(t, e, obs, mode, act) ==
    \/ obs = "running" /\ Return(t)
    \/ obs \in ExitSeen /\ \E status \in Statuses(e, obs) :
         Settle(t, "marking", status, IF mode = "observe" THEN "none" ELSE status)
    \/ obs \notin ExitSeen \cup {"running"} /\ mode = "control" /\ SettleControl(t, e, obs, act)
    \/ /\ obs \notin ExitSeen \cup {"running"} /\ mode # "control"
       /\ Settle(t, "marking", ErrorOutcome(ErrorCode(obs)), "none")

SettleAnswer(t) ==
    LET c == thread[t] IN
    /\ At(t, "observed")
    /\ CASE c.mode = "direct" -> SettleDirect(t, c.exec, c.obs)
         [] c.mode = "task" -> SettleTask(t, c.obs)
         [] OTHER -> SettleFacade(t, c.exec, c.obs, c.mode, c.act)
    /\ UNCHANGED <<registryVars, signals, fresh, clockVars, worldVars, proc, historyVars>>

\* clear_cancellation: whoever asked for it, the intent is withdrawn.
ClearCancellation(t) ==
    /\ At(t, "withdrawing")
    /\ signals' = IF mem[thread[t].exec].state = "absent" THEN signals
                  ELSE signals \ {thread[t].exec}
    /\ IF thread[t].mode = "direct" THEN Return(t) ELSE Go(t, "marking")
    /\ hit' = IF thread[t].mode = "direct" /\ thread[t].act # "kill" THEN hit
              ELSE hit \ {thread[t].exec}
    /\ UNCHANGED <<registryVars, fresh, clockVars, worldVars, proc, told, said, killed,
                   spent, stranded>>

\* mark_terminal reads the intent once more before it finishes.
MarkTerminal(t) ==
    /\ At(t, "marking")
    /\ Settle(t, "finishing", ObservedOutcome(thread[t].exec, thread[t].out), thread[t].ans)
    /\ UNCHANGED <<registryVars, signals, fresh, clockVars, worldVars, proc, historyVars>>

-----------------------------------------------------------------------------
\* ExecutionRegistry::finish

\* The first terminal outcome stays.
Finished(r, outcome) == IF Live(r) THEN Settled(r, outcome) ELSE r

\* finish fails: execute_shell, if it had a result to give, ends the record as
\* lost (once); any other call answers an error.
FinishFails(t) ==
    IF thread[t].mode = "exec" /\ thread[t].ans # "none"
    THEN Settle(t, "marking", "lost", "none") ELSE Return(t)

\* A different outcome is there: mark_terminal takes no notice, nor does a direct
\* call that reads the record back; a direct call with an outcome answers an error.
AlreadyTerminal(t) ==
    IF thread[t].ans = "none" \/ (thread[t].mode = "direct" /\ thread[t].ans # "record")
    THEN Return(t) ELSE Go(t, "replying")

Finish(t) ==
    LET e == thread[t].exec
        r == mem[e]
        m == [mem EXCEPT ![e] = Finished(r, thread[t].out)]
    IN
    /\ At(t, "finishing") /\ up
    /\ \/ /\ Live(r) \/ (Terminal(r) /\ Public(r.state) = Public(thread[t].out))
          /\ \/ Transact(m) /\ Go(t, "dropping")
             \/ PersistFails(m) /\ thread[t].mode # "observe" /\ FinishFails(t)
       \/ /\ Terminal(r) /\ Public(r.state) # Public(thread[t].out)
          /\ AlreadyTerminal(t) /\ UNCHANGED registryVars
       \/ /\ r.state = "absent" /\ thread[t].mode # "observe"
          /\ FinishFails(t) /\ UNCHANGED registryVars
    /\ UNCHANGED <<signals, fresh, clockVars, worldVars, proc, historyVars>>

\* An observation the registry refuses ends the serving loop: that of an end, or
\* the time of the observation, written last (observe_all_running).
ObserverFails ==
    LET c == thread["facade"] IN
    /\ up
    /\ \/ /\ c.pc = "finishing" /\ c.mode = "observe"
          /\ mem[c.exec].state = "absent" \/ "storage" \in faults
       \/ c.pc = "idle" /\ runtime = "up" /\ "storage" \in faults
    /\ Down /\ UNCHANGED crashes

\* The signal is removed under a second lock, then the call answers.
DropSignal(t) ==
    /\ At(t, "dropping")
    /\ signals' = signals \ {thread[t].exec}
    /\ IF thread[t].ans = "none" THEN Return(t) ELSE Go(t, "replying")
    /\ UNCHANGED <<registryVars, fresh, clockVars, worldVars, proc, historyVars>>

\* A call answers the record, which may have been trimmed; a direct call the
\* outcome it recorded; the facade the status it fixed before.  After a kill, the
\* facade's workflow checkpoint may fail to be written, and it answers an error.
Answer(t) ==
    LET e == thread[t].exec
        answer == thread[t].ans
        o == IF answer = "record" THEN mem[e].state ELSE answer
        fromRecord == answer = "record" \/ thread[t].mode = "direct"
    IN
    /\ At(t, "replying") /\ Return(t)
    /\ \/ /\ fromRecord
          /\ told' = IF o \in Outcomes THEN [told EXCEPT ![e] = Public(o)] ELSE told
          /\ UNCHANGED said
       \/ ~fromRecord /\ said' = said \cup {<<e, answer>>} /\ UNCHANGED told
       \/ ~fromRecord /\ "storage" \in faults /\ UNCHANGED <<told, said>>
    /\ UNCHANGED <<registryVars, signals, fresh, clockVars, worldVars, proc, killed, hit, spent,
                   stranded>>

-----------------------------------------------------------------------------
\* Sessions, orphans and adoption

OpenSession(s) ==
    /\ up /\ session[s] = "new"
    /\ session' = [session EXCEPT ![s] = "open"]
    /\ UNCHANGED <<registryVars, signals, fresh, clockVars, runtime, up, crashes, calls, faults,
                   proc, thread, historyVars>>

CloseSession(s) ==
    /\ up /\ session[s] = "open"
    /\ session' = [session EXCEPT ![s] = "closing"]
    /\ UNCHANGED <<registryVars, signals, fresh, clockVars, runtime, up, crashes, calls, faults,
                   proc, thread, historyVars>>

FaultyOrphan(r) == [r EXCEPT !.owner = None]

Orphan(r) == [r EXCEPT !.owner = None, !.orphaned = TRUE]

\* settle_closed_session ignores an error of orphan_owned_by.
OrphanOwnedBy(s) ==
    LET m == [e \in Executions |-> IF e \in Owned(mem, s) THEN Orphan(mem[e]) ELSE mem[e]] IN
    /\ up /\ session[s] = "closing"
    /\ session' = [session EXCEPT ![s] = "gone"]
    /\ \/ Transact(m) /\ UNCHANGED stranded
       \/ PersistFails(m) /\ stranded' = stranded \cup Owned(mem, s)
    /\ UNCHANGED <<signals, fresh, clockVars, runtime, up, crashes, calls, faults, proc, thread,
                   told, said, killed, hit, spent>>

\* Every adoption replaces the credential.
Rotated(r) == r.token + 1

\* An expiry of the orphan TTL lapses with the orphan state; one of the
\* maximum age does not.
Refresh(es) == stale' \in {stale, stale \ {e \in es : mem[e].orphaned}}

\* adopt_owner, by a client that presents credential number k.
AdoptOwner(s, e, k) ==
    /\ up /\ Calling(s) /\ Live(mem[e]) /\ mem[e].owner = None /\ mem[e].orphaned
    /\ mem[e].token = k /\ k < MaxToken
    /\ Transact([mem EXCEPT ![e].owner = s, ![e].token = Rotated(mem[e]), ![e].orphaned = FALSE])
    /\ spent' = spent \cup {<<e, k>>}
    /\ stranded' = IF session[s] = "gone" THEN stranded \cup {e} ELSE stranded
    /\ Refresh({e})
    /\ UNCHANGED <<signals, fresh, reaped, worldVars, proc, thread, told, said, killed, hit>>

\* transfer_orphaned_workflow_executions, under the facade lock.
TransferTask(s, k) ==
    LET of == {e \in Executions : TaskOf[e] = k /\ mem[e].state # "absent"} IN
    /\ up /\ Calling(s) /\ At("facade", "idle") /\ of # {}
    /\ \A e \in of : \/ Terminal(mem[e]) \/ mem[e].owner = s
                     \/ mem[e].owner = None /\ mem[e].orphaned
    /\ Transact([e \in Executions |->
           IF e \in of THEN [mem[e] EXCEPT !.owner = s, !.orphaned = FALSE] ELSE mem[e]])
    /\ stranded' = IF session[s] = "gone" THEN stranded \cup of ELSE stranded
    /\ Refresh(of)
    /\ UNCHANGED <<signals, fresh, reaped, worldVars, proc, thread, told, said, killed, hit, spent>>

-----------------------------------------------------------------------------
\* Time, the reaper, the process, crashes

\* The orphan TTL or the maximum age passes.
Expire(e) ==
    /\ up /\ Live(mem[e]) /\ e \notin stale
    /\ stale' = stale \cup {e}
    /\ UNCHANGED <<registryVars, signals, fresh, reaped, worldVars, proc, thread, historyVars>>

FaultyOverdue(e) == e \in stale /\ Live(mem[e]) /\ mem[e].orphaned

Overdue(e) == e \in stale /\ Live(mem[e])

\* The accept loop marks every stale execution lost; a failed write is retried
\* on the next round.
ReapStale ==
    LET lost == {e \in Executions : Overdue(e)} IN
    /\ up /\ lost # {} /\ reaped = {}
    /\ Transact([e \in Executions |-> IF e \in lost THEN Lost(mem[e]) ELSE mem[e]])
    /\ stale' = {} /\ reaped' = lost
    /\ UNCHANGED <<signals, fresh, worldVars, proc, thread, historyVars>>

ReapSignals ==
    /\ reaped # {}
    /\ signals' = signals \ reaped /\ reaped' = {}
    /\ UNCHANGED <<registryVars, fresh, stale, worldVars, proc, thread, historyVars>>

\* A killed process that outlived the wait ends with an error code.
ProcessExits(e) ==
    /\ \/ proc[e] = "running" /\ \E p \in {"exit_ok", "exit_bad"} : proc' = [proc EXCEPT ![e] = p]
       \/ proc[e] = "dying" /\ proc' = [proc EXCEPT ![e] = "exit_bad"]
    /\ UNCHANGED <<registryVars, signals, fresh, clockVars, worldVars, thread, historyVars>>

RuntimeDies ==
    /\ up /\ runtime = "up" /\ crashes > 0
    /\ runtime' = "dead" /\ crashes' = crashes - 1
    /\ proc' = [e \in Executions |-> "gone"]
    /\ UNCHANGED <<registryVars, signals, fresh, clockVars, session, up, calls, faults, thread,
                   historyVars>>

Crash ==
    /\ up /\ crashes > 0
    /\ crashes' = crashes - 1
    /\ Down

\* open_at: whatever was running when the process ended is lost.
Recovered(m) == [e \in Executions |-> IF Live(m[e]) THEN Lost(m[e]) ELSE m[e]]

Restart ==
    /\ ~up /\ up' = TRUE
    /\ Transact(Recovered(disk))
    /\ runtime' = "up"
    /\ UNCHANGED <<signals, fresh, clockVars, session, crashes, calls, faults, proc, thread,
                   historyVars>>

-----------------------------------------------------------------------------
Step(t) ==
    \/ RequestCancellation(t) \/ RuntimeAnswers(t) \/ BindRuntimeHandle(t)
    \/ SettleAnswer(t) \/ ClearCancellation(t) \/ MarkTerminal(t)
    \/ Finish(t) \/ DropSignal(t) \/ Answer(t)

Control ==
    \E e \in Executions :
        \/ \E act \in {"poll", "write", "kill"} :
             \/ BeginFacadeControl(e, act)
             \/ \E t \in Controllers : BeginDirectControl(t, e, act)
        \/ \E t \in Controllers : BeginTaskCancel(t, e)
        \/ \E t \in Threads : PollEnded(t, e)

Next ==
    \/ \E e \in Executions, s \in Sessions : StartSession(e, s)
    \/ Control
    \/ \E e \in Executions : BeginObserve(e) \/ ObserveRuntimeGone(e)
    \/ \E t \in Threads : Step(t)
    \/ ObserverFails
    \/ \E s \in Sessions : OpenSession(s) \/ CloseSession(s) \/ OrphanOwnedBy(s)
    \/ \E s \in Sessions, e \in Executions, k \in 1..MaxToken : AdoptOwner(s, e, k)
    \/ \E s \in Sessions, e \in Executions : TransferTask(s, TaskOf[e])
    \/ \E e \in Executions : Expire(e) \/ ProcessExits(e)
    \/ ReapStale \/ ReapSignals
    \/ RuntimeDies \/ Crash \/ Restart

Spec == Init /\ [][Next]_vars

\* The accept loop runs every 25 ms, time passes, and the application is
\* started again.
FairSpec ==
    /\ Spec
    /\ \A e \in Executions : WF_vars(Expire(e))
    /\ WF_vars(ReapStale) /\ WF_vars(ReapSignals) /\ WF_vars(Restart)

-----------------------------------------------------------------------------
\* Properties

\* A terminal outcome answered from the record, or recorded by a direct control
\* call and then answered, is the one in the registry file and stays it: no other
\* path, failed write or restart replaces it.  The status the facade answers is
\* fixed before it is recorded, and another outcome may be recorded in between:
\* but only if the reaper gave the command up as lost, or a kill was accepted, and
\* then one of the two is "cancelled".
AnswersAreDurable ==
    \A e \in Executions : disk[e].state # "absent" =>
        LET recorded == Public(disk[e].state) IN
        /\ told[e] \in {"none", recorded}
        /\ \A status \in {"completed", "failed", "cancelled"} : <<e, status>> \in said =>
             \/ recorded \in {status, "lost"}
             \/ e \in killed /\ "cancelled" \in {status, recorded}

\* A kill accepted while the process lives decides the outcome: the exit it
\* causes is never recorded as the command's own completion or failure.  (An
\* answer outside the runtime's protocol, met by any call, withdraws the kill.)
KillDecides ==
    "protocol" \notin faults => \A e \in hit : mem[e].state \notin {"completed", "failed"}

\* The credential an adoption was made with is not the valid one again, in
\* memory or on disk: of several adopters presenting it one succeeds.
CredentialsAreOneTime ==
    \A e \in Executions : <<e, mem[e].token>> \notin spent /\ <<e, disk[e].token>> \notin spent

\* A running command belongs to a session that has not finished closing or can
\* be adopted, unless the call that gave it an owner outlived that session or
\* the orphaning write failed.
OwnedOrAdoptable ==
    \A e \in Executions : Live(mem[e]) /\ e \notin stranded =>
        IF mem[e].owner = None THEN mem[e].orphaned ELSE session[mem[e].owner] # "gone"

\* Every running command has exactly one party that may act for it: the session
\* that owns it or the next one to present an unspent credential (adopt_owner,
\* orphan_owned_by).
OwnershipHolds == CredentialsAreOneTime /\ OwnedOrAdoptable

\* A cancellation intent outlives its execution only until the thread that
\* ended it removes it.
NoIntentLeaks ==
    signals \subseteq {e \in Executions : Live(mem[e])} \cup reaped
                     \cup {thread[t].exec : t \in {u \in Threads : At(u, "dropping")}}

\* An accepted kill is honoured and forgotten: it names the outcome, and its
\* intent goes with the execution (ExecutionRegistry::request_cancellation, finish).
IntentsAreHonoured == KillDecides /\ NoIntentLeaks

\* Every execution ends: at the latest the reaper or the recovery loses it.
Converges == \A e \in Executions : Live(disk[e]) ~> ~Live(disk[e])
=============================================================================
