------------------------------ MODULE Workflow ------------------------------
(***************************************************************************)
(* The durable workflow of a workspace: the coding task in its phases      *)
(* prepare, edit, verify and persist, the plain workflow (directories,     *)
(* patch, commands) and their resumption (mcp/facade.rs), over the one     *)
(* checkpoint file they share (control_plane/workflow_checkpoint.rs).      *)
(*                                                                         *)
(* Facade calls hold the facade lock, so there is one at a time.  A        *)
(* task_control cancellation and a direct kill (mcp/server.rs) do not take *)
(* it: they load, change and save the same file beside the facade.  Every  *)
(* read of the file, every write of the temporary file, every rename and   *)
(* every effect on the workspace is a step of its own.                     *)
(***************************************************************************)
EXTENDS Naturals, Sequences, FiniteSets

CONSTANTS
    MaxTasks,     \* bound: workflows begun in a behaviour
    MaxSessions,  \* bound: MCP sessions opened in a behaviour
    None,         \* no workflow, no checkpoint
    Dirs, Cmds,   \* directory changes and commands of a plain workflow
    MaxExecs,     \* bound: commands started in a behaviour
    Scenarios     \* bounds: the kinds and number of workflows, the lengths a
                  \* discovered verification plan may have, the sessions, facade
                  \* calls, side calls, crashes, storage faults, new git heads and
                  \* idle days

ASSUME WorkflowAssumption ==
    /\ MaxTasks \in Nat /\ MaxSessions \in Nat /\ Dirs \in Nat /\ Cmds \in Nat /\ MaxExecs \in Nat
    /\ Scenarios \subseteq
         [kinds : SUBSET {"coding", "plain"}, plans : SUBSET (0..2), tasks : 0..MaxTasks,
          sessions : 0..MaxSessions, calls : Nat, controls : Nat, crashes : Nat, faults : Nat,
          heads : Nat, days : Nat]

VARIABLES
    disk,       \* the checkpoint file: None or a checkpoint
    tmp,        \* the temporary file every save of this workspace shares
    aged,       \* the file is WORKFLOW_STALE_AFTER_MS old
    exec,       \* the registry's commands, in the order they were started
    call,       \* what the facade and the side thread are doing
    up,         \* the server runs
    opened,     \* sessions opened so far
    gone,       \* sessions that are over
    born,       \* task ids given to a workflow so far
    head,       \* the commit the project's repository is at
    left        \* what the scenario still allows

\* What really happened, for the properties; no action reads these.
VARIABLES
    done,       \* steps <<workflow, kind, index>> that took full effect
    replayed,   \* steps started again after that
    unheard,    \* verification commands whose execute_shell answered an error
    cancelled,  \* workflows a client was told are cancelled
    raced       \* two saves overlapped: one replaced a checkpoint its writer had not
                \* seen, or committed what the other had put into the shared file

history == <<done, replayed, unheard, cancelled, raced>>
vars == <<disk, tmp, aged, exec, call, up, opened, gone, born, head, left, history>>

Workflows == 1..MaxTasks
Sessions == 1..MaxSessions
Live == (1..opened) \ gone
Threads == {"facade", "side"}
Ended == {"completed", "failed", "cancelled", "lost"}
Phases == {"edit", "verify", "persist"}
NoExec == 0

-----------------------------------------------------------------------------
\* Checkpoints.

New(w, s) ==
    [id |-> w, coding |-> FALSE, owner |-> s, cmds |-> Cmds, step |-> "new", next |-> "none",
     failed |-> FALSE, completed |-> FALSE, dirs |-> 0, patched |-> FALSE,
     index |-> 0, results |-> <<>>, inflight |-> "none", session |-> NoExec, head |-> 0]

NewCoding(w, s, plan) ==
    [New(w, s) EXCEPT !.coding = TRUE, !.cmds = plan, !.step = "prepare", !.next = "edit",
                      !.head = head]

Terminal(c, step) ==
    [c EXCEPT !.completed = TRUE, !.step = step, !.next = "none", !.failed = TRUE,
              !.inflight = "none", !.session = NoExec]

CancelOwned(c) == Terminal(c, "cancelled")

Stale(c) == Terminal(c, "stale")

\* WorkflowCheckpoint::settle_command_kill
SettleKill(c) ==
    [c EXCEPT !.session = NoExec, !.inflight = "none",
              !.next = IF @ # "none" THEN @ ELSE IF c.coding THEN "verify" ELSE "resume"]

\* ensure_checkpoint_slot_available
SlotFree(c) == IF c = None THEN TRUE ELSE c.completed

\* durable_workflow_current_snapshot: the state the status projection shows of a
\* workflow that is not completed.
Snapshot(c) == IF c.session # NoExec \/ c.inflight # "none" THEN "running" ELSE "waiting"

-----------------------------------------------------------------------------
\* Calls.  A save is the places "write" and "commit"; "then" is where it returns.

\* "late" (history): the tasks that had been cancelled when the call began.
Idle == [op |-> "idle", at |-> "idle", who |-> None, w |-> None, token |-> FALSE,
         x |-> NoExec, cp |-> None, seen |-> None, then |-> "idle", cut |-> FALSE,
         late |-> {}]

Call(op, s, w, token, x) ==
    [Idle EXCEPT !.op = op, !.at = "load", !.who = s, !.w = w, !.token = token, !.x = x,
                 !.late = cancelled]

At(t, p) == up /\ call[t].at = p
Is(t, op, p) == At(t, p) /\ call[t].op = op
Step(t, c) == call' = [call EXCEPT ![t] = c]
Goto(t, p) == Step(t, [call[t] EXCEPT !.at = p])
Save(t, c, p) == Step(t, [call[t] EXCEPT !.at = "write", !.cp = c, !.then = p])
End(t) == Step(t, Idle)
Spend(what) == left[what] > 0 /\ left' = [left EXCEPT ![what] = @ - 1]

Command(x) == <<exec[x].of, "command", exec[x].index>>
Starts(step) == replayed' = IF step \in done THEN replayed \cup {step} ELSE replayed

\* The server goes down, by a crash or by itself: its threads and sessions are
\* gone, the commands end with the runtime and are recovered as lost.
Stop ==
    /\ up' = FALSE
    /\ call' = [t \in Threads |-> Idle]
    /\ gone' = 1..opened
    /\ exec' = [x \in DOMAIN exec |->
                  IF exec[x].state \in Ended THEN exec[x] ELSE [exec[x] EXCEPT !.state = "lost"]]

\* A failed load or save: the call answers an error, except that task_control
\* goes on to the running commands, and that the accept loop stops the server
\* when reap_command_sessions fails.
Fails(t) ==
    CASE call[t].op = "cancel" -> Goto(t, "killing") /\ UNCHANGED <<up, exec, gone>>
      [] call[t].op = "settle" -> Goto(t, "cutting") /\ UNCHANGED <<up, exec, gone>>
      [] call[t].op = "reconcile" -> Stop
      [] OTHER -> End(t) /\ UNCHANGED <<up, exec, gone>>

-----------------------------------------------------------------------------
\* The store.

Load(t) ==
    /\ At(t, "load")
    /\ LET stale == IF disk = None THEN FALSE ELSE aged /\ ~disk.completed
       IN  Step(t, [call[t] EXCEPT
                       !.seen = disk,
                       !.cp = IF stale THEN Stale(disk) ELSE disk,
                       !.at = IF stale THEN "write" ELSE "loaded",
                       !.then = "loaded"])
    /\ UNCHANGED <<disk, tmp, aged, exec, up, opened, gone, born, head, left, history>>

Write(t) ==
    /\ At(t, "write")
    /\ tmp' = call[t].cp
    /\ Goto(t, "commit")
    /\ UNCHANGED <<disk, aged, exec, up, opened, gone, born, head, left, history>>

\* The rename.  Another thread's rename may have taken the temporary file away,
\* or another thread's write may have replaced what is in it.
Commit(t) ==
    /\ At(t, "commit")
    /\ IF tmp = None
       THEN Fails(t) /\ UNCHANGED <<disk, tmp, aged, cancelled, raced>>
       ELSE /\ disk' = tmp /\ tmp' = None /\ aged' = FALSE
            /\ IF call[t].then = "end" THEN End(t)
               ELSE Step(t, [call[t] EXCEPT !.at = call[t].then, !.seen = tmp])
            /\ raced' = (raced \/ disk # call[t].seen \/ tmp # call[t].cp)
            /\ cancelled' = IF call[t].op = "cancel" /\ call[t].then = "killing"
                            THEN cancelled \cup {call[t].w} ELSE cancelled
            /\ UNCHANGED <<up, exec, gone>>
    /\ UNCHANGED <<opened, born, head, left, done, replayed, unheard>>

StorageFails(t) ==
    /\ \/ At(t, "load") \/ At(t, "write") \/ At(t, "clear")
    /\ Spend("faults")
    /\ Fails(t)
    /\ UNCHANGED <<disk, tmp, aged, opened, born, head, history>>

\* WorkflowCheckpointStore::clear
Clear(t) ==
    /\ At(t, "clear")
    /\ disk' = None /\ aged' = FALSE
    /\ raced' = (raced \/ disk # call[t].seen)
    /\ End(t)
    /\ UNCHANGED <<tmp, exec, up, opened, gone, born, head, left, done, replayed, unheard,
                   cancelled>>

-----------------------------------------------------------------------------
\* Facade calls.

Begin(c) ==
    /\ up /\ call["facade"] = Idle /\ Spend("calls")
    /\ Step("facade", c)
    /\ UNCHANGED <<disk, tmp, aged, exec, up, opened, gone, head, history>>

BeginWorkflow(s, kind) ==
    /\ s \in Live /\ kind \in left.kinds /\ born < left.tasks
    /\ born' = born + 1
    /\ Begin(Call(kind, s, born + 1, FALSE, NoExec))

\* The owner needs no token.
NeedsToken(s) == IF disk = None THEN FALSE ELSE disk.owner # s

BeginPhase(s, phase, w, token) ==
    /\ s \in Live /\ (token => NeedsToken(s)) /\ w \in 1..born /\ UNCHANGED born
    /\ Begin(Call(phase, s, w, token, NoExec))

\* Without a task id a resume takes whatever workflow there is.
BeginResume(s, w, token) ==
    /\ s \in Live /\ (token => NeedsToken(s)) /\ w \in (1..born) \cup {None} /\ UNCHANGED born
    /\ Begin(Call("resume", s, w, token, NoExec))

\* command_control kill under the facade lock; settling follows unless the
\* command is still running when the call returns.
BeginKill(s, x) ==
    /\ s \in Live /\ exec[x].state = "running" /\ exec[x].owner = s
    /\ up /\ call["facade"] = Idle /\ Spend("calls")
    /\ exec' = [exec EXCEPT ![x].state = "cancelled"]
    /\ Step("facade", Call("kill", s, exec[x].of, FALSE, x))
    /\ UNCHANGED <<disk, tmp, aged, up, opened, gone, born, head, history>>

\* The accept loop's reap_command_sessions, when it finds something to do.
BeginReconcile ==
    /\ up /\ call["facade"] = Idle
    /\ disk # None /\ ~disk.completed
    /\ aged \/ (IF disk.session = NoExec THEN FALSE ELSE exec[disk.session].state \in Ended)
    /\ Step("facade", Call("reconcile", None, disk.id, FALSE, NoExec))
    /\ UNCHANGED <<disk, tmp, aged, exec, up, opened, gone, born, head, left, history>>

\* A step that only changes the facade's call.
InCall == UNCHANGED <<disk, tmp, aged, exec, up, opened, gone, born, head, left, history>>

F == call["facade"]

\* prepare, and a plain workflow with work to do.  Context, plan and git status
\* are read before the checkpoint of a coding task is saved; they may fail.
Prepare ==
    /\ Is("facade", "coding", "loaded")
    /\ \/ SlotFree(F.cp) /\ \E n \in left.plans : Save("facade", NewCoding(F.w, F.who, n), "end")
       \/ End("facade")
    /\ InCall

StartPlain ==
    /\ Is("facade", "plain", "loaded")
    /\ IF SlotFree(F.cp) THEN Save("facade", New(F.w, F.who), "next") ELSE End("facade")
    /\ InCall

\* The task named by the call: load_coding_checkpoint, resume_agent_workflow.
Named(c) ==
    IF c = None THEN FALSE
    ELSE /\ F.op \in Phases => c.coding
         /\ F.w = None => F.op = "resume"
         /\ F.w # None => F.w = c.id

Transferable(w) ==
    \A x \in DOMAIN exec : exec[x].of = w /\ exec[x].state \notin Ended
                              => exec[x].owner \in gone \cup {F.who}

FaultyMayAdopt(c) == F.w # None /\ c.coding /\ Transferable(c.id)
MayAdopt(c) == F.token /\ F.w # None /\ c.coding /\ Transferable(c.id)

TakeOwnership ==
    /\ up /\ F.at = "loaded" /\ F.op \in Phases \cup {"resume"}
    /\ IF ~Named(F.cp) THEN End("facade") /\ UNCHANGED exec
       ELSE IF F.cp.owner = F.who THEN Goto("facade", "owned") /\ UNCHANGED exec
       ELSE IF ~MayAdopt(F.cp) THEN End("facade") /\ UNCHANGED exec
       ELSE /\ exec' = [x \in DOMAIN exec |->
                          IF exec[x].of = F.cp.id THEN [exec[x] EXCEPT !.owner = F.who] ELSE exec[x]]
            /\ Save("facade", [F.cp EXCEPT !.owner = F.who], "owned")
    /\ UNCHANGED <<disk, tmp, aged, up, opened, gone, born, head, left, history>>

\* ensure_coding_git_baseline
Baseline(c) == c.head \in {0, head}

\* The permission mode or an unreadable project refuses the call after the
\* ownership was taken.
Refused ==
    /\ At("facade", "owned")
    /\ End("facade") /\ InCall

-----------------------------------------------------------------------------
\* The phases of a coding task.

MayEdit(c) ==
    /\ ~c.completed /\ c.step = "prepare" /\ c.next = "edit"
    /\ ~c.patched /\ c.index = 0 /\ c.inflight # "command" /\ c.session = NoExec

Edit ==
    /\ Is("facade", "edit", "owned") /\ Baseline(F.cp)
    /\ IF MayEdit(F.cp)
       THEN Save("facade", [F.cp EXCEPT !.step = "edit", !.next = "verify", !.inflight = "patch"],
                 "patch")
       ELSE End("facade")
    /\ InCall

EnteringVerify(c) ==
    /\ c.step = "edit" /\ c.next = "verify" /\ c.patched
    /\ c.index = 0 /\ c.results = <<>> /\ ~c.failed
RetryingVerify(c) == c.step = "verify" /\ c.next = "verify" /\ c.index <= c.cmds

Verify ==
    /\ Is("facade", "verify", "owned") /\ Baseline(F.cp)
    /\ IF F.cp.completed \/ F.cp.session # NoExec
            \/ ~(EnteringVerify(F.cp) \/ RetryingVerify(F.cp))
       THEN End("facade")
       ELSE \E n \in (IF EnteringVerify(F.cp) THEN left.plans ELSE {F.cp.cmds}) :
              Save("facade", [F.cp EXCEPT !.cmds = n, !.step = "verify", !.next = "persist",
                                          !.failed = FALSE], "next")
    /\ InCall

FaultyMayPersist(c) ==
    /\ c.session = NoExec /\ c.inflight # "command" /\ ~c.failed
    /\ c.step = "verify" /\ c.next = "persist"
MayPersist(c) ==
    /\ c.session = NoExec /\ c.inflight # "command" /\ ~c.failed
    /\ c.step = "verify" /\ c.next = "persist"
    /\ c.index = c.cmds /\ Len(c.results) = c.cmds
    /\ \A i \in DOMAIN c.results : c.results[i] = "completed"

Persisted(c) == [c EXCEPT !.step = "persist", !.next = "none", !.completed = TRUE]

Persist ==
    /\ Is("facade", "persist", "owned") /\ Baseline(F.cp)
    /\ IF MayPersist(F.cp) THEN Save("facade", Persisted(F.cp), "end") ELSE End("facade")
    /\ InCall

-----------------------------------------------------------------------------
\* Resumption.  A step whose completion cannot be known is never repeated.

FaultyUnknownOutcome(c) == c.inflight = "directory"
UnknownOutcome(c) ==
    c.inflight \in {"directory", "patch"} \/ (c.inflight = "command" /\ c.session = NoExec)

Polled(c) == exec[c.session].state

CommandCompleted(c) ==
    [c EXCEPT !.inflight = "none", !.session = NoExec, !.index = @ + 1,
              !.results = Append(@, "completed"),
              !.step = IF c.coding THEN "verify" ELSE @,
              !.next = IF ~c.coding THEN @ ELSE IF c.index + 1 < c.cmds THEN "verify" ELSE "persist"]

VerificationEnded(c) ==
    [c EXCEPT !.inflight = "none", !.session = NoExec, !.failed = TRUE,
              !.step = "verify", !.next = "verify"]

\* verify or persist is entered anew, with the checkpoint read again.
ResumePhase ==
    /\ Is("facade", "resume", "owned") /\ F.cp.coding /\ Baseline(F.cp)
    /\ F.cp.session = NoExec /\ F.cp.inflight = "none" /\ ~F.cp.completed
    /\ F.cp.next \in {"verify", "persist"}
    /\ Step("facade", [F EXCEPT !.op = F.cp.next, !.w = F.cp.id, !.token = FALSE, !.at = "load"])
    /\ InCall

\* resume_coding_task
ResumeCoding ==
    /\ Is("facade", "resume", "owned") /\ F.cp.coding /\ Baseline(F.cp)
    /\ ~(F.cp.session = NoExec /\ F.cp.inflight = "none" /\ F.cp.next \in {"verify", "persist"})
    /\ IF F.cp.completed \/ UnknownOutcome(F.cp) \/ F.cp.session = NoExec THEN End("facade")
       ELSE CASE Polled(F.cp) = "completed" -> Save("facade", CommandCompleted(F.cp), "end")
              [] Polled(F.cp) \in Ended \ {"completed"} ->
                     Save("facade", VerificationEnded(F.cp), "end")
              [] OTHER -> End("facade")
    /\ InCall

ResumePlain ==
    /\ Is("facade", "resume", "owned") /\ ~F.cp.coding
    /\ IF F.cp.completed \/ UnknownOutcome(F.cp) THEN End("facade")
       ELSE IF F.cp.session = NoExec THEN Goto("facade", "next")
       ELSE IF Polled(F.cp) = "completed" THEN Save("facade", CommandCompleted(F.cp), "next")
       ELSE End("facade")
    /\ InCall

\* reconcile_terminal_workflow_command
FaultyUnsuccessful == {"failed"}
Unsuccessful == {"failed", "lost"}

Reconcile ==
    /\ Is("facade", "reconcile", "loaded")
    /\ IF F.cp = None THEN End("facade")
       ELSE IF F.cp.completed \/ F.cp.session = NoExec THEN End("facade")
       ELSE CASE Polled(F.cp) = "completed" ->
                   Save("facade", [CommandCompleted(F.cp) EXCEPT !.failed = FALSE], "end")
              [] Polled(F.cp) = "cancelled" -> Save("facade", Terminal(F.cp, "cancelled"), "end")
              [] Polled(F.cp) \in Unsuccessful -> Save("facade", Terminal(F.cp, "failed"), "end")
              [] OTHER -> End("facade")
    /\ InCall

-----------------------------------------------------------------------------
\* The steps of a plain workflow, started or resumed, and the verification plan.

After(c, kind) ==
    IF kind = "directory" /\ c.dirs + 1 < Dirs THEN "directory"
    ELSE IF kind = "directory" /\ ~c.patched THEN "patch"
    ELSE IF c.index + (IF kind = "command" THEN 1 ELSE 0) < c.cmds THEN "command"
    ELSE "complete"

\* The intent is saved before the effect: a crash leaves it in the file.
Inflight(c, kind) == [c EXCEPT !.inflight = kind, !.session = NoExec]

Intend(kind, place) ==
    Save("facade", IF F.op = "verify" THEN Inflight(F.cp, kind)
                   ELSE [Inflight(F.cp, kind) EXCEPT !.step = "work", !.next = After(F.cp, kind)],
         place)

FilesLeft(c) == F.op # "verify" /\ (c.dirs < Dirs \/ ~c.patched)

NextFileStep ==
    /\ At("facade", "next") /\ FilesLeft(F.cp)
    /\ IF F.cp.dirs < Dirs THEN Intend("directory", "dir") ELSE Intend("patch", "patch")
    /\ InCall

NextCommand ==
    /\ At("facade", "next") /\ ~FilesLeft(F.cp) /\ F.cp.index < F.cp.cmds
    /\ Intend("command", "run")
    /\ InCall

\* A plain workflow that is done leaves no checkpoint.
Finish ==
    /\ At("facade", "next") /\ F.op # "verify"
    /\ ~FilesLeft(F.cp) /\ F.cp.index >= F.cp.cmds
    /\ Goto("facade", "clear")
    /\ InCall

Verified ==
    /\ Is("facade", "verify", "next") /\ F.cp.index >= F.cp.cmds
    /\ Save("facade", [F.cp EXCEPT !.inflight = "none", !.step = "verify", !.next = "persist"], "end")
    /\ InCall

\* terminalize_legacy_checkpoint_failure, for a workflow that is being started;
\* a resumed one just answers the error.
GiveUp == IF F.op = "plain" THEN Save("facade", Terminal(F.cp, "failed"), "end") ELSE End("facade")

\* A verification plan that cannot be read ends verify with an error as well.
StepRefused ==
    /\ At("facade", "next") /\ (F.op = "verify" => F.cp.index < F.cp.cmds)
    /\ GiveUp /\ InCall

\* An error may be answered before or after the step took effect.
MayTakeEffect(step) == done' \in {done, done \cup {step}}

MakeDirectory ==
    /\ At("facade", "dir")
    /\ LET step == <<F.cp.id, "directory", F.cp.dirs + 1>>
       IN  \/ /\ Starts(step) /\ done' = done \cup {step}
              /\ Save("facade", [F.cp EXCEPT !.inflight = "none", !.dirs = @ + 1], "next")
           \/ Starts(step) /\ MayTakeEffect(step) /\ GiveUp
    /\ UNCHANGED <<disk, tmp, aged, exec, up, opened, gone, born, head, left, unheard, cancelled,
                   raced>>

ApplyPatch ==
    /\ At("facade", "patch")
    /\ LET step == <<F.cp.id, "patch", 1>>
       IN  \/ /\ Starts(step) /\ done' = done \cup {step}
              /\ Save("facade", [F.cp EXCEPT !.inflight = "none", !.patched = TRUE,
                                             !.failed = IF F.op = "edit" THEN FALSE ELSE @],
                      IF F.op = "edit" THEN "end" ELSE "next")
           \/ /\ IF F.op = "edit"
                 THEN Save("facade", [F.cp EXCEPT !.inflight = "none", !.failed = TRUE], "end")
                 ELSE GiveUp
              /\ Starts(step) /\ MayTakeEffect(step)
    /\ UNCHANGED <<disk, tmp, aged, exec, up, opened, gone, born, head, left, unheard, cancelled,
                   raced>>

StartCommand ==
    /\ At("facade", "run") /\ Len(exec) < MaxExecs
    /\ exec' = Append(exec, [of |-> F.cp.id, index |-> F.cp.index + 1, owner |-> F.who,
                             state |-> "starting"])
    /\ Starts(<<F.cp.id, "command", F.cp.index + 1>>)
    /\ Goto("facade", "running")
    /\ UNCHANGED <<disk, tmp, aged, up, opened, gone, born, head, left, done, unheard, cancelled,
                   raced>>

\* execute_shell answers an error: the command could not start, the request was
\* cancelled, or its answer, its binding or its record failed after it had started.
\* verify puts the task back to where the same command is run again.
CommandError ==
    \/ F.op # "verify" /\ GiveUp
    \/ F.op = "verify" /\ Save("facade", VerificationEnded(F.cp), "end")
    \/ F.op = "verify" /\ F.cut /\ Save("facade", Terminal(F.cp, "cancelled"), "end")

CommandRefused ==
    /\ At("facade", "run")
    /\ CommandError /\ InCall

Record(status) ==
    [F.cp EXCEPT !.inflight = "none", !.index = @ + 1, !.results = Append(@, status)]

\* The answers of execute_shell: still running when the yield time ends, an
\* exit, an error.  After an error the command may have run all the same, and its
\* record stays open when mark_error_terminal fails.
CommandReturns(o) ==
    /\ At("facade", "running")
    /\ o = "cancelled" => F.cut
    /\ \E state \in (IF o = "error" THEN {"failed", "running"} ELSE {o}) :
          exec' = [exec EXCEPT ![Len(exec)].state = state]
    /\ CASE o = "completed" -> done' = done \cup {Command(Len(exec))}
         [] o = "error" -> MayTakeEffect(Command(Len(exec)))
         [] OTHER -> UNCHANGED done
    /\ unheard' = IF o = "error" /\ F.op = "verify" THEN unheard \cup {Command(Len(exec))}
                  ELSE unheard
    /\ CASE o = "running" -> Save("facade", [F.cp EXCEPT !.session = Len(exec)], "end")
         [] o \in {"completed", "cancelled"} -> Save("facade", Record(o), "next")
         [] o = "failed" /\ F.op = "verify" ->
                Save("facade", [F.cp EXCEPT !.inflight = "none", !.failed = TRUE, !.next = "verify"], "end")
         [] o = "failed" /\ F.op = "resume" -> Goto("facade", "clear")
         [] o = "failed" /\ F.op = "plain" -> GiveUp
         [] OTHER -> CommandError
    /\ UNCHANGED <<disk, tmp, aged, up, opened, gone, born, head, left, replayed, cancelled, raced>>

-----------------------------------------------------------------------------
\* Beside the facade: task_control cancel, a direct kill and a task status read.

S == call["side"]

BeginBeside(c) ==
    /\ up /\ S = Idle /\ Spend("controls")
    /\ Step("side", c)
    /\ UNCHANGED <<disk, tmp, aged, up, opened, gone, born, head, history>>

ActiveOwned(s, w) ==
    IF disk = None THEN FALSE ELSE ~disk.completed /\ disk.owner = s /\ disk.id = w
RunningOwned(s, w) == {x \in DOMAIN exec : exec[x] = [of |-> w, index |-> exec[x].index,
                                                     owner |-> s, state |-> "running"]}

BeginCancel(s, w) ==
    /\ s \in Live /\ (ActiveOwned(s, w) \/ RunningOwned(s, w) # {})
    /\ BeginBeside(Call("cancel", s, w, FALSE, NoExec)) /\ UNCHANGED exec

BeginDirectKill(s, x) ==
    /\ s \in Live /\ exec[x].state = "running" /\ exec[x].owner = s
    /\ exec' = [exec EXCEPT ![x].state = "cancelled"]
    /\ BeginBeside(Call("kill", s, exec[x].of, FALSE, x))

\* owned_task_detail only reads, but the load of an aged file saves it.
BeginTaskDetail(s, w) ==
    /\ s \in Live /\ w \in 1..born /\ aged
    /\ BeginBeside(Call("detail", s, w, FALSE, NoExec)) /\ UNCHANGED exec

TaskDetail ==
    /\ Is("side", "detail", "loaded")
    /\ End("side") /\ InCall

\* WorkflowCheckpointStore::cancel_owned
Cancel ==
    /\ Is("side", "cancel", "loaded")
    /\ IF (IF S.cp = None THEN TRUE ELSE S.cp.completed \/ S.cp.id # S.w \/ S.cp.owner # S.who)
       THEN Goto("side", "killing")
       ELSE Save("side", CancelOwned(S.cp), "killing")
    /\ InCall

\* The task's running commands are killed; one that has ended is settled.
Kill ==
    /\ At("side", "killing")
    /\ \/ \E x \in RunningOwned(S.who, S.w) :
             /\ exec' = [exec EXCEPT ![x].state = "cancelled"]
             /\ Step("side", [S EXCEPT !.op = "settle", !.x = x, !.at = "load"])
       \/ Goto("side", "cutting") /\ UNCHANGED exec
    /\ UNCHANGED <<disk, tmp, aged, up, opened, gone, born, head, left, history>>

\* WorkflowCheckpointStore::settle_command_kill, after a kill of either thread.
Settle(t) ==
    /\ At(t, "loaded") /\ call[t].op \in {"kill", "settle"}
    /\ LET c == call[t].cp
           back == IF call[t].op = "settle" THEN "cutting" ELSE "end"
       IN  IF (IF c = None THEN TRUE ELSE c.completed \/ c.session # call[t].x)
           THEN IF back = "end" THEN End(t) ELSE Goto(t, back)
           ELSE Save(t, SettleKill(c), back)
    /\ InCall

\* Last, the request registered under the task's own id is cancelled: the one
\* that started the workflow.
CutRequest ==
    /\ At("side", "cutting")
    /\ call' = [call EXCEPT !["side"] = Idle,
                            !["facade"].cut = @ \/ (F.op \in {"plain", "coding"} /\ F.w = S.w)]
    /\ InCall

\* A client cancels the request it is waiting for.
CancelRequest ==
    /\ up /\ F.at \in {"run", "running"} /\ ~F.cut /\ Spend("controls")
    /\ Step("facade", [F EXCEPT !.cut = TRUE])
    /\ UNCHANGED <<disk, tmp, aged, exec, up, opened, gone, born, head, history>>

-----------------------------------------------------------------------------
\* The world.

Exits(x, o) ==
    /\ up /\ exec[x].state = "running"
    /\ exec' = [exec EXCEPT ![x].state = o]
    /\ done' = IF o = "completed" THEN done \cup {Command(x)} ELSE done
    /\ UNCHANGED <<disk, tmp, aged, call, up, opened, gone, born, head, left, replayed, unheard,
                   cancelled, raced>>

\* A day passes without a save.
Age ==
    /\ disk # None /\ ~aged /\ ~disk.completed /\ \A t \in Threads : call[t] = Idle
    /\ Spend("days")
    /\ aged' = TRUE
    /\ UNCHANGED <<disk, tmp, exec, call, up, opened, gone, born, head, history>>

MoveHead ==
    /\ Spend("heads")
    /\ head' = head + 1
    /\ UNCHANGED <<disk, tmp, aged, exec, call, up, opened, gone, born, history>>

Connect ==
    /\ up /\ opened < left.sessions
    /\ opened' = opened + 1
    /\ UNCHANGED <<disk, tmp, aged, exec, call, up, gone, born, head, left, history>>

Disconnect(s) ==
    /\ s \in Live
    /\ gone' = gone \cup {s}
    /\ UNCHANGED <<disk, tmp, aged, exec, call, up, opened, born, head, left, history>>

Crash ==
    /\ up /\ Spend("crashes")
    /\ Stop
    /\ UNCHANGED <<disk, tmp, aged, opened, born, head, history>>

Restart ==
    /\ ~up /\ up' = TRUE
    /\ UNCHANGED <<disk, tmp, aged, exec, call, opened, gone, born, head, left, history>>

-----------------------------------------------------------------------------
Init ==
    /\ left \in Scenarios
    /\ disk = None /\ tmp = None /\ aged = FALSE /\ exec = <<>>
    /\ call = [t \in Threads |-> Idle]
    /\ up = TRUE /\ opened = 1 /\ gone = {} /\ born = 0 /\ head = 1
    /\ done = {} /\ replayed = {} /\ unheard = {} /\ cancelled = {} /\ raced = FALSE

Store(t) == Load(t) \/ Write(t) \/ Commit(t) \/ Clear(t) \/ Settle(t)

Working ==
    \/ \E t \in Threads : Store(t)
    \/ Prepare \/ StartPlain \/ TakeOwnership \/ Refused
    \/ Edit \/ Verify \/ Persist \/ ResumePhase \/ ResumeCoding \/ ResumePlain \/ Reconcile
    \/ NextFileStep \/ NextCommand \/ Finish \/ Verified \/ StepRefused
    \/ MakeDirectory \/ ApplyPatch \/ StartCommand \/ CommandRefused
    \/ \E o \in {"running", "completed", "failed", "cancelled", "error"} : CommandReturns(o)
    \/ TaskDetail \/ Cancel \/ Kill \/ CutRequest

Requests ==
    \/ \E s \in Sessions, kind \in {"coding", "plain"} : BeginWorkflow(s, kind)
    \/ \E s \in Sessions, w \in Workflows, p \in Phases, k \in BOOLEAN : BeginPhase(s, p, w, k)
    \/ \E s \in Sessions, w \in Workflows \cup {None}, k \in BOOLEAN : BeginResume(s, w, k)
    \/ \E s \in Sessions, x \in DOMAIN exec : BeginKill(s, x) \/ BeginDirectKill(s, x)
    \/ \E s \in Sessions, w \in Workflows : BeginCancel(s, w) \/ BeginTaskDetail(s, w)
    \/ CancelRequest

World ==
    \/ \E x \in DOMAIN exec, o \in {"completed", "failed"} : Exits(x, o)
    \/ \E t \in Threads : StorageFails(t)
    \/ Age \/ MoveHead \/ Connect \/ \E s \in Sessions : Disconnect(s)
    \/ Crash

Next == Working \/ BeginReconcile \/ Restart \/ Requests \/ World

\* The server's threads run on, the accept loop keeps observing, and a stopped
\* server is started again; clients and commands owe nothing.
Spec == Init /\ [][Next]_vars /\ WF_vars(Working) /\ WF_vars(BeginReconcile) /\ WF_vars(Restart)

-----------------------------------------------------------------------------
\* Properties.

\* "Stopped to avoid repeating it": a directory change, patch or command that
\* took effect is not started again by any retry, resumption or restart, wherever
\* a crash, a failed save or an error fell.  There are two exceptions: two saves
\* overlapped, or execute_shell answered verify an error, upon which verify runs the
\* command again whether or not it had run (facade.rs, the error arm of verify).
NothingIsReplayed == raced \/ replayed \subseteq unheard

\* A coding task is recorded as persisted only after its patch was applied and
\* every command of its verification plan ended successfully, whatever was
\* killed, cancelled, retried or lost on the way.
PersistedIsVerified ==
    disk # None => (disk.step = "persist" =>
        /\ <<disk.id, "patch", 1>> \in done
        /\ \A i \in 1..disk.cmds : <<disk.id, "command", i>> \in done)

\* An incomplete workflow is never overwritten by another one, unless two saves
\* overlapped.
SlotIsExclusive ==
    [][disk # None /\ disk' # None => (~disk.completed /\ disk'.id # disk.id => raced')]_vars

\* A call that begins after the client was told that the task is cancelled makes
\* no directory, applies no patch and starts no command of it, unless two saves
\* overlapped.
CancelIsFinal ==
    \/ raced
    \/ F.at \in {"dir", "patch", "run", "running"} => F.cp.id \notin F.late

\* No step of a workflow is started that took effect before or that was called off
\* before, whatever was retried, resumed, lost or restarted in between, with the
\* exceptions the two parts name.
StepsRunOnce == NothingIsReplayed /\ CancelIsFinal

\* A workflow the status projection shows as "waiting" has no command running,
\* unless two saves overlapped or the command's start was answered with an error.
WaitingIsIdle ==
    \/ raced \/ disk = None \/ disk.completed \/ Snapshot(disk) = "running"
    \/ \A x \in DOMAIN exec : exec[x].of = disk.id /\ exec[x].state \in {"starting", "running"}
                               => Command(x) \in unheard

\* Only a call that presents the adoption token moves a task to another session.
OwnershipNeedsTheToken ==
    [][disk # None /\ disk' # None =>
         (disk'.id = disk.id /\ disk'.owner # disk.owner => F.token \/ raced')]_vars

\* The one checkpoint passes to another workflow only when it is free, and to
\* another session only against its token, and what is shown of it as waiting does
\* not run (workflow_checkpoint.rs, facade.rs).
SlotIsHeld == SlotIsExclusive /\ OwnershipNeedsTheToken /\ []WaitingIsIdle

\* A workflow whose command has ended does not stay "running": the observation
\* loop, a resumption or a cancellation takes the ended session out of the file,
\* also when the command was lost in a crash.
Waits(x) ==
    IF disk = None \/ x > Len(exec) THEN FALSE
    ELSE ~disk.completed /\ disk.session = x /\ exec[x].state \in Ended
EndedCommandIsSettled == \A x \in 1..MaxExecs : Waits(x) ~> ~Waits(x)

=============================================================================
