----------------------------- MODULE Supervisor -----------------------------
(***************************************************************************)
(* Process supervision (runtime/windows_supervisor.rs): every child of the *)
(* desktop is created suspended, put into a job object that the kernel     *)
(* empties when its last handle goes, and only then resumed.  A tree is    *)
(* the process that was spawned (root) and one descendant of it (kid).     *)
(*                                                                         *)
(* A process is "left" when the job no longer counts it and "gone" when    *)
(* its handle is signalled: the code waits for the two separately.         *)
(* Termination takes time: a terminated process is "dying" first.          *)
(*                                                                         *)
(* step[t] is the call that the tree's owner is in, or "held", "stopped",  *)
(* "failed" or "dropped" when it is in none.  Only kinds of trouble in     *)
(* faults happen in a behaviour: "api", a failing call of the kernel (or a *)
(* wait that runs out), "exit", a process that ends by itself, "crash",    *)
(* the end of the desktop.                                                 *)
(***************************************************************************)
EXTENDS Naturals

CONSTANT Trees

VARIABLES
  app,      \* the desktop process: "up" or "dead"
  faults,   \* the kinds of trouble this behaviour may meet
  job,      \* the job object: "none", "open" or "closed"
  owned,    \* is the root assigned to the job?
  root,     \* the process spawned
  kid,      \* its descendant, a member of the job its parent is in
  step,     \* the owner's call
  error     \* the SupervisorError of the last call that failed

osVars == <<job, owned, root, kid>>
supervisorVars == <<app, faults, job, owned, root, kid, step, error>>

Steps == {"idle", "job", "create", "assign", "time", "resume", "held", "failed",
          "stop", "drain", "settle", "stopped", "dropped"}
Errors == {"none", "CreateProcessW", "ownership"}

Fails(kind) == kind \in faults

SupervisorInit ==
  /\ app = "up"
  /\ job = [t \in Trees |-> "none"]
  /\ owned = [t \in Trees |-> FALSE]
  /\ root = [t \in Trees |-> "none"]
  /\ kid = [t \in Trees |-> "none"]
  /\ step = [t \in Trees |-> "idle"]
  /\ error = [t \in Trees |-> "none"]

-----------------------------------------------------------------------------
(* Jobs.                                                                   *)

Killed(p) == IF p \in {"suspended", "running"} THEN "dying" ELSE p

\* The processes QueryInformationJobObject counts; none of them is left.
Empty(t) == ~ \/ owned[t] /\ root[t] \in {"suspended", "running", "dying"}
              \/ owned[t] /\ kid[t] \in {"running", "dying"}

\* Every member of the trees' jobs is terminated.
Terminate(trees) ==
  /\ root' = [t \in Trees |-> IF t \in trees /\ owned[t] THEN Killed(root[t]) ELSE root[t]]
  /\ kid' = [t \in Trees |-> IF t \in trees /\ owned[t] THEN Killed(kid[t]) ELSE kid[t]]

\* The last handle of a job goes: JOB_OBJECT_LIMIT_KILL_ON_JOB_CLOSE.
FaultyClose(trees) ==
  /\ job' = [t \in Trees |-> IF t \in trees /\ job[t] = "open" THEN "closed" ELSE job[t]]
  /\ UNCHANGED <<root, kid>>
Close(trees) ==
  /\ job' = [t \in Trees |-> IF t \in trees /\ job[t] = "open" THEN "closed" ELSE job[t]]
  /\ Terminate({t \in trees : job[t] = "open"})

-----------------------------------------------------------------------------
(* WindowsProcessSupervisor::spawn.                                        *)

Goto(t, label) == step' = [step EXCEPT ![t] = label]
Report(t, e) == error' = [error EXCEPT ![t] = e]

\* A failing spawn: its job is closed and there is no supervisor.
Refuse(t, e) == Goto(t, "failed") /\ Report(t, e)

BeginSpawn(t) ==
  /\ app = "up" /\ step[t] = "idle"
  /\ Goto(t, "job") /\ Report(t, "none")
  /\ UNCHANGED <<app, faults, osVars>>

CreateJob(t) ==
  /\ app = "up" /\ step[t] = "job"
  /\ \/ /\ job' = [job EXCEPT ![t] = "open"]
        /\ Goto(t, "create") /\ UNCHANGED error
     \/ /\ Fails("api")
        /\ Refuse(t, "ownership") /\ UNCHANGED job
  /\ UNCHANGED <<app, faults, owned, root, kid>>

FaultyCreateProcess(t) ==
  /\ app = "up" /\ step[t] = "create"
  /\ root' = [root EXCEPT ![t] = "running"]
  /\ Goto(t, "assign")
  /\ UNCHANGED <<app, faults, job, owned, kid, error>>
CreateProcess(t) ==
  /\ app = "up" /\ step[t] = "create"
  /\ \/ /\ root' = [root EXCEPT ![t] = "suspended"]
        /\ Goto(t, "assign")
        /\ UNCHANGED <<job, kid, error>>
     \/ /\ Fails("api")
        /\ Close({t}) /\ Refuse(t, "CreateProcessW")
  /\ UNCHANGED <<app, faults, owned>>

\* TerminateProcess is tried on a process that would not join the job, and its
\* result is not looked at: then the process stays suspended.
Assign(t) ==
  /\ app = "up" /\ step[t] = "assign"
  /\ \/ /\ owned' = [owned EXCEPT ![t] = TRUE]
        /\ Goto(t, "time")
        /\ UNCHANGED <<job, root, error>>
     \/ /\ Fails("api")
        /\ \E p \in {Killed(root[t]), root[t]} : root' = [root EXCEPT ![t] = p]
        /\ job' = [job EXCEPT ![t] = "closed"]
        /\ Refuse(t, "ownership")
        /\ UNCHANGED owned
  /\ UNCHANGED <<app, faults, kid>>

CreationTime(t) ==
  /\ app = "up" /\ step[t] = "time"
  /\ \/ Goto(t, "resume") /\ UNCHANGED <<job, root, kid, error>>
     \/ Fails("api") /\ Close({t}) /\ Refuse(t, "ownership")
  /\ UNCHANGED <<app, faults, owned>>

Resume(t) ==
  /\ app = "up" /\ step[t] = "resume"
  /\ \/ /\ root' = [root EXCEPT ![t] = IF @ = "suspended" THEN "running" ELSE @]
        /\ Goto(t, "held")
        /\ UNCHANGED <<job, kid, error>>
     \/ Fails("api") /\ Close({t}) /\ Refuse(t, "ownership")
  /\ UNCHANGED <<app, faults, owned>>

\* root_is_running: is the process's handle unsignalled?
RootIsRunning(t) == step[t] # "stopped" /\ root[t] # "gone"

-----------------------------------------------------------------------------
(* force_stop, that is stop_with and no time for a graceful end, and Drop.  *)
(* A stop that fails leaves the supervisor as it was.                      *)

GiveUp(t) == Fails("api") /\ Goto(t, "held") /\ Report(t, "ownership")

BeginStop(t) ==
  /\ app = "up" /\ step[t] = "held"
  /\ Goto(t, "stop") /\ Report(t, "none")
  /\ UNCHANGED <<app, faults, osVars>>

Stop(t) ==
  /\ app = "up" /\ step[t] = "stop"
  /\ \/ Empty(t) /\ Goto(t, "settle") /\ UNCHANGED <<root, kid, error>>
     \/ ~Empty(t) /\ Terminate({t}) /\ Goto(t, "drain") /\ UNCHANGED error
     \/ GiveUp(t) /\ UNCHANGED <<root, kid>>
  /\ UNCHANGED <<app, faults, job, owned>>

\* wait_for_job_empty.
Drain(t) ==
  /\ app = "up" /\ step[t] = "drain"
  /\ \/ Empty(t) /\ Goto(t, "settle") /\ UNCHANGED error
     \/ GiveUp(t)
  /\ UNCHANGED <<app, faults, osVars>>

\* wait_for_process_exit.
Settle(t) ==
  /\ app = "up" /\ step[t] = "settle"
  /\ \/ root[t] = "gone" /\ Goto(t, "stopped") /\ UNCHANGED error
     \/ GiveUp(t)
  /\ UNCHANGED <<app, faults, osVars>>

Drop(t) ==
  /\ app = "up" /\ step[t] \in {"held", "stopped"}
  /\ Close({t}) /\ Goto(t, "dropped")
  /\ UNCHANGED <<app, faults, owned, error>>

Supervising(t) ==
  \/ CreateJob(t) \/ CreateProcess(t) \/ Assign(t) \/ CreationTime(t) \/ Resume(t)
  \/ Stop(t) \/ Drain(t) \/ Settle(t)

-----------------------------------------------------------------------------
(* The kernel and the processes themselves.                                *)

\* A process ends: one that was terminated, or by itself.
RootLeaves(t) ==
  /\ \/ root[t] = "dying"
     \/ root[t] = "running" /\ Fails("exit")
  /\ root' = [root EXCEPT ![t] = "left"]
  /\ UNCHANGED <<app, faults, job, owned, kid, step, error>>

RootSignals(t) ==
  /\ root[t] = "left"
  /\ root' = [root EXCEPT ![t] = "gone"]
  /\ UNCHANGED <<app, faults, job, owned, kid, step, error>>

KidEnds(t) ==
  /\ \/ kid[t] = "dying"
     \/ kid[t] = "running" /\ Fails("exit")
  /\ kid' = [kid EXCEPT ![t] = "gone"]
  /\ UNCHANGED <<app, faults, job, owned, root, step, error>>

Fork(t) ==
  /\ root[t] = "running" /\ kid[t] = "none" /\ Fails("exit")
  /\ kid' = [kid EXCEPT ![t] = "running"]
  /\ UNCHANGED <<app, faults, job, owned, root, step, error>>

\* The kernel finishes what was terminated.
Reaping(t) ==
  \/ root[t] \in {"dying", "left"} /\ (RootLeaves(t) \/ RootSignals(t))
  \/ kid[t] = "dying" /\ KidEnds(t)

\* The desktop ends, by a crash or at the task manager's hand: the kernel
\* closes its handles.
Crash ==
  /\ app = "up" /\ Fails("crash")
  /\ app' = "dead"
  /\ Close(Trees)
  /\ UNCHANGED <<faults, owned, step, error>>

System == (\E t \in Trees : RootLeaves(t) \/ RootSignals(t) \/ KidEnds(t) \/ Fork(t)) \/ Crash

SupervisorNext ==
  \/ System
  \/ \E t \in Trees : BeginSpawn(t) \/ BeginStop(t) \/ Drop(t) \/ Supervising(t)

SupervisorSpec ==
  /\ SupervisorInit /\ faults \in SUBSET {"api", "exit", "crash"}
  /\ [][SupervisorNext]_supervisorVars

-----------------------------------------------------------------------------
(* Properties.                                                             *)

SupervisorTypeOK ==
  /\ app \in {"up", "dead"}
  /\ job \in [Trees -> {"none", "open", "closed"}]
  /\ owned \in [Trees -> BOOLEAN]
  /\ root \in [Trees -> {"none", "suspended", "running", "dying", "left", "gone"}]
  /\ kid \in [Trees -> {"none", "running", "dying", "gone"}]
  /\ step \in [Trees -> Steps]
  /\ error \in [Trees -> Errors]

\* No process runs but as a member of a job that is still open: wherever a
\* spawn fails, a supervisor is dropped or the desktop ends, nothing that ever
\* ran is out of the kernel's reach (windows_supervisor.rs:297-393, 723-736).
NoOrphanRuns ==
  \A t \in Trees : (root[t] = "running" \/ kid[t] = "running") =>
    owned[t] /\ job[t] = "open"

\* A supervisor that calls itself stopped has no process left, the descendants
\* included (stop_with, windows_supervisor.rs:423-464).
StoppedIsEmpty ==
  \A t \in Trees : step[t] = "stopped" => root[t] = "gone" /\ kid[t] \in {"none", "gone"}
=============================================================================
