--------------------------- MODULE BoundedCommand ---------------------------
(***************************************************************************)
(* run_bounded_command (runtime/windows_supervisor.rs): one command with a *)
(* limit on its time and on its output, run by the git adapter, the shell  *)
(* probes and the toolbox.  The calling thread watches the command's job   *)
(* while a reader thread drains the pipe that the command writes to.       *)
(*                                                                         *)
(* The command is the tree Command of Supervisor, whose kernel it shares;  *)
(* its steps are its own code.  Output is counted in units, of which the   *)
(* reader keeps at most OutputLimit.                                       *)
(*                                                                         *)
(* Two more kinds of trouble belong to it: "thread", a thread that cannot  *)
(* be created, and "logs", the user opening the log folder meanwhile.      *)
(***************************************************************************)
EXTENDS Supervisor

CONSTANTS Command, OutputLimit, MaxWritten

VARIABLES
  run,      \* the calling thread
  timed,    \* timed_out
  pipe,     \* does the caller still hold its write handle: "none", "open", "closed"
  reader,   \* "none", "draining", "failed" or "done"
  stray,    \* an explorer that inherited the write handle: "none", "holds", "gone"
  written,  \* units the command wrote
  kept,     \* retained
  cut       \* truncated

boundedVars == <<run, timed, pipe, reader, stray, written, kept, cut>>

BoundedInit(start) ==
  /\ run = start /\ timed = FALSE
  /\ pipe = "none" /\ reader = "none" /\ stray = "none"
  /\ written = 0 /\ kept = 0 /\ cut = FALSE

At(label) == app = "up" /\ run = label
Alive(p) == p \in {"suspended", "running", "dying"}

\* Who can still write: the caller before it closes its handle, and the
\* processes that inherited it.  The command is given that one handle only; the
\* explorer of open_logs is given every inheritable handle of the desktop.
Writers ==
  pipe = "open" \/ Alive(root[Command]) \/ Alive(kid[Command]) \/ stray = "holds"

-----------------------------------------------------------------------------
(* Start: the pipe, the job, the inherited handle list, the process.       *)

BoundedBegin ==
  /\ At("begin")
  /\ \/ run' = "job" /\ pipe' = "open"
     \/ Fails("api") /\ run' = "error" /\ UNCHANGED pipe
  /\ UNCHANGED <<supervisorVars, timed, reader, stray, written, kept, cut>>

BoundedJob ==
  /\ At("job")
  /\ \/ /\ job' = [job EXCEPT ![Command] = "open"]
        /\ run' = "create" /\ UNCHANGED pipe
     \/ /\ Fails("api")
        /\ run' = "error" /\ pipe' = "closed" /\ UNCHANGED job
  /\ UNCHANGED <<app, faults, owned, root, kid, step, error, timed, reader, stray, written, kept,
                 cut>>

\* The caller's write handle is closed however the creation ends.
BoundedCreate ==
  /\ At("create")
  /\ pipe' = "closed"
  /\ \/ /\ root' = [root EXCEPT ![Command] = "suspended"]
        /\ run' = "assign" /\ UNCHANGED <<job, kid>>
     \/ Fails("api") /\ Close({Command}) /\ run' = "error"
  /\ UNCHANGED <<app, faults, owned, step, error, timed, reader, stray, written, kept, cut>>

BoundedAssign ==
  /\ At("assign")
  /\ \/ /\ owned' = [owned EXCEPT ![Command] = TRUE]
        /\ run' = "resume" /\ UNCHANGED <<job, root>>
     \/ /\ Fails("api")
        /\ \E p \in {"dying", "suspended"} : root' = [root EXCEPT ![Command] = p]
        /\ job' = [job EXCEPT ![Command] = "closed"]
        /\ run' = "error" /\ UNCHANGED owned
  /\ UNCHANGED <<app, faults, kid, step, error, timed, pipe, reader, stray, written, kept, cut>>

BoundedResume ==
  /\ At("resume")
  /\ \/ /\ root' = [root EXCEPT ![Command] = "running"]
        /\ run' = "thread" /\ UNCHANGED <<job, kid>>
     \/ Fails("api") /\ Close({Command}) /\ run' = "error"
  /\ UNCHANGED <<app, faults, owned, step, error, timed, pipe, reader, stray, written, kept, cut>>

\* thread::spawn panics when there is no thread to be had.  The release profile
\* aborts, which ends the desktop; a build that unwinds leaves the caller with
\* the job's handle, a plain HANDLE, open and the command running.
BoundedReader ==
  /\ At("thread")
  /\ \/ /\ run' = "poll" /\ reader' = "draining"
        /\ UNCHANGED <<app, job, root, kid>>
     \/ /\ Fails("thread")
        /\ app' = "dead" /\ Close(Trees)
        /\ UNCHANGED <<run, reader>>
     \/ /\ Fails("thread")
        /\ run' = "panicked"
        /\ UNCHANGED <<app, reader, job, root, kid>>
  /\ UNCHANGED <<faults, owned, step, error, timed, pipe, stray, written, kept, cut>>

-----------------------------------------------------------------------------
(* Watch: until the job is empty or the time is up, then until the process *)
(* has signalled.                                                          *)

FaultyAbandon ==
  /\ run' = "abandon"
  /\ UNCHANGED <<job, root, kid>>
\* Every way out with an error closes the job, which ends its processes, and
\* then joins the reader.
Abandon ==
  /\ run' = "abandon"
  /\ Close({Command})

BoundedPoll ==
  /\ At("poll")
  /\ \/ /\ Empty(Command)
        /\ run' = "empty" /\ UNCHANGED <<job, root, kid, timed>>
     \/ /\ ~Empty(Command)
        /\ Terminate({Command}) /\ timed' = TRUE
        /\ run' = "empty" /\ UNCHANGED job
     \/ Fails("api") /\ Abandon /\ UNCHANGED timed
  /\ UNCHANGED <<app, faults, owned, step, error, pipe, reader, stray, written, kept, cut>>

BoundedEmpty ==
  /\ At("empty")
  /\ \/ Empty(Command) /\ run' = "exit" /\ UNCHANGED <<job, root, kid>>
     \/ Fails("api") /\ Abandon
  /\ UNCHANGED <<app, faults, owned, step, error, timed, pipe, reader, stray, written, kept, cut>>

BoundedExit ==
  /\ At("exit")
  /\ \/ root[Command] = "gone" /\ Close({Command}) /\ run' = "join"
     \/ Fails("api") /\ Abandon
  /\ UNCHANGED <<app, faults, owned, step, error, timed, pipe, reader, stray, written, kept, cut>>

BoundedJoin ==
  /\ At("join") \/ At("abandon")
  /\ reader \in {"done", "failed"}
  /\ run' = IF run = "join" THEN "ok" ELSE "error"
  /\ UNCHANGED <<supervisorVars, timed, pipe, reader, stray, written, kept, cut>>

Commanding ==
  \/ BoundedBegin \/ BoundedJob \/ BoundedCreate \/ BoundedAssign \/ BoundedResume
  \/ BoundedReader \/ BoundedPoll \/ BoundedEmpty \/ BoundedExit \/ BoundedJoin

-----------------------------------------------------------------------------
(* The pipe: drain_bounded_output and the command's writes.                *)

\* A read that fails ends the drain as the end of the pipe does.
Drains ==
  /\ app = "up" /\ reader = "draining"
  /\ \/ /\ kept < written /\ ~cut
        /\ IF kept < OutputLimit
             THEN kept' = kept + 1 /\ UNCHANGED cut
             ELSE cut' = TRUE /\ UNCHANGED kept
        /\ UNCHANGED reader
     \/ /\ (kept = written \/ cut) /\ ~Writers
        /\ reader' = "done" /\ UNCHANGED <<kept, cut>>
     \/ /\ Fails("read")
        /\ reader' = "failed" /\ UNCHANGED <<kept, cut>>
  /\ UNCHANGED <<supervisorVars, run, timed, pipe, stray, written>>

Writes ==
  /\ written < MaxWritten
  /\ root[Command] = "running" \/ kid[Command] = "running"
  /\ reader = "draining" \/ run = "thread"
  /\ written' = written + 1
  /\ UNCHANGED <<supervisorVars, run, timed, pipe, reader, stray, kept, cut>>

\* open_logs spawns an explorer while the write handle is there to be inherited.
\* Nobody waits for it, and nothing says when it ends.
OpenLogs ==
  /\ app = "up" /\ pipe = "open" /\ stray = "none" /\ Fails("logs")
  /\ stray' = "holds"
  /\ UNCHANGED <<supervisorVars, run, timed, pipe, reader, written, kept, cut>>

StrayEnds ==
  /\ stray = "holds" /\ stray' = "gone"
  /\ UNCHANGED <<supervisorVars, run, timed, pipe, reader, written, kept, cut>>

-----------------------------------------------------------------------------
(* Properties.                                                             *)

\* An answer that does not say it is truncated holds everything the command
\* and its descendants wrote, also when its time ran out; only a failing read
\* of the pipe is not reported (windows_supervisor.rs:648-657, 781-798).
AnswersAreWhole ==
  run = "ok" /\ ~cut /\ reader # "failed" => kept = written

\* A bounded command comes back, whatever the command does and whichever call
\* of the kernel fails: no way out waits for a reader whose pipe the command or a
\* descendant may keep open (windows_supervisor.rs:541-652).  An explorer that
\* got the write handle (commands/diagnostics.rs:168) is the exception: the join
\* of the reader then waits, past the command's time limit, until it ends.
Returned == run \in {"ok", "error", "panicked"} \/ app = "dead"
BoundedReturns ==
  /\ run = "begin" ~> (Returned \/ stray = "holds")
  /\ stray = "gone" ~> Returned
=============================================================================
