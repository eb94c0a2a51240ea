-------------------------- MODULE ExecutionsProofs --------------------------
(***************************************************************************)
(* Executions' safety properties, for every set of commands, sessions and  *)
(* control threads, every number of calls and crashes and every fault.     *)
(* None of them is inductive.  The first invariant is about the records    *)
(* alone, the second about what the calls in progress have seen and are    *)
(* about to answer, the third about the intents, the fourth about the      *)
(* statuses the facade answers; each rests on the ones before it.          *)
(***************************************************************************)
EXTENDS Executions, FiniteSetTheorems, TLAPS

\* The provers and their time limits, unless a step names another.
USE ZenonT(30), SMTT(30)

Records ==
    [state : {"absent", "running"} \cup Outcomes, owner : Sessions \cup {None}, token : Nat,
     bound : BOOLEAN, orphaned : BOOLEAN, born : Nat]
Places == {"idle", "accepting", "calling", "binding", "observed", "withdrawing", "marking",
           "finishing", "dropping", "replying"}
Modes == {"none", "exec", "control", "observe", "direct", "task"}
Acts == {"none", "exec", "poll", "write", "kill"}
Observations == {"none", "running", "completed", "failed", "cancelled", "refused", "unavailable",
                 "timeout", "broken", "invalid", "upstream"}
Processes == {"none", "running", "dying", "exit_ok", "exit_bad", "gone"}
Beside == {"direct", "task"}

\* A call records what it will answer, unless it is the facade's or reads the record
\* back; only the facade records an error, and answers none of it.
Sound(mode, out, ans) ==
    /\ mode = "direct" /\ ans # "record" => ans = out
    /\ mode = "task" => ans = "none"
    /\ out = "errored" => ans = "none" /\ mode \notin Beside
Frames ==
    {f \in [pc : Places, mode : Modes, exec : Executions \cup {None}, act : Acts,
            obs : Observations, out : Outcomes \cup {"none"},
            ans : ExitSeen \cup {"record", "none"}] :
        /\ f.pc # "idle" => f.exec \in Executions
        /\ f.pc \in {"accepting", "calling"} => f.act # "none"
        /\ f.pc = "binding" => f.mode = "exec"
        /\ f.pc \in {"marking", "finishing", "dropping", "replying"} =>
             f.out \in Outcomes /\ Sound(f.mode, f.out, f.ans)
        /\ f.pc = "marking" => f.mode \notin Beside
        /\ f.pc = "replying" => f.ans # "none"
        /\ f.pc = "withdrawing" /\ f.mode # "direct" =>
             f.out \in {"errored", "lost"} /\ f.ans = "none" /\ f.mode # "task"}
Settling == {"marking", "finishing", "withdrawing"}

\* What a call may settle on.
Settles(mode, pc, out, ans) ==
    /\ out \in Outcomes /\ ans \in ExitSeen \cup {"record", "none"} /\ Sound(mode, out, ans)
    /\ pc # "finishing" => mode \notin Beside
    /\ pc = "withdrawing" => out \in {"errored", "lost"} /\ ans = "none"

TypeInv ==
    /\ mem \in [Executions -> Records] /\ disk \in [Executions -> Records]
    /\ session \in [Sessions -> {"new", "open", "closing", "gone", "past"}]
    /\ thread \in [Threads -> Frames]
    /\ proc \in [Executions -> Processes]
    /\ up \in BOOLEAN
    /\ spent \subseteq Executions \X (1..MaxToken)

\* Memory is the file while the application runs; otherwise it is empty, and
\* nobody is in a call.
MemoryInv ==
    /\ up => mem = disk
    /\ ~up => /\ mem = [e \in Executions |-> Absent]
              /\ \A t \in Threads : thread[t].pc = "idle"

\* Of command e with record r: nothing is known of it while it is in f, its
\* credential is younger than those in sp, and it has an owner among the sessions
\* ss, or can be adopted, unless it is in st.
CredentialInv(e, r, f, sp) ==
    /\ e \in f => r.state = "absent" /\ \A k \in 1..MaxToken : <<e, k>> \notin sp
    /\ Live(r) <=> r.token > 0
    /\ \A k \in 1..MaxToken : <<e, k>> \in sp /\ Live(r) => k < r.token
OwnerInv(e, r, ss, st) ==
    Live(r) /\ e \notin st => IF r.owner = None THEN r.orphaned ELSE ss[r.owner] # "gone"

OwnershipInv ==
    /\ TypeInv /\ MemoryInv
    /\ \A e \in Executions :
         /\ CredentialInv(e, mem[e], fresh, spent) /\ CredentialInv(e, disk[e], fresh, spent)
         /\ OwnerInv(e, mem[e], session, stranded)

-----------------------------------------------------------------------------
\* An absent record is a record.
LEMMA AbsentIsRecord == Absent \in Records /\ Absent.token = 0 /\ Absent.state = "absent"
  BY DEF Absent, Records

\* A transaction writes the records it was given, but for ended ones that are trimmed.
LEMMA TransactWrites ==
  ASSUME NEW m \in [Executions -> Records], Transact(m)
  PROVE  /\ mem' \in [Executions -> Records] /\ disk' = mem'
         /\ \A e \in Executions :
              mem'[e] = m[e] \/ (mem'[e] = Absent /\ Terminal(m[e]))
  BY AbsentIsRecord DEF Transact, TrimState

\* The number given to a new record.
LEMMA NewRecordIsRecord ==
  ASSUME NEW s \in Sessions
  PROVE  /\ NewRecord(s) \in Records
         /\ NewRecord(s).state = "running" /\ NewRecord(s).token = 1
         /\ NewRecord(s).owner = s /\ ~NewRecord(s).bound
  <1> DEFINE started == {e \in Executions : e \notin fresh}
  <1>1. IsFiniteSet(started)
    BY IdentityAssumption, FS_Subset
  <1>2. Cardinality(started) \in Nat
    BY <1>1, FS_CardinalityType
  <1> HIDE DEF started
  <1>3. NewRecord(s) = [state |-> "running", owner |-> s, token |-> 1, bound |-> FALSE,
                        orphaned |-> FALSE, born |-> 1 + Cardinality(started)]
    BY DEF NewRecord, started
  <1> QED BY <1>2, <1>3, SMTT(30) DEF Records

-----------------------------------------------------------------------------
\* A call goes on, is settled or returns: its frame stays a frame.
LEMMA FramesStay ==
  ASSUME TypeInv, NEW t \in Threads, thread[t].pc # "idle"
  PROVE  /\ Go(t, "observed") => thread' \in [Threads -> Frames]
         /\ At(t, "finishing") /\ Go(t, "dropping") => thread' \in [Threads -> Frames]
         /\ (At(t, "finishing") \/ At(t, "dropping")) /\ thread[t].ans # "none" /\ Go(t, "replying")
              => thread' \in [Threads -> Frames]
         /\ \A pc \in Settling : \A o, a :
              Settle(t, pc, o, a) /\ Settles(thread[t].mode, pc, o, a) =>
                thread' \in [Threads -> Frames]
         /\ Return(t) => thread' \in [Threads -> Frames]
  <1>1. thread[t] \in Frames /\ Idle \in Frames
    BY DEF TypeInv, Frames, Idle, Places, Modes, Acts, Observations
  <1>2. ASSUME NEW pc \in {"observed", "dropping", "replying"}, Go(t, pc),
               pc # "observed" => thread[t].pc \in {"finishing", "dropping"},
               pc = "replying" => thread[t].ans # "none"
        PROVE  thread' \in [Threads -> Frames]
    <2> DEFINE f == [thread[t] EXCEPT !.pc = pc]
    <2>1. f \in Frames
      BY <1>1, <1>2 DEF Frames, Places
    <2> QED BY <1>2, <2>1 DEF TypeInv, Go
  <1>3. ASSUME NEW pc \in Settling, NEW o, NEW a, Settle(t, pc, o, a), Settles(thread[t].mode, pc, o, a)
        PROVE  thread' \in [Threads -> Frames]
    <2> DEFINE f == [Idle EXCEPT !.pc = pc, !.out = o, !.ans = a, !.mode = thread[t].mode,
                                 !.exec = thread[t].exec]
    <2>1. f \in Frames
      <3>1. thread[t].mode \in Modes /\ thread[t].exec \in Executions
        BY <1>1 DEF Frames
      <3>2. pc \in Places /\ pc \in {"marking", "finishing", "withdrawing"}
        BY <1>3 DEF Settling, Places
      <3>3. "none" \in Observations /\ "none" \in Acts
        BY DEF Observations, Acts
      <3>4. f \in [pc : Places, mode : Modes, exec : Executions \cup {None}, act : Acts,
                  obs : Observations, out : Outcomes \cup {"none"},
                  ans : ExitSeen \cup {"record", "none"}]
        BY <1>3, <3>1, <3>2, <3>3 DEF Idle, Settles
      <3>5. f.pc = pc /\ f.exec = thread[t].exec /\ f.out = o /\ f.ans = a /\ f.mode = thread[t].mode
        BY DEF Idle
      <3> HIDE DEF f
      <3> QED BY <1>3, <3>1, <3>2, <3>4, <3>5 DEF Frames, Settles, Beside
    <2>2. thread' = [thread EXCEPT ![t] = f]
      BY <1>3 DEF Settle
    <2> QED BY <2>1, <2>2 DEF TypeInv
  <1>4. Return(t) => thread' \in [Threads -> Frames]
    BY <1>1 DEF TypeInv, Return
  <1> QED BY <1>2, <1>3, <1>4 DEF At

\* What a call makes of an answer is an outcome, and of an exit a status.
LEMMA OutcomesStay ==
  /\ \A e, obs : obs \in Outcomes => ObservedOutcome(e, obs) \in Outcomes
  /\ \A e, obs : ObservedOutcome(e, obs) \in {obs, "cancelled"}
  /\ \A e, obs : Statuses(e, obs) \subseteq {obs, "cancelled"}
  /\ \A code : ErrorOutcome(code) \in {"lost", "errored"}
  BY DEF ObservedOutcome, Statuses, ErrorOutcome, Outcomes

\* Settling an answer leaves frames.
LEMMA SettledFrames ==
  ASSUME TypeInv, NEW t \in Threads, SettleAnswer(t)
  PROVE  thread' \in [Threads -> Frames]
  <1> DEFINE c == thread[t]
  <1>0. thread[t].pc # "idle"
    BY DEF SettleAnswer, At
  <1>1. ASSUME NEW pc \in Settling, NEW o, NEW a, Settle(t, pc, o, a), Settles(c.mode, pc, o, a)
        PROVE  thread' \in [Threads -> Frames]
    BY <1>0, <1>1, FramesStay
  <1>2. ASSUME Return(t) PROVE thread' \in [Threads -> Frames]
    BY <1>0, <1>2, FramesStay
  <1>3. {"withdrawing", "marking", "finishing"} \subseteq Settling
    BY DEF Settling
  <1>4. ASSUME Go(t, "withdrawing"), thread[t].mode = "direct"
        PROVE  thread' \in [Threads -> Frames]
    BY <1>0, <1>4, SMTT(30) DEF TypeInv, Go, Frames, Places
  <1>5. ExitSeen \subseteq Outcomes \ {"errored"} /\ "cancelled" \in ExitSeen
    BY DEF Outcomes, ExitSeen
  <1>6. CASE c.mode = "direct" /\ SettleDirect(t, c.exec, c.obs)
    <2>1. ASSUME NEW o \in ExitSeen, NEW a \in {o, "record"} PROVE Settles("direct", "finishing", o, a)
      BY <1>5, <2>1 DEF Settles, Sound
    <2>2. c.obs \in ExitSeen => ObservedOutcome(c.exec, c.obs) \in ExitSeen
      BY <1>5, OutcomesStay
    <2> QED BY <1>1, <1>2, <1>3, <1>4, <1>5, <1>6, <2>1, <2>2 DEF SettleDirect
  <1>7. CASE c.mode = "task" /\ SettleTask(t, c.obs)
    <2>1. Settles("task", "finishing", "cancelled", "none")
      BY <1>5 DEF Settles, Sound
    <2> QED BY <1>1, <1>2, <1>3, <1>7, <2>1 DEF SettleTask
  <1>8. CASE c.mode \notin Beside /\ SettleFacade(t, c.exec, c.obs, c.mode, c.act)
    <2>1. ASSUME NEW o \in ExitSeen, NEW a \in {o, "record", "none"} PROVE Settles(c.mode, "marking", o, a)
      BY <1>5, <1>8, <2>1 DEF Settles, Sound, Beside
    <2>2. ASSUME NEW o \in {"lost", "errored"}, NEW pc \in {"withdrawing", "marking"}
          PROVE  Settles(c.mode, pc, o, "none")
      BY <1>8, <2>2 DEF Settles, Sound, Beside, Outcomes
    <2>3. CASE SettleControl(t, c.exec, c.obs, c.act)
      <3>1. CASE Settle(t, "marking", "cancelled", "record")
        BY <1>1, <1>3, <1>5, <2>1, <3>1
      <3>2. ASSUME NEW code, Settle(t, IF c.act = "kill" THEN "withdrawing" ELSE "marking",
                                    ErrorOutcome(code), "none")
            PROVE  thread' \in [Threads -> Frames]
        BY <1>1, <1>3, <2>2, <3>2, OutcomesStay
      <3> QED BY <1>2, <2>3, <3>1, <3>2 DEF SettleControl
    <2>4. CASE Settle(t, "marking", ErrorOutcome(ErrorCode(c.obs)), "none")
      BY <1>1, <1>3, <2>2, <2>4, OutcomesStay
    <2>5. ASSUME c.obs \in ExitSeen, NEW o \in Statuses(c.exec, c.obs),
                 Settle(t, "marking", o, IF c.mode = "observe" THEN "none" ELSE o)
          PROVE  thread' \in [Threads -> Frames]
      <3>1. o \in ExitSeen
        BY <1>5, <2>5, OutcomesStay
      <3> QED BY <1>1, <1>3, <2>1, <2>5, <3>1
    <2> QED BY <1>2, <1>8, <2>3, <2>4, <2>5 DEF SettleFacade
  <1> QED BY <1>6, <1>7, <1>8 DEF SettleAnswer, Beside
-----------------------------------------------------------------------------
\* The records stay as they are.
LEMMA QuietKeepsOwnership ==
  ASSUME OwnershipInv, thread' \in [Threads -> Frames], up \/ UNCHANGED thread,
         proc' \in [Executions -> Processes],
         UNCHANGED <<mem, disk, session, fresh, spent, stranded, up>>
  PROVE  OwnershipInv'
  BY DEF OwnershipInv, TypeInv, MemoryInv

\* A transaction keeps the invariant if the records it was given satisfy it.
LEMMA TransactKeepsOwnership ==
  ASSUME OwnershipInv, NEW m \in [Executions -> Records], Transact(m),
         thread' \in [Threads -> Frames], up' = TRUE, UNCHANGED proc,
         session' \in [Sessions -> {"new", "open", "closing", "gone", "past"}],
         spent' \subseteq Executions \X (1..MaxToken),
         \A e \in Executions : /\ CredentialInv(e, m[e], fresh', spent')
                               /\ OwnerInv(e, m[e], session', stranded')
  PROVE  OwnershipInv'
  <1>1. TypeInv' /\ MemoryInv'
    BY TransactWrites DEF OwnershipInv, TypeInv, MemoryInv
  <1>2. ASSUME NEW e \in Executions
        PROVE  /\ CredentialInv(e, mem'[e], fresh', spent')
               /\ OwnerInv(e, mem'[e], session', stranded')
    <2>1. CASE mem'[e] = m[e]
      BY <2>1
    <2>2. CASE mem'[e] = Absent /\ Terminal(m[e])
      BY <2>2, AbsentIsRecord, SMTT(30) DEF CredentialInv, OwnerInv, Live
    <2> QED BY <2>1, <2>2, TransactWrites
  <1> QED BY <1>1, <1>2, TransactWrites DEF OwnershipInv

\* The application's end.
LEMMA DownKeepsOwnership ==
  ASSUME OwnershipInv, Down PROVE OwnershipInv'
  <1>1. Idle \in Frames
    BY DEF Frames, Idle, Places, Modes, Acts, Observations
  <1>2. TypeInv'
    BY <1>1, AbsentIsRecord DEF OwnershipInv, TypeInv, Down, historyVars, Processes
  <1>3. ASSUME NEW e \in Executions
        PROVE  /\ CredentialInv(e, mem'[e], fresh', spent') /\ mem'[e] = Absent
               /\ OwnerInv(e, mem'[e], session', stranded')
    BY <1>3, AbsentIsRecord, SMTT(30) DEF Down, CredentialInv, OwnerInv, Live, OwnershipInv,
       historyVars
  <1>4. ASSUME NEW e \in Executions PROVE CredentialInv(e, disk'[e], fresh', spent')
    BY DEF Down, OwnershipInv, historyVars
  <1> QED BY <1>2, <1>3, <1>4 DEF OwnershipInv, MemoryInv, Down, Idle
\* The first states: nothing was started and every thread is idle.
LEMMA InitOwnership == Init => OwnershipInv
  <1> SUFFICES ASSUME Init PROVE OwnershipInv
    OBVIOUS
  <1>1. Idle \in Frames
    BY DEF Frames, Idle, Places, Modes, Acts, Observations
  <1>2. TypeInv /\ MemoryInv
    BY <1>1, AbsentIsRecord DEF Init, TypeInv, MemoryInv, Idle, Processes
  <1> QED BY <1>2, AbsentIsRecord, SMTT(30) DEF Init, OwnershipInv, CredentialInv, OwnerInv, Live

\* A call is given a frame.
LEMMA CallIsFrame ==
  ASSUME NEW mode \in Modes, NEW e \in Executions, NEW act \in Acts \ {"none"}
  PROVE  Call(mode, e, act) \in Frames
  BY DEF Call, Frames, Places, Observations

\* An answer of the runtime is an observation, with the process it leaves.
LEMMA RepliesAreTyped ==
  ASSUME NEW act \in Acts \ {"none"}, NEW p \in Processes, NEW a \in Replies(act, p)
  PROVE  a[1] \in Observations /\ a[2] \in Processes
  <1>1. \A b \in Answers(act, p) : b[1] \in Observations /\ b[2] \in Processes
    <2>1. CASE act = "exec"
      BY <2>1, SMTT(30) DEF Answers, Observations, Processes
    <2>2. CASE act = "poll"
      BY <2>2, SMTT(30) DEF Answers, ExitStatus, Observations, Processes
    <2>3. CASE act = "write"
      BY <2>3, SMTT(30) DEF Answers, Observations, Processes
    <2>4. CASE act = "kill"
      BY <2>4, SMTT(30) DEF Answers, ExitStatus, Observations, Processes
    <2> QED BY <2>1, <2>2, <2>3, <2>4 DEF Acts
  <1> QED BY <1>1, SMTT(30) DEF Replies, Observations

\* A step of a call.
LEMMA StepKeepsOwnership ==
  ASSUME OwnershipInv, NEW t \in Threads, Step(t)
  PROVE  OwnershipInv'
  <1> USE DEF historyVars, worldVars, registryVars, clockVars
  <1>1. TypeInv /\ thread[t] \in Frames /\ mem \in [Executions -> Records]
    BY DEF OwnershipInv, TypeInv
  <1>0. thread[t].pc # "idle" /\ up
    BY DEF Step, RequestCancellation, RuntimeAnswers, BindRuntimeHandle, SettleAnswer,
           ClearCancellation, MarkTerminal, Finish, DropSignal, Answer, At, OwnershipInv,
           MemoryInv
  <1>3. ASSUME NEW pc \in {"marking", "finishing"}, NEW o, NEW a, Settle(t, pc, o, a),
               Settles(thread[t].mode, pc, o, a)
        PROVE  thread' \in [Threads -> Frames]
    BY <1>0, <1>1, <1>3, FramesStay DEF Settling
  <1>4. ASSUME Return(t) PROVE thread' \in [Threads -> Frames]
    BY <1>0, <1>1, <1>4, FramesStay
  <1> DEFINE x == thread[t].exec
  <1>6. CASE RequestCancellation(t)
    <2>1. Go(t, "calling") => thread' \in [Threads -> Frames]
      BY <1>1, <1>6, SMTT(30) DEF RequestCancellation, At, Go, TypeInv, Frames, Places
    <2> QED BY <1>0, <1>1, <1>4, <1>6, <2>1, QuietKeepsOwnership DEF RequestCancellation, TypeInv
  <1>7. CASE RuntimeAnswers(t)
    <2>1. PICK a \in IF runtime = "up" THEN Replies(thread[t].act, proc[x]) ELSE {<<"broken", proc[x]>>} :
         /\ proc' = [proc EXCEPT ![x] = a[2]]
         /\ thread' = [thread EXCEPT ![t].obs = a[1], ![t].pc =
                 IF thread[t].mode = "exec" /\ a[1] \in {"running", "completed", "failed"}
                 THEN "binding" ELSE "observed"]
      BY <1>7 DEF RuntimeAnswers
    <2>2. a[1] \in Observations /\ a[2] \in Processes
      <3>1. thread[t].act \in Acts \ {"none"} /\ proc[x] \in Processes
        BY <1>1, <1>7 DEF RuntimeAnswers, At, TypeInv, Frames
      <3> QED BY <2>1, <3>1, RepliesAreTyped, SMTT(30) DEF Observations
    <2>3. thread' \in [Threads -> Frames]
      <3> DEFINE pc == IF thread[t].mode = "exec" /\ a[1] \in {"running", "completed", "failed"}
                       THEN "binding" ELSE "observed"
                 f == [thread[t] EXCEPT !.obs = a[1], !.pc = pc]
      <3>1. pc \in {"binding", "observed"} /\ (pc = "binding" => thread[t].mode = "exec")
        OBVIOUS
      <3>2. thread' = [thread EXCEPT ![t] = f]
        BY <2>1
      <3> HIDE DEF pc
      <3>3. f \in Frames
        BY <1>0, <1>1, <2>2, <3>1 DEF Frames, Places
      <3> QED BY <1>1, <3>2, <3>3 DEF TypeInv
    <2>4. proc' \in [Executions -> Processes]
      BY <1>1, <2>1, <2>2 DEF TypeInv
    <2> QED BY <1>0, <1>7, <2>3, <2>4, QuietKeepsOwnership DEF RuntimeAnswers
  <1>8. CASE BindRuntimeHandle(t)
    <2> DEFINE m == [mem EXCEPT ![x].bound = TRUE]
    <2>1. m \in [Executions -> Records]
      BY <1>1 DEF Records
    <2>2. thread' \in [Threads -> Frames]
      <3>1. Settles(thread[t].mode, "marking", "lost", "none")
        BY <1>1, <1>8 DEF BindRuntimeHandle, At, Frames, Settles, Sound, Beside, Outcomes
      <3>2. Go(t, "observed") => thread' \in [Threads -> Frames]
        BY <1>0, <1>1, FramesStay
      <3> QED BY <1>3, <1>8, <3>1, <3>2 DEF BindRuntimeHandle
    <2>3. CASE Transact(m)
      <3>1. \A e \in Executions : m[e].state = mem[e].state /\ m[e].token = mem[e].token
                                  /\ m[e].owner = mem[e].owner /\ m[e].orphaned = mem[e].orphaned
        BY <1>1 DEF Records
      <3>2. UNCHANGED <<fresh, spent, session, stranded, up, proc>>
        BY <1>8 DEF BindRuntimeHandle
      <3>3. ASSUME NEW e \in Executions
            PROVE  CredentialInv(e, m[e], fresh, spent) /\ OwnerInv(e, m[e], session, stranded)
        BY <3>1, SMTT(30) DEF OwnershipInv, CredentialInv, OwnerInv, Live
      <3> HIDE DEF m
      <3> QED BY <1>0, <1>1, <2>1, <2>2, <2>3, <3>2, <3>3, TransactKeepsOwnership DEF TypeInv
    <2>4. CASE UNCHANGED registryVars
      BY <1>0, <1>1, <1>8, <2>2, <2>4, QuietKeepsOwnership DEF BindRuntimeHandle, TypeInv
    <2> QED BY <1>8, <2>3, <2>4 DEF BindRuntimeHandle, PersistFails
  <1>9. CASE SettleAnswer(t)
    BY <1>0, <1>1, <1>9, SettledFrames, QuietKeepsOwnership DEF SettleAnswer, TypeInv
  <1>10. CASE ClearCancellation(t)
    <2>1. thread[t].mode # "direct" /\ Go(t, "marking") => thread' \in [Threads -> Frames]
      <3> DEFINE f == [thread[t] EXCEPT !.pc = "marking"]
      <3>1. ASSUME thread[t].mode # "direct" PROVE f \in Frames
        BY <1>1, <1>10, <3>1 DEF ClearCancellation, At, Frames, Places, Outcomes, Sound, Beside
      <3> QED BY <1>1, <3>1 DEF TypeInv, Go
    <2> QED BY <1>0, <1>1, <1>4, <1>10, <2>1, QuietKeepsOwnership DEF ClearCancellation, TypeInv
  <1>11. CASE MarkTerminal(t)
    <2>1. thread' \in [Threads -> Frames]
      <3> DEFINE c == thread[t]
                 o == ObservedOutcome(x, c.out)
      <3>1. /\ c.out \in Outcomes /\ Sound(c.mode, c.out, c.ans) /\ c.mode \notin Beside
            /\ c.ans \in ExitSeen \cup {"record", "none"}
        BY <1>1, <1>11 DEF MarkTerminal, At, Frames
      <3>2. o \in {c.out, "cancelled"} /\ o \in Outcomes
        BY <3>1, OutcomesStay
      <3> HIDE DEF o
      <3>3. Settles(c.mode, "finishing", o, c.ans)
        BY <3>1, <3>2 DEF Settles, Sound, Beside
      <3> QED BY <1>3, <1>11, <3>3 DEF MarkTerminal, o
    <2> QED BY <1>0, <1>1, <1>11, <2>1, QuietKeepsOwnership DEF MarkTerminal, TypeInv
  <1>12. CASE Finish(t)
    <2> DEFINE m == [mem EXCEPT ![x] = Finished(mem[x], thread[t].out)]
    <2>1. thread' \in [Threads -> Frames]
      <3>1. thread[t].pc = "finishing"
        BY <1>12 DEF Finish, At
      <3>2. Go(t, "dropping") \/ (Go(t, "replying") /\ thread[t].ans # "none") =>
              thread' \in [Threads -> Frames]
        BY <1>0, <1>1, <3>1, FramesStay DEF At
      <3>3. CASE FinishFails(t)
        <4>1. thread[t].mode = "exec" => Settles(thread[t].mode, "marking", "lost", "none")
          BY DEF Settles, Sound, Beside, Outcomes
        <4> QED BY <1>3, <1>4, <3>3, <4>1 DEF FinishFails
      <3> QED BY <1>4, <1>12, <3>2, <3>3 DEF Finish, AlreadyTerminal
    <2>2. CASE Transact(m)
      <3>1. UNCHANGED <<fresh, spent, session, stranded, proc>> /\ up'
        BY <1>12 DEF Finish
      <3>2. thread[t].out \in Outcomes /\ \A e \in Executions : mem[e] \in Records
        BY <1>1, <1>12 DEF Finish, At, Frames
      <3>3. m \in [Executions -> Records]
        BY <1>1, <3>2 DEF Finished, Settled, Records
      <3>4. ASSUME NEW e \in Executions
            PROVE  CredentialInv(e, m[e], fresh, spent) /\ OwnerInv(e, m[e], session, stranded)
        <4>1. CASE m[e] = mem[e]
          BY <4>1 DEF OwnershipInv
        <4>2. CASE m[e] = Settled(mem[e], thread[t].out) /\ Live(mem[e])
          <5>1. m[e].state = thread[t].out /\ m[e].token = 0 /\ ~Live(m[e])
            <6>1. mem[e] \in Records /\ thread[t].out # "running"
              BY <3>2 DEF Outcomes
            <6> HIDE DEF m
            <6> QED BY <4>2, <6>1 DEF Settled, Records, Live
          <5>2. e \notin fresh
            BY <4>2 DEF OwnershipInv, CredentialInv, Live
          <5> HIDE DEF m
          <5> QED BY <5>1, <5>2, SMTT(30) DEF CredentialInv, OwnerInv
        <4> QED BY <1>1, <4>1, <4>2 DEF Finished
      <3> HIDE DEF m
      <3> QED BY <1>1, <2>1, <2>2, <3>1, <3>3, <3>4, TransactKeepsOwnership DEF TypeInv
    <2>3. CASE UNCHANGED registryVars
      BY <1>0, <1>1, <1>12, <2>1, <2>3, QuietKeepsOwnership DEF Finish, TypeInv
    <2> QED BY <1>12, <2>2, <2>3 DEF Finish, PersistFails
  <1>13. CASE DropSignal(t)
    BY <1>0, <1>1, <1>4, <1>13, FramesStay, QuietKeepsOwnership DEF DropSignal, TypeInv
  <1>14. CASE Answer(t)
    BY <1>0, <1>1, <1>4, <1>14, QuietKeepsOwnership DEF Answer, TypeInv
  <1> QED BY <1>6, <1>7, <1>8, <1>9, <1>10, <1>11, <1>12, <1>13, <1>14 DEF Step

\* A call begins.
LEMMA BeginKeepsOwnership ==
  ASSUME OwnershipInv, NEW t \in Threads, NEW e \in Executions, NEW mode \in Modes,
         NEW act \in Acts \ {"none"}, Begin(t, mode, e, act)
  PROVE  OwnershipInv'
  <1>1. thread' \in [Threads -> Frames]
    BY CallIsFrame DEF Begin, OwnershipInv, TypeInv
  <1> QED BY <1>1, QuietKeepsOwnership
          DEF Begin, OwnershipInv, TypeInv, registryVars, clockVars, historyVars

\* Every step keeps the invariant.
LEMMA NextOwnership == OwnershipInv /\ [Next]_vars => OwnershipInv'
  <1> SUFFICES ASSUME OwnershipInv, [Next]_vars PROVE OwnershipInv'
    OBVIOUS
  <1> USE DEF historyVars, worldVars, registryVars, clockVars
  <1>0. /\ TypeInv /\ MemoryInv /\ "facade" \in Threads /\ Controllers \subseteq Threads
        /\ thread \in [Threads -> Frames] /\ mem \in [Executions -> Records]
    BY DEF OwnershipInv, TypeInv, Threads
  <1>1. ASSUME NEW e \in Executions, NEW s \in Sessions, StartSession(e, s) PROVE OwnershipInv'
    <2> DEFINE m == [mem EXCEPT ![e] = NewRecord(s)]
    <2>1. m \in [Executions -> Records] /\ thread' \in [Threads -> Frames]
      BY <1>0, <1>1, NewRecordIsRecord, CallIsFrame DEF StartSession, TypeInv, Modes, Acts
    <2>2. ASSUME NEW d \in Executions
          PROVE  CredentialInv(d, m[d], fresh', spent') /\ OwnerInv(d, m[d], session', stranded')
      <3>1. CASE d = e
        <4>1. m[d] = NewRecord(s) /\ d \notin fresh' /\ \A k \in 1..MaxToken : <<d, k>> \notin spent'
          BY <1>0, <1>1, <3>1 DEF StartSession, OwnershipInv, CredentialInv
        <4>2. Calling(s) /\ UNCHANGED session /\ (session[s] = "gone" => d \in stranded')
          BY <1>1, <3>1 DEF StartSession
        <4> QED BY <4>1, <4>2, NewRecordIsRecord, IdentityAssumption, SMTT(30)
                DEF CredentialInv, OwnerInv, Live
      <3>2. CASE d # e
        BY <1>0, <1>1, <3>2 DEF StartSession, OwnershipInv, CredentialInv, OwnerInv
      <3> QED BY <3>1, <3>2
    <2>3. Transact(m) /\ up' /\ UNCHANGED <<proc, session, spent>>
      BY <1>1 DEF StartSession
    <2> HIDE DEF m
    <2> QED BY <1>0, <2>1, <2>2, <2>3, TransactKeepsOwnership DEF TypeInv
  <1>2. CASE Control
    <2> QED BY <1>0, <1>2, BeginKeepsOwnership, QuietKeepsOwnership DEF Control,
               BeginFacadeControl,
            BeginDirectControl, BeginTaskCancel, PollEnded, Modes, Acts, TypeInv
  <1>3. ASSUME NEW e \in Executions, BeginObserve(e) \/ ObserveRuntimeGone(e) PROVE OwnershipInv'
    <2>1. Call("observe", e, "poll") \in Frames
      BY CallIsFrame DEF Modes, Acts
    <2>3. [Call("observe", e, "poll") EXCEPT !.pc = "marking", !.out = "lost"] \in Frames
      <3> DEFINE f == [Call("observe", e, "poll") EXCEPT !.pc = "marking", !.out = "lost"]
      <3>1. f.pc = "marking" /\ f.mode = "observe" /\ f.exec = e /\ f.out = "lost" /\ f.ans = "none"
        BY DEF Call
      <3>3. f \in [pc : Places, mode : Modes, exec : Executions \cup {None}, act : Acts,
                  obs : Observations, out : Outcomes \cup {"none"},
                  ans : ExitSeen \cup {"record", "none"}]
        BY DEF Call, Places, Modes, Acts, Observations, Outcomes
      <3> HIDE DEF f
      <3>2. f \in Frames
        BY <3>1, <3>3 DEF Frames, Outcomes, Sound, Beside
      <3> QED BY <3>2 DEF f
    <2>2. thread' \in [Threads -> Frames]
      BY <1>0, <1>3, <2>1, <2>3 DEF BeginObserve, ObserveRuntimeGone
    <2> QED BY <1>0, <1>3, <2>2, QuietKeepsOwnership DEF BeginObserve, ObserveRuntimeGone, TypeInv
  <1>4. CASE ObserverFails \/ Crash
    BY <1>4, DownKeepsOwnership DEF ObserverFails, Crash
  <1>5. ASSUME NEW s \in Sessions, OpenSession(s) \/ CloseSession(s) PROVE OwnershipInv'
    <2>1. /\ UNCHANGED <<mem, disk, fresh, spent, stranded, up, thread, proc>>
          /\ session' \in [Sessions -> {"new", "open", "closing", "gone", "past"}]
          /\ \A q \in Sessions : session'[q] = "gone" => session[q] = "gone"
      BY <1>0, <1>5 DEF OpenSession, CloseSession, TypeInv
    <2>2. TypeInv' /\ MemoryInv'
      BY <1>0, <2>1 DEF TypeInv, MemoryInv
    <2>3. ASSUME NEW e \in Executions PROVE OwnerInv(e, mem[e], session', stranded)
      BY <1>0, <2>1 DEF OwnershipInv, OwnerInv, Records
    <2> QED BY <2>1, <2>2, <2>3 DEF OwnershipInv
  <1>6. ASSUME NEW s \in Sessions, OrphanOwnedBy(s) PROVE OwnershipInv'
    <2> DEFINE m == [e \in Executions |-> IF e \in Owned(mem, s) THEN Orphan(mem[e]) ELSE mem[e]]
    <2>0. /\ up /\ up' /\ UNCHANGED <<fresh, spent, thread, proc>>
          /\ session' = [session EXCEPT ![s] = "gone"]
          /\ session' \in [Sessions -> {"new", "open", "closing", "gone", "past"}]
      BY <1>0, <1>6 DEF OrphanOwnedBy, TypeInv
    <2>1. CASE Transact(m) /\ UNCHANGED stranded
      <3>1. m \in [Executions -> Records]
        BY <1>0 DEF Orphan, Records
      <3>2. ASSUME NEW e \in Executions
            PROVE  CredentialInv(e, m[e], fresh, spent) /\ OwnerInv(e, m[e], session', stranded)
        <4>1. CASE e \in Owned(mem, s)
          <5>1. /\ m[e].state = mem[e].state /\ m[e].token = mem[e].token
                /\ m[e].owner = None /\ m[e].orphaned
            BY <1>0, <4>1 DEF Orphan, Records
          <5> QED BY <5>1 DEF OwnershipInv, CredentialInv, OwnerInv, Live
        <4>2. CASE e \notin Owned(mem, s)
          BY <1>0, <2>0, <4>2 DEF OwnershipInv, OwnerInv, Owned, Records, TypeInv
        <4> QED BY <4>1, <4>2
      <3> HIDE DEF m
      <3> QED BY <1>0, <2>0, <2>1, <3>1, <3>2, TransactKeepsOwnership DEF TypeInv
    <2>2. CASE PersistFails(m) /\ stranded' = stranded \cup Owned(mem, s)
      <3>1. TypeInv' /\ MemoryInv'
        BY <1>0, <2>0, <2>2 DEF TypeInv, MemoryInv, PersistFails
      <3>2. ASSUME NEW e \in Executions PROVE OwnerInv(e, mem[e], session', stranded')
        BY <1>0, <2>0, <2>2 DEF OwnershipInv, OwnerInv, Owned, Records, TypeInv
      <3> QED BY <2>0, <2>2, <3>1, <3>2 DEF OwnershipInv, PersistFails
    <2> QED BY <1>6, <2>1, <2>2 DEF OrphanOwnedBy
  <1>7. ASSUME NEW s \in Sessions, NEW e \in Executions, NEW k \in 1..MaxToken, AdoptOwner(s, e, k)
        PROVE  OwnershipInv'
    <2> DEFINE m == [mem EXCEPT ![e].owner = s, ![e].token = Rotated(mem[e]), ![e].orphaned = FALSE]
               r == [mem[e] EXCEPT !.owner = s, !.token = mem[e].token + 1, !.orphaned = FALSE]
    <2>a. /\ r \in Records /\ r.state = mem[e].state
          /\ r.token = mem[e].token + 1 /\ r.owner = s
      <3>1. mem[e] \in Records
        BY <1>0
      <3>2. mem[e].token + 1 \in Nat
        BY <3>1, SMTT(30) DEF Records
      <3> DEFINE n == mem[e].token + 1
      <3> HIDE DEF n
      <3>3. r = [mem[e] EXCEPT !.owner = s, !.token = n, !.orphaned = FALSE]
        BY DEF n
      <3>4. n \in Nat
        BY <3>2 DEF n
      <3>5. r \in Records
        BY <3>1, <3>3, <3>4 DEF Records
      <3>6. r.state = mem[e].state /\ r.token = n /\ r.owner = s
        BY <3>1, <3>3 DEF Records
      <3> QED BY <3>5, <3>6 DEF n
    <2>b. m = [mem EXCEPT ![e] = r]
      BY <1>0 DEF Records, Rotated
    <2> HIDE DEF m, r
    <2>1. m \in [Executions -> Records]
      BY <1>0, <2>a, <2>b
    <2>2. /\ m[e].state = mem[e].state /\ m[e].token = mem[e].token + 1 /\ m[e].owner = s
          /\ \A d \in Executions : d # e => m[d] = mem[d]
      BY <1>0, <2>a, <2>b
    <2>3. /\ Transact(m) /\ up' /\ UNCHANGED <<fresh, session, thread, proc>>
          /\ spent' = spent \cup {<<e, k>>} /\ mem[e].token = k /\ Live(mem[e]) /\ Calling(s)
          /\ stranded' = IF session[s] = "gone" THEN stranded \cup {e} ELSE stranded
      BY <1>7 DEF AdoptOwner, m
    <2>4. spent' \subseteq Executions \X (1..MaxToken)
      BY <1>0, <2>3, SMTT(30) DEF TypeInv
    <2>5. ASSUME NEW d \in Executions
          PROVE  CredentialInv(d, m[d], fresh, spent') /\ OwnerInv(d, m[d], session, stranded')
      <3>1. CASE d = e
        <4>1. CredentialInv(e, mem[e], fresh, spent) /\ mem[e].token \in Nat /\ e \notin fresh
          BY <1>0, <2>3 DEF OwnershipInv, CredentialInv, Live, Records
        <4>2. CredentialInv(e, m[e], fresh, spent')
          BY <2>2, <2>3, <4>1, BoundsAssumption, SMTT(30) DEF CredentialInv, Live
        <4>3. OwnerInv(e, m[e], session, stranded')
          BY <2>2, <2>3, IdentityAssumption DEF OwnerInv
        <4> QED BY <3>1, <4>2, <4>3
      <3>2. CASE d # e
        BY <2>2, <2>3, <3>2 DEF OwnershipInv, CredentialInv, OwnerInv
      <3> QED BY <3>1, <3>2
    <2> QED BY <1>0, <2>1, <2>3, <2>4, <2>5, TransactKeepsOwnership DEF TypeInv
  <1>8. ASSUME NEW s \in Sessions, NEW k, TransferTask(s, k) PROVE OwnershipInv'
    <2> DEFINE of == {e \in Executions : TaskOf[e] = k /\ mem[e].state # "absent"}
               m == [e \in Executions |-> IF e \in of THEN [mem[e] EXCEPT !.owner = s, !.orphaned = FALSE]
                                          ELSE mem[e]]
    <2>1. m \in [Executions -> Records]
      BY <1>0 DEF Records
    <2>2. \A e \in Executions : /\ m[e].state = mem[e].state /\ m[e].token = mem[e].token
                                /\ e \in of => m[e].owner = s
                                /\ e \notin of => m[e] = mem[e]
      BY <1>0 DEF Records
    <2>3. /\ Transact(m) /\ up' /\ UNCHANGED <<fresh, spent, session, thread, proc>>
          /\ stranded' = IF session[s] = "gone" THEN stranded \cup of ELSE stranded
      BY <1>8 DEF TransferTask
    <2> HIDE DEF m, of
    <2>4. ASSUME NEW e \in Executions
          PROVE  CredentialInv(e, m[e], fresh, spent) /\ OwnerInv(e, m[e], session, stranded')
      <3>1. CredentialInv(e, m[e], fresh, spent)
        BY <2>2 DEF OwnershipInv, CredentialInv, Live
      <3>2. OwnerInv(e, m[e], session, stranded')
        BY <2>2, <2>3, IdentityAssumption, SMTT(30) DEF OwnershipInv, OwnerInv, Live
      <3> QED BY <3>1, <3>2
    <2> QED BY <1>0, <2>1, <2>3, <2>4, TransactKeepsOwnership DEF TypeInv
  <1>9. ASSUME NEW e \in Executions, Expire(e) \/ ProcessExits(e) PROVE OwnershipInv'
    BY <1>0, <1>9, QuietKeepsOwnership DEF Expire, ProcessExits, TypeInv, Processes
  <1>10. CASE ReapStale
    <2> DEFINE lost == {e \in Executions : Overdue(e)}
               m == [e \in Executions |-> IF e \in lost THEN Lost(mem[e]) ELSE mem[e]]
    <2>1. m \in [Executions -> Records]
      BY <1>0 DEF Records, Lost, Outcomes
    <2>2. ASSUME NEW e \in Executions
          PROVE  CredentialInv(e, m[e], fresh, spent) /\ OwnerInv(e, m[e], session, stranded)
      <3>1. CASE e \in lost
        <4>1. m[e].state = "lost" /\ m[e].token = 0 /\ e \notin fresh
          BY <1>0, <3>1 DEF Lost, Records, OwnershipInv, CredentialInv, Overdue, Live
        <4> QED BY <4>1, SMTT(30) DEF CredentialInv, OwnerInv, Live
      <3>2. CASE e \notin lost
        BY <3>2 DEF OwnershipInv
      <3> QED BY <3>1, <3>2
    <2>3. Transact(m) /\ up' /\ UNCHANGED <<fresh, spent, session, stranded, thread, proc>>
      BY <1>10 DEF ReapStale
    <2> HIDE DEF m
    <2> QED BY <1>0, <2>1, <2>2, <2>3, TransactKeepsOwnership DEF TypeInv
  <1>11. CASE ReapSignals
    BY <1>0, <1>11, QuietKeepsOwnership DEF ReapSignals, TypeInv
  <1>12. CASE RuntimeDies
    BY <1>0, <1>12, QuietKeepsOwnership DEF RuntimeDies, TypeInv, Processes
  <1>13. CASE Restart
    <2> DEFINE m == Recovered(disk)
    <2>1. m \in [Executions -> Records]
      BY <1>0 DEF TypeInv, Recovered, Records, Lost, Outcomes
    <2>2. ASSUME NEW e \in Executions
          PROVE  CredentialInv(e, m[e], fresh, spent) /\ OwnerInv(e, m[e], session, stranded)
      <3>1. CASE Live(disk[e])
        <4>1. m[e].state = "lost" /\ m[e].token = 0 /\ e \notin fresh
          BY <1>0, <3>1 DEF Recovered, Lost, Records, OwnershipInv, CredentialInv, Live, TypeInv
        <4> QED BY <4>1, SMTT(30) DEF CredentialInv, OwnerInv, Live
      <3>2. CASE ~Live(disk[e])
        BY <3>2 DEF Recovered, OwnershipInv, OwnerInv
      <3> QED BY <3>1, <3>2
    <2>3. Transact(m) /\ up' /\ UNCHANGED <<fresh, spent, session, stranded, thread, proc>>
      BY <1>13 DEF Restart
    <2> HIDE DEF m
    <2> QED BY <1>0, <2>1, <2>2, <2>3, TransactKeepsOwnership DEF TypeInv
  <1>14. CASE UNCHANGED vars
    BY <1>0, <1>14, QuietKeepsOwnership DEF vars, TypeInv
  <1> QED
    BY <1>1, <1>2, <1>3, <1>4, <1>5, <1>6, <1>7, <1>8, <1>9, <1>10, <1>11, <1>12, <1>13, <1>14,
       StepKeepsOwnership DEF Next

\* At every moment the credential of a command was never used to adopt it, and a
\* running command has an owner that is not gone or can be adopted
\* (adopt_owner, execution_registry.rs:315; orphan_owned_by, :591).
THEOREM OwnershipIsKept == Spec => []OwnershipHolds
  <1>1. OwnershipInv => OwnershipHolds
    <2> SUFFICES ASSUME OwnershipInv PROVE OwnershipHolds
      OBVIOUS
    <2>1. OwnedOrAdoptable
      BY DEF OwnershipInv, OwnerInv, OwnedOrAdoptable
    <2>2. ASSUME NEW e \in Executions, NEW r \in Records, CredentialInv(e, r, fresh, spent)
          PROVE  <<e, r.token>> \notin spent
      BY <2>2, BoundsAssumption, SMTT(30) DEF CredentialInv, OwnershipInv, TypeInv, Records
    <2>3. CredentialsAreOneTime
      BY <2>2 DEF CredentialsAreOneTime, OwnershipInv, TypeInv
    <2> QED BY <2>1, <2>3 DEF OwnershipHolds
  <1> QED BY <1>1, InitOwnership, NextOwnership, PTL DEF Spec
-----------------------------------------------------------------------------
(* Answers.  A direct call about to answer an outcome has it in the file *)
(* already.                                                               *)

Recorded(f) == f.mode = "direct" /\ f.ans # "record"
AnswerInv(t) ==
    /\ thread[t].pc # "idle" => thread[t].exec \notin fresh
    /\ thread[t].pc \in {"dropping", "replying"} /\ Recorded(thread[t]) =>
         \/ disk[thread[t].exec].state = "absent"
         \/ Public(disk[thread[t].exec].state) = Public(thread[t].out)
ToldInv(e) ==
    /\ told[e] \in {"none", "completed", "failed", "cancelled", "lost"}
    /\ told[e] # "none" =>
         /\ e \notin fresh
         /\ disk[e].state = "absent" \/ Public(disk[e].state) = told[e]
DurabilityInv ==
    /\ fresh \subseteq Executions /\ told \in [Executions -> {"none", "completed", "failed", "cancelled", "lost"}]
    /\ \A t \in Threads : AnswerInv(t)
    /\ \A e \in Executions : ToldInv(e)

\* What a step may do to the record of e: leave its state, start it, trim it when
\* it has ended, or end it: the reaper, the recovery or one call does.
Finishes(t, e) == At(t, "finishing") /\ thread[t].exec = e /\ Go(t, "dropping")
Moves(e) ==
    \/ e \in fresh /\ e \notin fresh'
    \/ disk'[e].state = disk[e].state /\ (Live(disk[e]) => up \/ ~up')
    \/ ~Live(disk[e]) /\ disk'[e].state = "absent"
    \/ Live(disk[e]) /\ (~up \/ e \in reaped') /\ disk'[e].state \in {"lost", "absent"}
    \/ /\ Live(disk[e])
       /\ \E t \in Threads : Finishes(t, e) /\ disk'[e].state \in {thread[t].out, "absent"}

\* Only the call that started a command binds it to its session of the runtime.
Binds(e) ==
    disk'[e].bound => disk[e].bound \/ \E t \in Threads : At(t, "binding") /\ thread[t].exec = e

\* The step leaves t's call as it is, or not about to answer.
Waits(t) ==
    \/ thread'[t] = thread[t]
    \/ /\ thread'[t].pc \notin {"dropping", "replying"}
       /\ thread'[t].pc # "idle" => thread'[t].exec \notin fresh'

\* An ended record stays as it is or is trimmed.
LEMMA EndedStays ==
  ASSUME NEW e, Moves(e), e \notin fresh, NEW o, o \in Outcomes \cup {"none"},
         disk[e].state = "absent" \/ Public(disk[e].state) = Public(o)
  PROVE  disk'[e].state = "absent" \/ Public(disk'[e].state) = Public(o)
  BY DEF Moves, Live, Public, Outcomes

\* While nobody comes to answer, and nobody is told anything, the answers hold.
LEMMA WaitingKeepsAnswers ==
  ASSUME DurabilityInv, fresh' \subseteq fresh, UNCHANGED told,
         \A e \in Executions : Moves(e), thread \in [Threads -> Frames],
         \A t \in Threads : Waits(t)
  PROVE  DurabilityInv'
  <1>1. ASSUME NEW e \in Executions PROVE ToldInv(e)'
    <2>1. told[e] = Public(told[e]) /\ told[e] \in Outcomes \cup {"none"}
      BY DEF DurabilityInv, ToldInv, Public, Outcomes
    <2> QED BY <2>1, EndedStays DEF DurabilityInv, ToldInv
  <1>2. ASSUME NEW t \in Threads PROVE AnswerInv(t)'
    <2>1. CASE thread'[t] = thread[t]
      <3>1. /\ thread[t].pc # "idle" => thread[t].exec \in Executions /\ thread[t].exec \notin fresh
            /\ thread[t].pc \in {"dropping", "replying"} => thread[t].out \in Outcomes
        BY DEF DurabilityInv, AnswerInv, Frames
      <3> QED BY <2>1, <3>1, EndedStays DEF DurabilityInv, AnswerInv, Recorded
    <2>2. CASE thread'[t] # thread[t]
      BY <2>2 DEF Waits, AnswerInv
    <2> QED BY <2>1, <2>2
  <1> QED BY <1>1, <1>2 DEF DurabilityInv

\* Every step moves the records so.
LEMMA RecordsMove ==
  ASSUME OwnershipInv, [Next]_vars, NEW e \in Executions
  PROVE  Moves(e) /\ Binds(e)
  <1> USE DEF historyVars, worldVars, registryVars, clockVars
  <1>0. /\ mem \in [Executions -> Records] /\ disk \in [Executions -> Records]
        /\ thread \in [Threads -> Frames] /\ (up => mem = disk)
        /\ \A t \in Threads : thread[t].pc # "idle" => up /\ thread[t].exec \in Executions
    BY DEF OwnershipInv, TypeInv, MemoryInv, Frames
  <1>1. ASSUME NEW m \in [Executions -> Records], Transact(m),
               \/ m[e].state = disk[e].state /\ (Live(disk[e]) => up)
               \/ e \in fresh /\ e \notin fresh'
               \/ Live(disk[e]) /\ (~up \/ e \in reaped') /\ m[e].state = "lost"
               \/ Live(disk[e]) /\ \E t \in Threads : Finishes(t, e) /\ m[e].state = thread[t].out,
               m[e].bound => disk[e].bound \/ \E t \in Threads : At(t, "binding") /\ thread[t].exec = e
        PROVE  Moves(e) /\ Binds(e)
    <2>1. disk'[e] = m[e] \/ (disk'[e] = Absent /\ Terminal(m[e]))
      BY <1>1, TransactWrites
    <2>2. Absent.state = "absent" /\ ~Absent.bound /\ ("running" \notin Outcomes)
      BY DEF Absent, Outcomes
    <2>3. Moves(e)
      BY <1>1, <2>1, <2>2 DEF Moves, Live, Terminal
    <2> QED BY <1>1, <2>1, <2>2, <2>3 DEF Binds
  <1>2. ASSUME NEW x \in Executions, NEW s \in Sessions, StartSession(x, s)
        PROVE  Moves(e) /\ Binds(e)
    <2> DEFINE m == [mem EXCEPT ![x] = NewRecord(s)]
    <2>1. m \in [Executions -> Records] /\ (e # x => m[e] = mem[e]) /\ (e = x => ~m[e].bound)
      BY <1>0, NewRecordIsRecord
    <2>2. up /\ Transact(m) /\ mem = disk /\ (e = x => e \in fresh /\ e \notin fresh')
      BY <1>0, <1>2 DEF StartSession
    <2> HIDE DEF m
    <2> QED BY <1>1, <2>1, <2>2
  <1>3. ASSUME NEW t \in Threads, BindRuntimeHandle(t) PROVE Moves(e) /\ Binds(e)
    <2> DEFINE m == [mem EXCEPT ![thread[t].exec].bound = TRUE]
    <2>1. /\ m \in [Executions -> Records] /\ m[e].state = mem[e].state /\ mem = disk /\ up
          /\ At(t, "binding") /\ (e # thread[t].exec => m[e] = mem[e])
      BY <1>0, <1>3 DEF Records, BindRuntimeHandle, At
    <2>2. Transact(m) \/ UNCHANGED registryVars
      BY <1>3 DEF BindRuntimeHandle, PersistFails
    <2> HIDE DEF m
    <2> QED BY <1>1, <2>1, <2>2 DEF Moves, Binds
  <1>4. ASSUME NEW t \in Threads, Finish(t) PROVE Moves(e) /\ Binds(e)
    <2> DEFINE q == mem[thread[t].exec]
               o == thread[t].out
               r == Finished(q, o)
               m == [mem EXCEPT ![thread[t].exec] = r]
    <2>1. q \in Records /\ o \in Outcomes /\ mem = disk /\ At(t, "finishing") /\ thread[t].exec \in Executions /\ up
      BY <1>0, <1>4 DEF Finish, At, Frames
    <2>2. r \in Records /\ (Live(q) => r.state = o /\ ~r.bound) /\ (~Live(q) => r = q)
      <3> HIDE DEF q, o
      <3> QED BY <2>1 DEF Finished, Settled, Records
    <2>3. (Transact(m) /\ Go(t, "dropping")) \/ UNCHANGED registryVars
      BY <1>4 DEF Finish, PersistFails
    <2>4. /\ m \in [Executions -> Records]
          /\ m[e] = mem[e] \/ (thread[t].exec = e /\ Live(mem[e]) /\ m[e].state = o /\ ~m[e].bound)
      <3> HIDE DEF r
      <3> QED BY <1>0, <2>1, <2>2
    <2> HIDE DEF m
    <2> QED BY <1>1, <2>1, <2>3, <2>4 DEF Moves, Binds, Finishes
  <1>5. ASSUME NEW s \in Sessions, OrphanOwnedBy(s) PROVE Moves(e) /\ Binds(e)
    <2> DEFINE m == [d \in Executions |-> IF d \in Owned(mem, s) THEN Orphan(mem[d]) ELSE mem[d]]
    <2>1. m \in [Executions -> Records] /\ m[e].state = mem[e].state /\ m[e].bound = mem[e].bound
      BY <1>0 DEF Orphan, Records
    <2>2. up /\ mem = disk /\ (Transact(m) \/ UNCHANGED registryVars)
      BY <1>0, <1>5 DEF OrphanOwnedBy, PersistFails
    <2> HIDE DEF m
    <2> QED BY <1>1, <2>1, <2>2 DEF Moves, Binds
  <1>6. ASSUME NEW s \in Sessions, NEW x \in Executions, NEW k \in 1..MaxToken, AdoptOwner(s, x, k)
        PROVE  Moves(e) /\ Binds(e)
    <2> DEFINE q == mem[x]
               r == [q EXCEPT !.owner = s, !.token = Rotated(q), !.orphaned = FALSE]
               m == [mem EXCEPT ![x] = r]
    <2>1. q \in Records /\ mem = disk /\ up
      BY <1>0, <1>6 DEF AdoptOwner
    <2>2. Rotated(q) \in Nat
      BY <2>1, SMTT(30) DEF Rotated, Records
    <2>3. r \in Records /\ r.state = q.state /\ r.bound = q.bound
      <3> HIDE DEF q
      <3> QED BY <2>1, <2>2 DEF Records
    <2>4. Transact(m)
      BY <1>0, <1>6 DEF AdoptOwner
    <2>5. m \in [Executions -> Records] /\ m[e].state = mem[e].state /\ m[e].bound = mem[e].bound
      <3> HIDE DEF r
      <3> QED BY <1>0, <2>3
    <2> HIDE DEF m
    <2> QED BY <1>1, <2>1, <2>4, <2>5
  <1>7. ASSUME NEW s \in Sessions, NEW k, TransferTask(s, k) PROVE Moves(e) /\ Binds(e)
    <2> DEFINE of == {d \in Executions : TaskOf[d] = k /\ mem[d].state # "absent"}
               m == [d \in Executions |-> IF d \in of THEN [mem[d] EXCEPT !.owner = s, !.orphaned = FALSE]
                                          ELSE mem[d]]
    <2>1. m \in [Executions -> Records] /\ m[e].state = mem[e].state /\ m[e].bound = mem[e].bound
      BY <1>0 DEF Records
    <2>2. up /\ mem = disk /\ Transact(m)
      BY <1>0, <1>7 DEF TransferTask
    <2> HIDE DEF m
    <2> QED BY <1>1, <2>1, <2>2
  <1>8. CASE ReapStale
    <2> DEFINE lost == {d \in Executions : Overdue(d)}
               m == [d \in Executions |-> IF d \in lost THEN Lost(mem[d]) ELSE mem[d]]
    <2>1. /\ m \in [Executions -> Records] /\ m[e].bound = mem[e].bound
          /\ m[e].state = mem[e].state \/ (Live(mem[e]) /\ e \in lost /\ m[e].state = "lost")
      <3>1. \A d \in lost : d \in Executions /\ Live(mem[d])
        BY DEF Overdue
      <3>2. \A r \in Records : Lost(r) \in Records /\ Lost(r).state = "lost" /\ Lost(r).bound = r.bound
        BY DEF Records, Lost, Outcomes
      <3> HIDE DEF lost
      <3> QED BY <1>0, <3>1, <3>2
    <2>2. up /\ mem = disk /\ Transact(m) /\ reaped' = lost
      BY <1>0, <1>8 DEF ReapStale
    <2> HIDE DEF m
    <2> QED BY <1>1, <2>1, <2>2
  <1>9. CASE Restart
    <2> DEFINE m == Recovered(disk)
    <2>1. /\ m \in [Executions -> Records] /\ m[e].bound = disk[e].bound
          /\ IF Live(disk[e]) THEN m[e].state = "lost" ELSE m[e].state = disk[e].state
      BY <1>0 DEF Recovered, Records, Lost, Outcomes
    <2>2. Transact(m) /\ ~up
      BY <1>9 DEF Restart
    <2> HIDE DEF m
    <2> QED BY <1>1, <2>1, <2>2
  <1>10. ASSUME UNCHANGED disk, up' = up \/ ~up' PROVE Moves(e) /\ Binds(e)
    BY <1>10, SMTT(30) DEF Moves, Binds
  <1>11. ASSUME NEW t \in Threads, Step(t) PROVE Moves(e) /\ Binds(e)
    BY <1>3, <1>4, <1>10, <1>11 DEF Step, RequestCancellation, RuntimeAnswers, SettleAnswer,
       ClearCancellation, MarkTerminal, DropSignal, Answer
  <1>12. CASE Control
    BY <1>10, <1>12 DEF Control, BeginFacadeControl, BeginDirectControl, BeginTaskCancel, Begin,
       PollEnded
  <1>13. ASSUME NEW x \in Executions, \/ BeginObserve(x) \/ ObserveRuntimeGone(x)
                                       \/ Expire(x) \/ ProcessExits(x)
         PROVE  Moves(e) /\ Binds(e)
    BY <1>10, <1>13 DEF BeginObserve, ObserveRuntimeGone, Expire, ProcessExits
  <1>14. ASSUME NEW s \in Sessions, OpenSession(s) \/ CloseSession(s) PROVE Moves(e) /\ Binds(e)
    BY <1>10, <1>14 DEF OpenSession, CloseSession
  <1>15. CASE ObserverFails \/ ReapSignals \/ RuntimeDies \/ Crash \/ UNCHANGED vars
    BY <1>10, <1>15 DEF ObserverFails, ReapSignals, RuntimeDies, Crash, Down, vars
  <1> QED
    BY <1>2, <1>5, <1>6, <1>7, <1>8, <1>9, <1>11, <1>12, <1>13, <1>14, <1>15 DEF Next

\* Where a call is after a step of its own.
LEMMA StepWaits ==
  ASSUME OwnershipInv, DurabilityInv, NEW t \in Threads, NEW u \in Threads,
         \/ RequestCancellation(t) \/ RuntimeAnswers(t) \/ BindRuntimeHandle(t)
         \/ SettleAnswer(t) \/ ClearCancellation(t) \/ MarkTerminal(t)
  PROVE  Waits(u)
  <1>0. /\ thread \in [Threads -> Frames] /\ thread[t].exec \notin fresh /\ thread[t].pc # "idle"
        /\ fresh' = fresh
    BY DEF OwnershipInv, TypeInv, DurabilityInv, AnswerInv, At, RequestCancellation,
       RuntimeAnswers,
       BindRuntimeHandle, SettleAnswer, ClearCancellation, MarkTerminal
  <1>1. ASSUME NEW pc \in Places \ {"dropping", "replying"}, Go(t, pc) PROVE Waits(u)
    BY <1>0, <1>1 DEF Waits, Go, Frames
  <1>2. ASSUME Return(t) PROVE Waits(u)
    BY <1>0, <1>2 DEF Waits, Return, Idle
  <1>3. ASSUME NEW pc \in Settling, NEW o, NEW a, Settle(t, pc, o, a) PROVE Waits(u)
    BY <1>0, <1>3 DEF Waits, Settle, Idle, Settling
  <1>4. {"calling", "observed", "marking", "withdrawing"} \subseteq Places \ {"dropping", "replying"}
    BY DEF Places
  <1>5. {"marking", "finishing", "withdrawing"} \subseteq Settling
    BY DEF Settling
  <1>6. CASE RequestCancellation(t)
    BY <1>1, <1>2, <1>4, <1>6 DEF RequestCancellation
  <1>7. CASE RuntimeAnswers(t)
    <2>1. PICK a : thread' = [thread EXCEPT ![t].obs = a[1], ![t].pc =
                                IF thread[t].mode = "exec" /\ a[1] \in {"running", "completed", "failed"}
                                THEN "binding" ELSE "observed"]
      BY <1>7 DEF RuntimeAnswers
    <2>2. thread'[t].pc \in {"binding", "observed"} /\ thread'[t].exec = thread[t].exec
      BY <1>0, <2>1 DEF Frames
    <2>3. u # t => thread'[u] = thread[u]
      BY <1>0, <2>1
    <2> QED BY <1>0, <2>2, <2>3 DEF Waits
  <1>8. CASE BindRuntimeHandle(t)
    BY <1>1, <1>3, <1>4, <1>5, <1>8 DEF BindRuntimeHandle
  <1>9. CASE SettleAnswer(t)
    BY <1>1, <1>2, <1>3, <1>4, <1>5, <1>9 DEF SettleAnswer, SettleDirect, SettleTask,
       SettleFacade,
       SettleControl
  <1>10. CASE ClearCancellation(t)
    BY <1>1, <1>2, <1>4, <1>10 DEF ClearCancellation
  <1>11. CASE MarkTerminal(t)
    BY <1>3, <1>5, <1>11 DEF MarkTerminal
  <1> QED BY <1>6, <1>7, <1>8, <1>9, <1>10, <1>11

\* A call that ends its command has put the outcome in the file, or will read it there.
LEMMA FinishKeepsAnswers ==
  ASSUME OwnershipInv, DurabilityInv, NEW t \in Threads, Finish(t), \A e \in Executions : Moves(e)
  PROVE  DurabilityInv'
  <1> DEFINE x == thread[t].exec
  <1>0. /\ thread \in [Threads -> Frames] /\ mem \in [Executions -> Records]
        /\ x \in Executions /\ x \notin fresh /\ thread[t].out \in Outcomes
        /\ up /\ mem = disk /\ fresh' = fresh /\ told' = told
    BY DEF OwnershipInv, TypeInv, MemoryInv, DurabilityInv, AnswerInv, Finish, At, Frames,
       historyVars
  <1>1. ASSUME \A u \in Threads : Waits(u) PROVE DurabilityInv'
    BY <1>0, <1>1, WaitingKeepsAnswers
  <1>2. CASE Return(t)
    BY <1>0, <1>1, <1>2 DEF Waits, Return, Idle
  <1>3. ASSUME NEW pc \in {"dropping", "replying"}, Go(t, pc),
               \/ ~Recorded(thread[t])
               \/ disk'[x].state = "absent"
               \/ Public(disk'[x].state) = Public(thread[t].out)
        PROVE  DurabilityInv'
    <2>1. /\ thread'[t].out = thread[t].out /\ thread'[t].exec = x
          /\ thread'[t].mode = thread[t].mode /\ thread'[t].ans = thread[t].ans
      BY <1>0, <1>3 DEF Go, Frames
    <2>2. AnswerInv(t)'
      BY <1>0, <1>3, <2>1 DEF AnswerInv, Recorded
    <2>3. ASSUME NEW u \in Threads, u # t PROVE AnswerInv(u)'
      <3>1. thread'[u] = thread[u]
        BY <1>0, <1>3, <2>3 DEF Go
      <3>2. /\ thread[u].pc # "idle" => thread[u].exec \in Executions /\ thread[u].exec \notin fresh
            /\ thread[u].pc \in {"dropping", "replying"} => thread[u].out \in Outcomes
        BY <1>0 DEF DurabilityInv, AnswerInv, Frames
      <3> QED BY <1>0, <3>1, <3>2, EndedStays DEF DurabilityInv, AnswerInv, Recorded
    <2>4. ASSUME NEW e \in Executions PROVE ToldInv(e)'
      <3>1. told[e] = Public(told[e]) /\ told[e] \in Outcomes \cup {"none"}
        BY DEF DurabilityInv, ToldInv, Public, Outcomes
      <3> QED BY <1>0, <3>1, EndedStays DEF DurabilityInv, ToldInv
    <2> QED BY <1>0, <2>2, <2>3, <2>4 DEF DurabilityInv
  <1>4. CASE /\ Live(mem[x]) \/ (Terminal(mem[x]) /\ Public(mem[x].state) = Public(thread[t].out))
             /\ Transact([mem EXCEPT ![x] = Finished(mem[x], thread[t].out)]) /\ Go(t, "dropping")
    <2> DEFINE q == mem[x]
               o == thread[t].out
               m == [mem EXCEPT ![x] = Finished(q, o)]
    <2>1. q \in Records /\ o \in Outcomes /\ (Live(q) \/ Public(q.state) = Public(o)) /\ Transact(m)
      BY <1>0, <1>4
    <2> HIDE DEF q, o
    <2>2. Finished(q, o) \in Records /\ Public(Finished(q, o).state) = Public(o)
      BY <2>1 DEF Finished, Settled, Records
    <2>3. m \in [Executions -> Records] /\ Public(m[x].state) = Public(o)
      BY <1>0, <2>2
    <2> HIDE DEF m
    <2>4. disk'[x].state = "absent" \/ Public(disk'[x].state) = Public(o)
      BY <1>0, <2>1, <2>3, TransactWrites, AbsentIsRecord
    <2> QED BY <1>3, <1>4, <2>4 DEF o
  <1>5. CASE ~Recorded(thread[t]) /\ Go(t, "replying")
    BY <1>3, <1>5
  <1>6. CASE Settle(t, "marking", "lost", "none")
    BY <1>0, <1>1, <1>6 DEF Waits, Settle, Idle
  <1> QED BY <1>2, <1>4, <1>5, <1>6 DEF Finish, FinishFails, AlreadyTerminal, Recorded

\* Initially nobody was told anything.
LEMMA InitDurability == Init => DurabilityInv
  <1> SUFFICES ASSUME Init PROVE DurabilityInv
    OBVIOUS
  <1>1. fresh \subseteq Executions
    BY BoundsAssumption DEF Init
  <1>2. \A t \in Threads : thread[t].pc = "idle"
    BY DEF Init, Idle
  <1> QED BY <1>1, <1>2 DEF Init, DurabilityInv, AnswerInv, ToldInv

\* Every step keeps what was answered.
LEMMA NextDurability == OwnershipInv /\ DurabilityInv /\ [Next]_vars => DurabilityInv'
  <1> SUFFICES ASSUME OwnershipInv, DurabilityInv, [Next]_vars PROVE DurabilityInv'
    OBVIOUS
  <1> USE DEF historyVars, worldVars, registryVars, clockVars
  <1>0. /\ mem \in [Executions -> Records] /\ thread \in [Threads -> Frames] /\ (up => mem = disk)
        /\ \A t \in Threads : thread[t].pc # "idle" => up /\ thread[t].exec \in Executions
    BY DEF OwnershipInv, TypeInv, MemoryInv, Frames
  <1>1. \A e \in Executions : Moves(e)
    BY RecordsMove
  <1>2. ASSUME fresh' \subseteq fresh, told' = told, \A u \in Threads : Waits(u) PROVE DurabilityInv'
    BY <1>0, <1>1, <1>2, WaitingKeepsAnswers
  <1>3. ASSUME fresh' = fresh, told' = told, thread' = thread PROVE DurabilityInv'
    BY <1>2, <1>3 DEF Waits
  <1>4. ASSUME NEW e \in Executions, Live(mem[e]) PROVE e \notin fresh
    BY <1>4 DEF OwnershipInv, CredentialInv, Live
  <1>5. ASSUME NEW e \in Executions, NEW t \in Threads, NEW f, f.exec = e, e \notin fresh',
               f.pc \in {"accepting", "calling", "marking"}, thread' = [thread EXCEPT ![t] = f],
               fresh' \subseteq fresh, told' = told
        PROVE  DurabilityInv'
    BY <1>0, <1>2, <1>5 DEF Waits
  <1>6. ASSUME NEW e \in Executions, NEW s \in Sessions, StartSession(e, s) PROVE DurabilityInv'
    <2>1. Call("exec", e, "exec").exec = e /\ Call("exec", e, "exec").pc = "calling"
      BY DEF Call
    <2> QED BY <1>5, <1>6, <2>1 DEF StartSession, Threads
  <1>7. ASSUME NEW e \in Executions, NEW t \in Threads, NEW mode, NEW act, Begin(t, mode, e, act)
        PROVE  DurabilityInv'
    <2>1. Call(mode, e, act).exec = e /\ Call(mode, e, act).pc \in {"accepting", "calling"}
      BY DEF Call
    <2> QED BY <1>4, <1>5, <1>7, <2>1 DEF Begin, Controllable
  <1>8. ASSUME NEW e \in Executions, NEW o \in Outcomes, e \notin fresh, fresh' = fresh,
               disk[e].state = "absent" \/ Public(disk[e].state) = Public(o), disk' = disk,
               told' = [told EXCEPT ![e] = Public(o)],
               thread' = thread \/ \E t \in Threads : Return(t)
        PROVE  DurabilityInv'
    <2>1. Public(o) \in {"completed", "failed", "cancelled", "lost"}
      BY DEF Public, Outcomes
    <2>2. ASSUME NEW d \in Executions PROVE ToldInv(d)'
      BY <1>8, <2>1 DEF ToldInv, DurabilityInv
    <2>3. ASSUME NEW u \in Threads PROVE AnswerInv(u)'
      <3>1. thread'[u] = thread[u] \/ thread'[u] = Idle
        BY <1>0, <1>8 DEF Return
      <3> QED BY <1>8, <3>1, SMTT(30) DEF AnswerInv, Recorded, DurabilityInv, Idle
    <2> QED BY <1>8, <2>1, <2>2, <2>3 DEF DurabilityInv
  <1>9. ASSUME NEW t \in Threads, NEW e \in Executions, PollEnded(t, e) PROVE DurabilityInv'
    <2>1. e \notin fresh /\ mem[e].state \in Outcomes /\ mem = disk
      BY <1>0, <1>9 DEF PollEnded, OwnershipInv, CredentialInv, Terminal, Outcomes
    <2> QED BY <1>8, <1>9, <2>1 DEF PollEnded
  <1>10. ASSUME NEW t \in Threads, Answer(t) PROVE DurabilityInv'
    <2> DEFINE e == thread[t].exec
               answer == thread[t].ans
               o == IF answer = "record" THEN mem[e].state ELSE answer
    <2>1. e \in Executions /\ e \notin fresh /\ mem = disk
      BY <1>0, <1>10 DEF Answer, At, DurabilityInv, AnswerInv
    <2>2. \A u \in Threads : thread'[u] = thread[u] \/ thread'[u] = Idle
      BY <1>0, <1>10 DEF Answer, Return
    <2>3. CASE UNCHANGED told
      BY <1>2, <1>10, <2>2, <2>3, SMTT(30) DEF Answer, Waits, Idle
    <2>4. CASE /\ answer = "record" \/ thread[t].mode = "direct"
               /\ o \in Outcomes /\ told' = [told EXCEPT ![e] = Public(o)]
      <3>1. disk[e].state = "absent" \/ Public(disk[e].state) = Public(o)
        <4>1. CASE answer = "record"
          BY <2>1, <4>1
        <4>2. CASE answer # "record"
          BY <1>0, <1>10, <2>4, <4>2 DEF Answer, At, DurabilityInv, AnswerInv, Recorded, Frames,
             Sound
        <4> QED BY <4>1, <4>2
      <3>2. fresh' = fresh /\ disk' = disk /\ Return(t)
        BY <1>10 DEF Answer
      <3> HIDE DEF o
      <3> QED BY <1>8, <2>1, <2>4, <3>1, <3>2
    <2> QED BY <1>10, <2>3, <2>4 DEF Answer
  <1>11. ASSUME NEW t \in Threads, DropSignal(t) PROVE DurabilityInv'
    <2>1. CASE Return(t)
      <3>1. \A u \in Threads : thread'[u] = thread[u] \/ thread'[u] = Idle
        BY <1>0, <2>1 DEF Return
      <3> QED BY <1>2, <1>11, <3>1, SMTT(30) DEF DropSignal, Waits, Idle
    <2>2. CASE Go(t, "replying")
      <3>1. /\ thread'[t].out = thread[t].out /\ thread'[t].exec = thread[t].exec
            /\ thread'[t].mode = thread[t].mode /\ thread'[t].ans = thread[t].ans
            /\ thread[t].pc = "dropping"
            /\ \A u \in Threads : u # t => thread'[u] = thread[u]
        BY <1>0, <1>11, <2>2 DEF Go, Frames, DropSignal, At
      <3>2. fresh' = fresh /\ told' = told /\ disk' = disk
        BY <1>11 DEF DropSignal
      <3>3. \A u \in Threads : AnswerInv(u)'
        BY <3>1, <3>2 DEF DurabilityInv, AnswerInv, Recorded
      <3> QED BY <3>2, <3>3 DEF DurabilityInv, ToldInv
    <2> QED BY <1>11, <2>1, <2>2 DEF DropSignal
  <1>12. ASSUME NEW t \in Threads, Step(t) PROVE DurabilityInv'
    <2>1. CASE \/ RequestCancellation(t) \/ RuntimeAnswers(t) \/ BindRuntimeHandle(t)
               \/ SettleAnswer(t) \/ ClearCancellation(t) \/ MarkTerminal(t)
      <3>1. \A u \in Threads : Waits(u)
        BY <2>1, StepWaits
      <3>2. fresh' = fresh /\ told' = told
        BY <2>1 DEF RequestCancellation, RuntimeAnswers, BindRuntimeHandle, SettleAnswer,
           ClearCancellation, MarkTerminal
      <3> QED BY <1>2, <3>1, <3>2
    <2> QED BY <1>1, <1>10, <1>11, <1>12, <2>1, FinishKeepsAnswers DEF Step
  <1>13. CASE Control
    BY <1>7, <1>9, <1>13 DEF Control, BeginFacadeControl, BeginDirectControl, BeginTaskCancel,
       Threads
  <1>14. ASSUME NEW e \in Executions, BeginObserve(e) PROVE DurabilityInv'
    <2>1. Call("observe", e, "poll").exec = e /\ Call("observe", e, "poll").pc = "calling"
      BY DEF Call
    <2> QED BY <1>4, <1>5, <1>14, <2>1 DEF BeginObserve, Threads
  <1>15. ASSUME NEW e \in Executions, ObserveRuntimeGone(e) PROVE DurabilityInv'
    <2> DEFINE f == [Call("observe", e, "poll") EXCEPT !.pc = "marking", !.out = "lost"]
    <2>1. f.exec = e /\ f.pc = "marking"
      BY DEF Call
    <2>2. thread' = [thread EXCEPT !["facade"] = f]
      BY <1>15 DEF ObserveRuntimeGone
    <2> HIDE DEF f
    <2> QED BY <1>4, <1>5, <1>15, <2>1, <2>2 DEF ObserveRuntimeGone, Threads
  <1>16. CASE Down
    BY <1>2, <1>16 DEF Down, Waits, Idle
  <1>17. ASSUME NEW s \in Sessions, OpenSession(s) \/ CloseSession(s) \/ OrphanOwnedBy(s)
         PROVE  DurabilityInv'
    BY <1>3, <1>17 DEF OpenSession, CloseSession, OrphanOwnedBy
  <1>18. ASSUME NEW s \in Sessions, NEW e \in Executions, NEW k,
                AdoptOwner(s, e, k) \/ TransferTask(s, k)
         PROVE  DurabilityInv'
    BY <1>3, <1>18 DEF AdoptOwner, TransferTask
  <1>19. ASSUME NEW e \in Executions, Expire(e) \/ ProcessExits(e) PROVE DurabilityInv'
    BY <1>3, <1>19 DEF Expire, ProcessExits
  <1>20. CASE ReapStale \/ ReapSignals \/ RuntimeDies \/ Restart \/ UNCHANGED vars
    BY <1>3, <1>20 DEF ReapStale, ReapSignals, RuntimeDies, Restart, vars
  <1> QED
    BY <1>6, <1>12, <1>13, <1>14, <1>15, <1>16, <1>17, <1>18, <1>19, <1>20
    DEF Next, ObserverFails, Crash
-----------------------------------------------------------------------------
(* Calls.  What a call has seen of the process stays true of it: a call that *)
(* starts a command is alone with it until the runtime answers.              *)

Own == {"completed", "failed"}
Ended == {"exit_ok", "exit_bad", "gone"}

\* A call that saw the command exit by itself, or will record so.
Claims(f) ==
    \/ f.pc \in {"binding", "observed"} /\ f.obs \in Own
    \/ f.pc \in {"marking", "finishing"} /\ f.out \in Own
Shape(f) ==
    /\ f.act = "exec" => f.mode = "exec"
    /\ f.pc = "binding" => f.mode = "exec"
    /\ f.pc = "accepting" => f.mode # "exec"
    /\ "protocol" \notin faults =>
         /\ f.obs \notin {"invalid", "upstream"}
         /\ f.pc = "withdrawing" => f.mode # "direct"
Alone(t) ==
    thread[t].pc = "calling" /\ thread[t].mode = "exec" =>
      /\ ~mem[thread[t].exec].bound
      /\ \A u \in Threads \ {t} : thread[u].pc # "idle" => thread[u].exec # thread[t].exec
CallInv(t) ==
    /\ Shape(thread[t]) /\ Alone(t)
    /\ thread[t].mode = "exec" => t = "facade"
    /\ Claims(thread[t]) => proc[thread[t].exec] \in Ended
CallsInv == \A t \in Threads : CallInv(t)

\* The step does not bring t to a command that is being started.
Joins(t) ==
    \/ t = "facade" \/ thread'[t].pc = "idle"
    \/ thread[t].pc # "idle" /\ thread'[t].exec = thread[t].exec
    \/ mem[thread'[t].exec].bound

\* A call that does not move keeps its invariant.
LEMMA CallsStay ==
  ASSUME OwnershipInv, OwnershipInv', CallsInv, NEW u \in Threads, thread'[u] = thread[u],
         faults' = faults, \A e \in Executions : Binds(e), \A t \in Threads : Joins(t),
         thread[u].pc # "idle" /\ proc[thread[u].exec] \in Ended => proc'[thread[u].exec] \in Ended
  PROVE  CallInv(u)'
  <1> DEFINE x == thread[u].exec
  <1>0. /\ thread \in [Threads -> Frames] /\ CallInv(u)
        /\ thread[u].pc # "idle" => x \in Executions /\ mem[x] = disk[x]
    BY DEF OwnershipInv, TypeInv, MemoryInv, CallsInv, Frames
  <1>1. Shape(thread[u])'
    BY <1>0 DEF CallInv, Shape
  <1>2. Claims(thread[u])' => proc'[x] \in Ended
    BY <1>0 DEF CallInv, Claims
  <1>3. Alone(u)'
    <2> SUFFICES ASSUME thread[u].pc = "calling", thread[u].mode = "exec"
                 PROVE  /\ ~mem'[x].bound
                        /\ \A t \in Threads \ {u} : thread'[t].pc # "idle" => thread'[t].exec # x
      BY DEF Alone
    <2>1. /\ u = "facade" /\ ~mem[x].bound /\ x \in Executions /\ ~disk[x].bound
          /\ \A t \in Threads \ {u} : thread[t].pc # "idle" => thread[t].exec # x
      BY <1>0 DEF CallInv, Alone
    <2>2. ~disk'[x].bound
      <3>1. ASSUME NEW t \in Threads, At(t, "binding") PROVE FALSE
        BY <2>1, <3>1 DEF CallsInv, CallInv, Shape, At
      <3> QED BY <2>1, <3>1 DEF Binds
    <2>3. ~mem'[x].bound
      <3>1. mem'[x] = disk'[x] \/ mem'[x] = Absent
        BY <2>1 DEF OwnershipInv, MemoryInv, TypeInv
      <3> QED BY <2>2, <3>1, SMTT(30) DEF Absent
    <2> QED BY <2>1, <2>3 DEF Joins
  <1> QED BY <1>0, <1>1, <1>2, <1>3 DEF CallInv

\* The same of all calls, when none moves.
LEMMA QuietCalls ==
  ASSUME OwnershipInv, OwnershipInv', CallsInv, thread' = thread, faults' = faults,
         \A e \in Executions : Binds(e) /\ (proc[e] \in Ended => proc'[e] \in Ended)
  PROVE  CallsInv'
  <1>1. \A t \in Threads : Joins(t)
    BY DEF Joins
  <1>2. ASSUME NEW u \in Threads PROVE CallInv(u)'
    <2>1. thread[u].pc # "idle" => thread[u].exec \in Executions
      BY DEF OwnershipInv, TypeInv, Frames
    <2> QED BY <1>1, <2>1, CallsStay
  <1> QED BY <1>2 DEF CallsInv

\* One call moves, and no process is changed.
LEMMA OneCallMoves ==
  ASSUME OwnershipInv, OwnershipInv', CallsInv, faults' = faults, proc' = proc,
         NEW t \in Threads, NEW f, thread' = [thread EXCEPT ![t] = f],
         \A e \in Executions : Binds(e), Joins(t),
         Shape(f), f.pc = "calling" => f.mode # "exec", f.mode = "exec" => t = "facade",
         Claims(f) => proc[f.exec] \in Ended
  PROVE  CallsInv'
  <1>0. thread'[t] = f /\ \A u \in Threads : u # t => thread'[u] = thread[u]
    BY DEF OwnershipInv, TypeInv
  <1>1. \A u \in Threads : Joins(u)
    BY <1>0 DEF Joins
  <1>2. ASSUME NEW u \in Threads, u # t PROVE CallInv(u)'
    BY <1>0, <1>1, <1>2, CallsStay
  <1>3. Shape(f)'
    BY DEF Shape
  <1>4. CallInv(t)'
    BY <1>0, <1>3 DEF CallInv, Alone, Shape, Claims
  <1> QED BY <1>2, <1>4 DEF CallsInv

\* An answer that says the command exited by itself leaves no process running,
\* and only starting a command brings a process to life.
LEMMA RepliesAreSeen ==
  ASSUME NEW act \in Acts \ {"none"}, NEW p \in Processes, NEW a \in Replies(act, p)
  PROVE  /\ a[1] \in Own => a[2] \in Ended
         /\ act # "exec" /\ p \in Ended => a[2] \in Ended
         /\ "protocol" \notin faults => a[1] \notin {"invalid", "upstream"}
  <1>1. \A b \in Answers(act, p) : b[1] \in Own => b[2] \in Ended
    <2>1. CASE act = "exec"
      BY <2>1, SMTT(30) DEF Answers, Own, Ended
    <2>2. CASE act = "poll"
      BY <2>2, SMTT(30) DEF Answers, ExitStatus, Own, Ended, Processes
    <2>3. CASE act = "write"
      BY <2>3, SMTT(30) DEF Answers, Own, Ended, Processes
    <2>4. CASE act = "kill"
      BY <2>4, SMTT(30) DEF Answers, ExitStatus, Own, Ended, Processes
    <2> QED BY <2>1, <2>2, <2>3, <2>4 DEF Acts
  <1>2. \A b \in Answers(act, p) : act # "exec" /\ p \in Ended => b[2] \in Ended
    <2>1. CASE act = "poll"
      BY <2>1, SMTT(30) DEF Answers, ExitStatus, Own, Ended, Processes
    <2>2. CASE act = "write"
      BY <2>2, SMTT(30) DEF Answers, Own, Ended, Processes
    <2>3. CASE act = "kill"
      BY <2>3, SMTT(30) DEF Answers, ExitStatus, Own, Ended, Processes
    <2> QED BY <2>1, <2>2, <2>3 DEF Acts
  <1>3. \A b \in Answers(act, p) : b[1] \notin {"invalid", "upstream"}
    <2>1. CASE act = "exec"
      BY <2>1, SMTT(30) DEF Answers
    <2>2. CASE act = "poll"
      BY <2>2, SMTT(30) DEF Answers, ExitStatus, Processes
    <2>3. CASE act = "write"
      BY <2>3, SMTT(30) DEF Answers, Processes
    <2>4. CASE act = "kill"
      BY <2>4, SMTT(30) DEF Answers, ExitStatus, Processes
    <2> QED BY <2>1, <2>2, <2>3, <2>4 DEF Acts
  <1>4. a[1] \in Own => a[2] \in Ended
    BY <1>1, SMTT(30) DEF Replies, Own
  <1>5. act # "exec" /\ p \in Ended => a[2] \in Ended
    BY <1>2, SMTT(30) DEF Replies
  <1>6. "protocol" \notin faults => a[1] \notin {"invalid", "upstream"}
    BY <1>3, SMTT(30) DEF Replies
  <1> QED BY <1>4, <1>5, <1>6

\* The runtime's answer to a call.
LEMMA AnsweredCalls ==
  ASSUME OwnershipInv, OwnershipInv', CallsInv, \A e \in Executions : Binds(e),
         NEW t \in Threads, RuntimeAnswers(t)
  PROVE  CallsInv'
  <1> DEFINE x == thread[t].exec
             c == thread[t]
  <1>0. /\ thread \in [Threads -> Frames] /\ proc \in [Executions -> Processes] /\ CallInv(t)
        /\ c \in Frames /\ x \in Executions /\ c.act \in Acts \ {"none"} /\ c.pc = "calling" /\ faults' = faults
    BY DEF OwnershipInv, TypeInv, CallsInv, Frames, RuntimeAnswers, At, worldVars
  <1>1. PICK a \in IF runtime = "up" THEN Replies(c.act, proc[x]) ELSE {<<"broken", proc[x]>>} :
           /\ proc' = [proc EXCEPT ![x] = a[2]]
           /\ thread' = [thread EXCEPT ![t].obs = a[1], ![t].pc =
                 IF c.mode = "exec" /\ a[1] \in {"running", "completed", "failed"}
                 THEN "binding" ELSE "observed"]
    BY DEF RuntimeAnswers
  <1>2. /\ a[1] \in Own => a[2] \in Ended
        /\ c.act # "exec" /\ proc[x] \in Ended => a[2] \in Ended
        /\ "protocol" \notin faults => a[1] \notin {"invalid", "upstream"}
    <2>1. CASE runtime = "up"
      BY <1>0, <1>1, <2>1, RepliesAreSeen
    <2>2. CASE runtime # "up"
      BY <1>1, <2>2, SMTT(30) DEF Own
    <2> QED BY <2>1, <2>2
  <1>3. /\ thread'[t].obs = a[1] /\ thread'[t].exec = x /\ thread'[t].mode = c.mode /\ thread'[t].act = c.act
        /\ thread'[t].pc \in {"binding", "observed"} /\ (thread'[t].pc = "binding" => c.mode = "exec")
        /\ \A u \in Threads : u # t => thread'[u] = thread[u]
    BY <1>0, <1>1 DEF Frames
  <1>4. proc'[x] = a[2] /\ \A e \in Executions : e # x => proc'[e] = proc[e]
    BY <1>0, <1>1
  <1>5. \A u \in Threads : Joins(u)
    BY <1>0, <1>3 DEF Joins
  <1>6. ASSUME NEW u \in Threads, u # t PROVE CallInv(u)'
    <2>1. ASSUME thread[u].pc # "idle", proc[thread[u].exec] \in Ended
          PROVE  proc'[thread[u].exec] \in Ended
      <3>1. thread[u].exec \in Executions
        BY <1>0, <2>1 DEF Frames
      <3>2. thread[u].exec = x => c.act # "exec"
        BY <1>0, <1>6, <2>1 DEF CallInv, Alone, Shape
      <3> QED BY <1>2, <1>4, <2>1, <3>1, <3>2
    <2> QED BY <1>0, <1>3, <1>5, <1>6, <2>1, CallsStay
  <1>7. CallInv(t)'
    <2>1. Shape(thread[t])'
      BY <1>0, <1>2, <1>3 DEF CallInv, Shape
    <2>2. Claims(thread[t])' => proc'[x] \in Ended
      BY <1>2, <1>3, <1>4 DEF Claims
    <2>3. Alone(t)'
      BY <1>3 DEF Alone
    <2> QED BY <1>0, <1>3, <2>1, <2>2, <2>3 DEF CallInv
  <1> QED BY <1>6, <1>7 DEF CallsInv

\* The other steps of a call.
LEMMA StepKeepsCalls ==
  ASSUME OwnershipInv, OwnershipInv', CallsInv, \A e \in Executions : Binds(e),
         NEW t \in Threads, Step(t)
  PROVE  CallsInv'
  <1> USE DEF historyVars, worldVars, registryVars, clockVars
  <1> DEFINE c == thread[t]
             x == thread[t].exec
  <1>0. /\ thread \in [Threads -> Frames] /\ c \in Frames /\ CallInv(t) /\ faults' = faults
        /\ c.pc # "idle" /\ x \in Executions
    BY DEF OwnershipInv, TypeInv, CallsInv, Frames, Step, At, RequestCancellation, RuntimeAnswers,
       BindRuntimeHandle, SettleAnswer, ClearCancellation, MarkTerminal, Finish, DropSignal,
       Answer
  <1>1. ASSUME Return(t), proc' = proc PROVE CallsInv'
    <2>1. Shape(Idle) /\ ~Claims(Idle) /\ Idle.pc = "idle" /\ Idle.mode = "none"
      BY DEF Shape, Claims, Idle
    <2>2. Joins(t)
      BY <1>0, <1>1, <2>1 DEF Joins, Return
    <2> QED BY <1>0, <1>1, <2>1, <2>2, OneCallMoves DEF Return
  <1>2. ASSUME NEW pc \in Places, Go(t, pc), proc' = proc, pc \notin {"accepting", "binding"},
               pc = "calling" => c.mode # "exec",
               pc = "withdrawing" => c.mode # "direct" \/ "protocol" \in faults,
               pc = "observed" => c.pc = "binding",
               pc \in {"marking", "finishing"} => c.out \notin Own
        PROVE  CallsInv'
    <2> DEFINE f == [c EXCEPT !.pc = pc]
    <2>1. f.pc = pc /\ f.mode = c.mode /\ f.act = c.act /\ f.obs = c.obs /\ f.out = c.out /\ f.exec = x
      BY <1>0 DEF Frames
    <2>2. thread' = [thread EXCEPT ![t] = f] /\ thread'[t] = f
      BY <1>0, <1>2 DEF Go
    <2> HIDE DEF f
    <2>3. Shape(f) /\ (f.mode = "exec" => t = "facade")
      BY <1>0, <1>2, <2>1 DEF Shape, CallInv
    <2>4. Claims(f) => proc[f.exec] \in Ended
      BY <1>0, <1>2, <2>1 DEF Claims, CallInv
    <2>5. Joins(t)
      BY <1>0, <2>1, <2>2 DEF Joins
    <2> QED BY <1>0, <1>2, <2>1, <2>2, <2>3, <2>4, <2>5, OneCallMoves
  <1>3. ASSUME NEW pc \in Settling, NEW o, NEW a, Settle(t, pc, o, a), proc' = proc,
               o \in Own => proc[x] \in Ended, pc = "withdrawing" => c.mode # "direct"
        PROVE  CallsInv'
    <2> DEFINE f == [Idle EXCEPT !.pc = pc, !.out = o, !.ans = a, !.mode = c.mode, !.exec = x]
    <2>1. f.pc = pc /\ f.mode = c.mode /\ f.act = "none" /\ f.obs = "none" /\ f.out = o /\ f.exec = x
      BY DEF Idle
    <2>2. thread' = [thread EXCEPT ![t] = f] /\ thread'[t] = f
      BY <1>0, <1>3 DEF Settle
    <2>3. pc \in {"marking", "finishing", "withdrawing"}
      BY <1>3 DEF Settling
    <2> HIDE DEF f
    <2>4. Shape(f) /\ (f.mode = "exec" => t = "facade")
      BY <1>0, <1>3, <2>1, <2>3 DEF Shape, CallInv
    <2>5. Claims(f) => proc[f.exec] \in Ended
      BY <1>3, <2>1, <2>3 DEF Claims
    <2>6. Joins(t)
      BY <1>0, <2>1, <2>2 DEF Joins
    <2> QED BY <1>0, <1>3, <2>1, <2>2, <2>3, <2>4, <2>5, <2>6, OneCallMoves
  <1>4. CASE RequestCancellation(t)
    <2>1. c.mode # "exec" /\ "calling" \in Places /\ proc' = proc
      BY <1>0, <1>4 DEF RequestCancellation, At, CallInv, Shape, Places
    <2> QED BY <1>1, <1>2, <1>4, <2>1 DEF RequestCancellation
  <1>5. CASE BindRuntimeHandle(t)
    <2>1. "observed" \in Places /\ "marking" \in Settling /\ "lost" \notin Own /\ c.pc = "binding"
      BY <1>5 DEF Places, Settling, Own, BindRuntimeHandle, At
    <2> QED BY <1>2, <1>3, <1>5, <2>1 DEF BindRuntimeHandle
  <1>6. CASE SettleAnswer(t)
    <2>0. proc' = proc /\ c.pc = "observed"
      BY <1>6 DEF SettleAnswer, At
    <2>1. /\ proc' = proc /\ (c.obs \in Own => proc[x] \in Ended)
          /\ "protocol" \notin faults => c.obs \notin {"invalid", "upstream"}
      BY <1>0, <2>0 DEF CallInv, Claims, Shape
    <2>2. /\ \A o : ObservedOutcome(x, o) \in Own => o \in Own
          /\ \A o : \A status \in Statuses(x, o) : status \in Own => o \in Own
      BY DEF ObservedOutcome, Statuses, Own
    <2>3. /\ {"marking", "finishing", "withdrawing"} \subseteq Settling /\ "withdrawing" \in Places
          /\ \A code : ErrorOutcome(code) \notin Own
          /\ "cancelled" \notin Own
      BY DEF Settling, Places, Own, ErrorOutcome
    <2>4. CASE c.mode = "direct"
      BY <1>1, <1>2, <1>3, <1>6, <2>1, <2>2, <2>3, <2>4 DEF SettleAnswer, SettleDirect
    <2>5. CASE c.mode = "task"
      BY <1>1, <1>3, <1>6, <2>1, <2>3, <2>5 DEF SettleAnswer, SettleTask
    <2>6. CASE c.mode \notin {"direct", "task"}
      <3>1. SettleFacade(t, x, c.obs, c.mode, c.act)
        BY <1>6, <2>6 DEF SettleAnswer
      <3>2. ASSUME NEW code, c.mode = "control", Settle(t, IF c.act = "kill" THEN "withdrawing" ELSE "marking",
                                                     ErrorOutcome(code), "none")
            PROVE  CallsInv'
        BY <1>3, <2>1, <2>3, <3>2
      <3> QED BY <1>1, <1>3, <2>1, <2>2, <2>3, <2>6, <3>1, <3>2 DEF SettleFacade, SettleControl
    <2> QED BY <2>4, <2>5, <2>6
  <1>7. CASE ClearCancellation(t)
    <2>1. /\ "marking" \in Places /\ proc' = proc
          /\ c.mode # "direct" => c.out \notin Own
      BY <1>0, <1>7 DEF ClearCancellation, At, Frames, Own, Places
    <2> QED BY <1>1, <1>2, <1>7, <2>1 DEF ClearCancellation
  <1>8. CASE MarkTerminal(t)
    <2>1. /\ "finishing" \in Settling /\ proc' = proc
          /\ ObservedOutcome(x, c.out) \in Own => proc[x] \in Ended
      BY <1>0, <1>8 DEF MarkTerminal, At, CallInv, Claims, ObservedOutcome, Own, Settling
    <2> QED BY <1>3, <1>8, <2>1 DEF MarkTerminal
  <1>9. CASE Finish(t) \/ DropSignal(t) \/ Answer(t)
    <2>1. /\ "dropping" \in Places /\ "replying" \in Places /\ proc' = proc
          /\ "marking" \in Settling /\ "lost" \notin Own
      BY <1>9 DEF Places, Finish, DropSignal, Answer, Settling, Own
    <2> QED BY <1>1, <1>2, <1>3, <1>9, <2>1 DEF Finish, FinishFails, AlreadyTerminal, DropSignal,
               Answer
  <1> QED BY <1>4, <1>5, <1>6, <1>7, <1>8, <1>9, AnsweredCalls DEF Step

\* Initially nobody is in a call.
LEMMA InitCalls == Init => CallsInv
  <1> SUFFICES ASSUME Init, NEW t \in Threads PROVE CallInv(t)
    BY DEF CallsInv
  <1>1. thread[t] = Idle
    BY DEF Init
  <1> QED BY <1>1, SMTT(30) DEF CallInv, Shape, Alone, Claims, Idle

\* Every step keeps what the calls have seen.
LEMMA NextCalls == OwnershipInv /\ DurabilityInv /\ CallsInv /\ [Next]_vars => CallsInv'
  <1> SUFFICES ASSUME OwnershipInv, DurabilityInv, CallsInv, [Next]_vars PROVE CallsInv'
    OBVIOUS
  <1> USE DEF historyVars, worldVars, registryVars, clockVars
  <1>0. /\ mem \in [Executions -> Records] /\ thread \in [Threads -> Frames]
        /\ proc \in [Executions -> Processes]
    BY DEF OwnershipInv, TypeInv
  <1>1. OwnershipInv' /\ \A e \in Executions : Binds(e)
    BY NextOwnership, RecordsMove
  <1>2. ASSUME thread' = thread, faults' = faults,
               \A e \in Executions : proc[e] \in Ended => proc'[e] \in Ended
        PROVE  CallsInv'
    BY <1>1, <1>2, QuietCalls
  <1>3. ASSUME NEW t \in Threads, NEW f, thread' = [thread EXCEPT ![t] = f], proc' = proc, faults' = faults,
               f.mode \notin {"exec"}, f.act # "exec", f.obs = "none", f.out \in {"none", "lost"},
               f.pc \in {"accepting", "calling", "marking"},
               t = "facade" \/ mem[f.exec].bound
        PROVE  CallsInv'
    <2>1. Shape(f) /\ ~Claims(f)
      BY <1>3 DEF Shape, Claims, Own
    <2>2. Joins(t)
      BY <1>0, <1>3 DEF Joins
    <2> QED BY <1>1, <1>3, <2>1, <2>2, OneCallMoves
  <1>4. ASSUME NEW e \in Executions, NEW t \in Threads, NEW mode \in {"control", "direct", "task", "observe"},
               NEW act \in {"poll", "write", "kill"}, mem[e].bound,
               thread' = [thread EXCEPT ![t] = Call(mode, e, act)], proc' = proc, faults' = faults
        PROVE  CallsInv'
    <2> DEFINE f == Call(mode, e, act)
    <2>1. /\ f.mode = mode /\ f.act = act /\ f.obs = "none" /\ f.out = "none" /\ f.exec = e
          /\ f.pc \in {"accepting", "calling"}
      BY DEF Call
    <2> HIDE DEF f
    <2> QED BY <1>3, <1>4, <2>1 DEF f
  <1>5. ASSUME NEW e \in Executions, NEW s \in Sessions, StartSession(e, s) PROVE CallsInv'
    <2> DEFINE f == Call("exec", e, "exec")
    <2>1. f.mode = "exec" /\ f.act = "exec" /\ f.obs = "none" /\ f.exec = e /\ f.pc = "calling"
      BY DEF Call
    <2>2. /\ "facade" \in Threads /\ thread'["facade"] = f
          /\ \A u \in Threads : u # "facade" => thread'[u] = thread[u]
          /\ e \in fresh /\ proc' = proc /\ faults' = faults /\ up
      BY <1>0, <1>5 DEF StartSession, Threads
    <2> HIDE DEF f
    <2>3. \A t \in Threads : Joins(t)
      BY <2>2 DEF Joins
    <2>4. ASSUME NEW u \in Threads, u # "facade" PROVE CallInv(u)'
      BY <1>1, <2>2, <2>3, <2>4, CallsStay
    <2>5. ~mem'[e].bound
      <3> DEFINE m == [mem EXCEPT ![e] = NewRecord(s)]
      <3>1. m \in [Executions -> Records] /\ ~m[e].bound
        BY <1>0, NewRecordIsRecord
      <3>2. Transact(m)
        BY <1>5 DEF StartSession
      <3> HIDE DEF m
      <3>3. mem'[e] = m[e] \/ mem'[e] = Absent
        BY <3>1, <3>2, TransactWrites
      <3> QED BY <3>1, <3>3, SMTT(30) DEF Absent
    <2>6. \A u \in Threads : u # "facade" /\ thread[u].pc # "idle" => thread[u].exec # e
      BY <2>2 DEF DurabilityInv, AnswerInv
    <2>7. CallInv("facade")'
      BY <2>1, <2>2, <2>5, <2>6 DEF CallInv, Shape, Alone, Claims
    <2> QED BY <2>4, <2>7 DEF CallsInv
  <1>6. CASE Control
    <2>1. ASSUME NEW e \in Executions, NEW t \in Threads, NEW mode \in {"control", "direct", "task"},
                 NEW act \in {"poll", "write", "kill"}, Begin(t, mode, e, act)
          PROVE  CallsInv'
      BY <1>4, <2>1 DEF Begin, Controllable
    <2>2. ASSUME NEW e \in Executions, NEW t \in Threads, PollEnded(t, e) PROVE CallsInv'
      BY <1>2, <2>2 DEF PollEnded
    <2> QED BY <1>6, <2>1, <2>2 DEF Control, BeginFacadeControl, BeginDirectControl,
               BeginTaskCancel, Threads
  <1>7. ASSUME NEW e \in Executions, BeginObserve(e) PROVE CallsInv'
    BY <1>4, <1>7 DEF BeginObserve, Threads
  <1>8. ASSUME NEW e \in Executions, ObserveRuntimeGone(e) PROVE CallsInv'
    <2> DEFINE f == [Call("observe", e, "poll") EXCEPT !.pc = "marking", !.out = "lost"]
    <2>1. /\ f.mode = "observe" /\ f.act = "poll" /\ f.obs = "none" /\ f.out = "lost" /\ f.exec = e
          /\ f.pc = "marking"
      BY DEF Call
    <2>2. thread' = [thread EXCEPT !["facade"] = f] /\ proc' = proc /\ faults' = faults
      BY <1>8 DEF ObserveRuntimeGone
    <2> HIDE DEF f
    <2> QED BY <1>3, <2>1, <2>2 DEF Threads
  <1>9. CASE Down
    <2>1. \A t \in Threads : thread'[t] = Idle
      BY <1>9 DEF Down
    <2> QED BY <2>1, SMTT(30) DEF CallsInv, CallInv, Shape, Alone, Claims, Idle
  <1>10. ASSUME NEW s \in Sessions, OpenSession(s) \/ CloseSession(s) \/ OrphanOwnedBy(s)
         PROVE  CallsInv'
    BY <1>2, <1>10 DEF OpenSession, CloseSession, OrphanOwnedBy
  <1>11. ASSUME NEW s \in Sessions, NEW e \in Executions, NEW k,
                AdoptOwner(s, e, k) \/ TransferTask(s, k)
         PROVE  CallsInv'
    BY <1>2, <1>11 DEF AdoptOwner, TransferTask
  <1>12. ASSUME NEW e \in Executions, Expire(e) PROVE CallsInv'
    BY <1>2, <1>12 DEF Expire
  <1>13. ASSUME NEW e \in Executions, ProcessExits(e) PROVE CallsInv'
    BY <1>0, <1>2, <1>13 DEF ProcessExits, Ended
  <1>14. CASE RuntimeDies
    BY <1>2, <1>14 DEF RuntimeDies, Ended
  <1>15. CASE ReapStale \/ ReapSignals \/ Restart \/ UNCHANGED vars
    BY <1>2, <1>15 DEF ReapStale, ReapSignals, Restart, vars
  <1>16. ASSUME NEW t \in Threads, Step(t) PROVE CallsInv'
    BY <1>1, <1>16, StepKeepsCalls
  <1> QED
    BY <1>5, <1>6, <1>7, <1>8, <1>9, <1>10, <1>11, <1>12, <1>13, <1>14, <1>15, <1>16
    DEF Next, ObserverFails, Crash
-----------------------------------------------------------------------------
(* Intents.  An accepted kill has its intent while the command runs, and a *)
(* call that will record the command's own exit saw it before the kill.    *)

LeakInv(e) ==
    /\ e \in signals =>
         /\ up
         /\ \/ Live(mem[e]) \/ e \in reaped
            \/ \E t \in Threads : At(t, "dropping") /\ thread[t].exec = e
    /\ e \in reaped => up /\ ~Live(mem[e]) /\ e \notin fresh
DropInv(t) == At(t, "dropping") => ~Live(mem[thread[t].exec])
HitInv(e) ==
    e \in hit =>
      /\ e \notin fresh /\ disk[e].state \notin Own
      /\ Live(mem[e]) => e \in signals
FinishInv(t) ==
    At(t, "finishing") /\ thread[t].out \in Own /\ Live(mem[thread[t].exec]) => thread[t].exec \notin hit
IntentInv ==
    /\ signals \subseteq Executions /\ hit \subseteq Executions /\ reaped \subseteq Executions
    /\ \A e \in Executions : LeakInv(e)
    /\ \A t \in Threads : DropInv(t)
    /\ "protocol" \notin faults =>
         (\A e \in Executions : HitInv(e)) /\ (\A t \in Threads : FinishInv(t))

\* What Moves says of the records in memory.
LEMMA LiveMoves ==
  ASSUME OwnershipInv, OwnershipInv', NEW e \in Executions, Moves(e)
  PROVE  /\ e \notin fresh /\ Live(mem'[e]) => Live(mem[e])
         /\ Live(mem[e]) /\ ~Live(mem'[e]) /\ up' =>
              e \in reaped' \/ \E t \in Threads : Finishes(t, e)
         /\ e \notin fresh /\ disk'[e].state \in Own =>
              \/ disk[e].state \in Own
              \/ \E t \in Threads : Finishes(t, e) /\ thread[t].out \in Own /\ Live(disk[e])
         /\ Live(mem[e]) => e \notin fresh /\ up /\ disk[e].state \notin Own
         /\ ~up' => ~Live(mem'[e])
  <1>1. /\ up => mem = disk
        /\ ~up => mem[e] = Absent
        /\ up' => mem' = disk'
        /\ ~up' => mem'[e] = Absent
        /\ e \in fresh => mem[e].state = "absent"
    BY DEF OwnershipInv, MemoryInv, CredentialInv
  <1>2. ~Live(Absent) /\ "running" \notin Own /\ "lost" \notin Own /\ "absent" \notin Own
    BY DEF Absent, Live, Own
  <1>3. e \notin fresh /\ Live(mem'[e]) => Live(mem[e])
    <2> SUFFICES ASSUME e \notin fresh, Live(mem'[e]) PROVE Live(mem[e])
      OBVIOUS
    <2>1. up' /\ disk'[e].state = "running"
      BY <1>1, <1>2 DEF Live
    <2>2. ASSUME NEW t \in Threads, Finishes(t, e) PROVE thread[t].out # "running"
      BY <2>2 DEF Finishes, At, OwnershipInv, TypeInv, Frames, Outcomes
    <2>3. disk[e].state = "running" /\ up
      BY <2>1, <2>2 DEF Moves, Live
    <2> QED BY <1>1, <2>3 DEF Live
  <1>4. Live(mem[e]) => e \notin fresh /\ up /\ disk[e].state \notin Own
    BY <1>1, <1>2 DEF Live
  <1>5. Live(mem[e]) /\ ~Live(mem'[e]) /\ up' => e \in reaped' \/ \E t \in Threads : Finishes(t, e)
    BY <1>1, <1>4 DEF Moves, Live
  <1>6. e \notin fresh /\ disk'[e].state \in Own =>
              \/ disk[e].state \in Own
              \/ \E t \in Threads : Finishes(t, e) /\ thread[t].out \in Own /\ Live(disk[e])
    BY <1>2 DEF Moves
  <1> QED BY <1>1, <1>2, <1>3, <1>4, <1>5, <1>6

\* What a step may do to the intents, so that they hold after it.
LEMMA IntentsMove ==
  ASSUME OwnershipInv, OwnershipInv', DurabilityInv, CallsInv, IntentInv,
         \A e \in Executions : Moves(e), fresh' \subseteq fresh, faults' = faults,
         signals' \subseteq Executions, hit' \subseteq Executions, reaped' \subseteq Executions,
         ~up' => signals' = {} /\ reaped' = {},
         \A e \in signals' : e \in signals \/ Live(mem'[e]),
         \A e \in signals : e \in signals' \/ ~Live(mem[e]) \/ e \notin hit' \/ ~up'
                             \/ "protocol" \in faults,
         \A e \in reaped : e \in reaped' \/ e \notin signals',
         \A e \in reaped' : e \in reaped \/ (Live(mem[e]) /\ ~Live(mem'[e])),
         \A t \in Threads : At(t, "dropping") =>
             thread'[t] = thread[t] \/ thread[t].exec \notin signals',
         \A t \in Threads : thread'[t].pc = "dropping" =>
             thread'[t] = thread[t] \/ ~Live(mem'[thread'[t].exec]),
         \A e \in hit' : e \in hit \/ (Live(mem[e]) /\ e \in signals' /\ disk' = disk /\ proc[e] \notin Ended),
         \A t \in Threads : thread'[t].pc = "finishing" /\ thread'[t].out \in Own =>
             \/ thread'[t] = thread[t] \/ "protocol" \in faults
             \/ /\ thread[t].pc # "idle" /\ thread'[t].exec = thread[t].exec /\ hit' = hit
                /\ Live(mem[thread[t].exec]) => thread[t].exec \notin hit
  PROVE  IntentInv'
  <1>0. \A t \in Threads : thread[t].pc # "idle" => thread[t].exec \in Executions /\ thread[t].exec \notin fresh
    BY DEF OwnershipInv, TypeInv, Frames, DurabilityInv, AnswerInv
  <1>1. ASSUME NEW e \in Executions PROVE LeakInv(e)'
    <2>1. ASSUME e \in signals'
          PROVE  /\ up'
                 /\ \/ Live(mem'[e]) \/ e \in reaped'
                    \/ \E t \in Threads : thread'[t].pc = "dropping" /\ thread'[t].exec = e
      <3>1. up'
        BY <2>1
      <3>2. CASE Live(mem[e]) /\ ~Live(mem'[e])
        <4>1. CASE e \in reaped'
          BY <3>1, <4>1
        <4>2. CASE \E t \in Threads : Finishes(t, e)
          <5>1. PICK t \in Threads : Finishes(t, e)
            BY <4>2
          <5>2. thread'[t].pc = "dropping" /\ thread'[t].exec = e
            BY <5>1, SMTT(30) DEF Finishes, Go, OwnershipInv, TypeInv, Frames
          <5> QED BY <3>1, <5>2
        <4> QED BY <3>1, <3>2, <4>1, <4>2, LiveMoves
      <3>3. CASE Live(mem'[e])
        BY <3>1, <3>3
      <3>4. CASE ~Live(mem[e]) /\ ~Live(mem'[e])
        <4>1. e \in signals /\ LeakInv(e)
          BY <2>1, <3>4 DEF IntentInv
        <4>2. CASE e \in reaped
          BY <2>1, <3>1, <4>2
        <4>3. ASSUME NEW t \in Threads, At(t, "dropping"), thread[t].exec = e
              PROVE  thread'[t].pc = "dropping" /\ thread'[t].exec = e
          BY <2>1, <4>3 DEF At
        <4> QED BY <3>1, <3>4, <4>1, <4>2, <4>3 DEF LeakInv
      <3> QED BY <3>2, <3>3, <3>4
    <2>2. ASSUME e \in reaped' PROVE up' /\ ~Live(mem'[e]) /\ e \notin fresh'
      <3>1. CASE e \in reaped
        BY <2>2, <3>1, LiveMoves DEF IntentInv, LeakInv
      <3>2. CASE e \notin reaped
        BY <2>2, <3>2, LiveMoves
      <3> QED BY <3>1, <3>2
    <2> QED BY <2>1, <2>2 DEF LeakInv, At
  <1>2. ASSUME NEW t \in Threads PROVE DropInv(t)'
    <2> SUFFICES ASSUME thread'[t].pc = "dropping", thread'[t] = thread[t]
                 PROVE  ~Live(mem'[thread[t].exec])
      BY DEF DropInv, At
    <2>1. ~Live(mem[thread[t].exec])
      BY DEF IntentInv, DropInv, At
    <2> QED BY <1>0, <2>1, LiveMoves
  <1>3. ASSUME NEW e \in Executions, "protocol" \notin faults PROVE HitInv(e)'
    <2> SUFFICES ASSUME e \in hit'
                 PROVE  /\ e \notin fresh' /\ disk'[e].state \notin Own
                        /\ Live(mem'[e]) => e \in signals'
      BY DEF HitInv
    <2>1. CASE e \in hit
      <3>1. e \notin fresh /\ disk[e].state \notin Own /\ (Live(mem[e]) => e \in signals)
        BY <1>3, <2>1 DEF IntentInv, HitInv
      <3>2. ASSUME NEW t \in Threads, Finishes(t, e), thread[t].out \in Own, Live(disk[e]) PROVE FALSE
        <4>1. At(t, "finishing") /\ thread[t].exec = e
          BY <3>2 DEF Finishes
        <4>2. up /\ mem = disk
          BY <4>1 DEF At, OwnershipInv, MemoryInv
        <4>3. FinishInv(t)
          BY <1>3 DEF IntentInv
        <4> QED BY <2>1, <3>2, <4>1, <4>2, <4>3 DEF FinishInv
      <3>3. disk'[e].state \notin Own
        BY <3>1, <3>2, LiveMoves
      <3>4. Live(mem'[e]) => e \in signals'
        BY <1>3, <3>1, LiveMoves
      <3> QED BY <3>1, <3>3, <3>4
    <2>2. CASE e \notin hit
      BY <2>2, LiveMoves
    <2> QED BY <2>1, <2>2
  <1>4. ASSUME NEW t \in Threads, "protocol" \notin faults PROVE FinishInv(t)'
    <2> DEFINE x == thread[t].exec
    <2> SUFFICES ASSUME thread'[t].pc = "finishing", thread'[t].out \in Own, Live(mem'[thread'[t].exec])
                 PROVE  thread'[t].exec \notin hit'
      BY DEF FinishInv, At
    <2>1. CASE thread'[t] = thread[t]
      <3>1. x \in Executions /\ x \notin fresh /\ proc[x] \in Ended
        BY <1>0, <2>1 DEF CallsInv, CallInv, Claims
      <3>2. Live(mem[x])
        BY <2>1, <3>1, LiveMoves
      <3>3. x \notin hit
        BY <1>4, <2>1, <3>2 DEF IntentInv, FinishInv, At
      <3> QED BY <2>1, <3>1, <3>3
    <2>2. CASE thread'[t] # thread[t]
      <3>1. thread[t].pc # "idle" /\ thread'[t].exec = x /\ hit' = hit /\ (Live(mem[x]) => x \notin hit)
        BY <1>4, <2>2
      <3>2. x \in Executions /\ x \notin fresh
        BY <1>0, <3>1
      <3> QED BY <3>1, <3>2, LiveMoves
    <2> QED BY <2>1, <2>2
  <1> QED BY <1>1, <1>2, <1>3, <1>4 DEF IntentInv

\* A step that touches no intent, and brings no call to its end.
LEMMA QuietIntents ==
  ASSUME OwnershipInv, OwnershipInv', DurabilityInv, CallsInv, IntentInv,
         \A e \in Executions : Moves(e), fresh' \subseteq fresh, faults' = faults,
         signals' = signals, hit' = hit, reaped' = reaped, up => up',
         \A t \in Threads :
            \/ thread'[t] = thread[t]
            \/ thread[t].pc # "dropping" /\ thread'[t].pc \notin {"dropping", "finishing"}
  PROVE  IntentInv'
  <1>1. signals \subseteq Executions /\ hit \subseteq Executions /\ reaped \subseteq Executions
    BY DEF IntentInv
  <1>2. ~up' => signals' = {} /\ reaped' = {}
    BY <1>1 DEF IntentInv, LeakInv
  <1> QED BY <1>1, <1>2, IntentsMove DEF At

\* Initially there are no intents.
LEMMA InitIntents == Init => IntentInv
  <1> SUFFICES ASSUME Init PROVE IntentInv
    OBVIOUS
  <1>1. \A t \in Threads : thread[t].pc = "idle"
    BY DEF Init, Idle
  <1> QED BY <1>1 DEF Init, IntentInv, LeakInv, DropInv, HitInv, FinishInv, At

\* The steps of a call that touch the intents, or end it.
LEMMA StepKeepsIntents ==
  ASSUME OwnershipInv, OwnershipInv', DurabilityInv, CallsInv, IntentInv,
         \A e \in Executions : Moves(e), NEW t \in Threads, Step(t)
  PROVE  IntentInv'
  <1> USE DEF historyVars, worldVars, registryVars, clockVars
  <1> DEFINE c == thread[t]
             x == thread[t].exec
  <1>0. /\ thread \in [Threads -> Frames] /\ c \in Frames /\ mem \in [Executions -> Records]
        /\ faults' = faults /\ fresh' = fresh /\ reaped' = reaped /\ up' = up
        /\ c.pc # "idle" /\ x \in Executions /\ up
        /\ signals \subseteq Executions /\ hit \subseteq Executions /\ reaped \subseteq Executions
    BY DEF OwnershipInv, TypeInv, MemoryInv, IntentInv, Frames, Step, At, RequestCancellation,
       RuntimeAnswers,
       BindRuntimeHandle, SettleAnswer, ClearCancellation, MarkTerminal, Finish, DropSignal,
       Answer
  <1>1. ASSUME signals' = signals, hit' = hit, c.pc # "dropping",
               thread'[t].pc \notin {"dropping", "finishing"},
               \A u \in Threads : u # t => thread'[u] = thread[u]
        PROVE  IntentInv'
    BY <1>0, <1>1, QuietIntents
  <1>2. ASSUME Return(t) PROVE thread'[t].pc = "idle" /\ \A u \in Threads : u # t => thread'[u] = thread[u]
    BY <1>0, <1>2 DEF Return, Idle
  <1>3. ASSUME NEW pc, Go(t, pc)
        PROVE  /\ thread'[t].pc = pc /\ thread'[t].exec = x
               /\ \A u \in Threads : u # t => thread'[u] = thread[u]
    BY <1>0, <1>3 DEF Go, Frames
  <1>4. ASSUME NEW pc, NEW o, NEW a, Settle(t, pc, o, a)
        PROVE  /\ thread'[t].pc = pc /\ thread'[t].exec = x /\ thread'[t].out = o
               /\ \A u \in Threads : u # t => thread'[u] = thread[u]
    BY <1>0, <1>4 DEF Settle, Idle
  <1>5. ASSUME NEW o, NEW a, Settle(t, "finishing", ObservedOutcome(x, o), a) \/ Settle(t, "finishing", "cancelled", a),
               signals' = signals, hit' = hit, c.pc # "dropping"
        PROVE  IntentInv'
    <2>1. PICK r \in {ObservedOutcome(x, o), "cancelled"} : Settle(t, "finishing", r, a)
      BY <1>5
    <2>2. /\ thread'[t].pc = "finishing" /\ thread'[t].exec = x /\ thread'[t].out = r
          /\ \A u \in Threads : u # t => thread'[u] = thread[u]
      BY <1>4, <2>1
    <2>3. ASSUME r \in Own, "protocol" \notin faults, Live(mem[x]) PROVE x \notin hit
      <3>1. ~Signalled(x)
        BY <2>1, <2>3 DEF ObservedOutcome, Own
      <3>2. HitInv(x)
        BY <1>0, <2>3 DEF IntentInv
      <3> QED BY <2>3, <3>1, <3>2 DEF Signalled, HitInv
    <2> QED BY <1>0, <1>5, <2>2, <2>3, IntentsMove DEF At
  <1>6. CASE RequestCancellation(t)
    <2>1. CASE Return(t) /\ UNCHANGED <<signals, hit>>
      BY <1>1, <1>2, <1>6, <2>1 DEF RequestCancellation, At
    <2>2. CASE /\ Live(mem[x]) /\ signals' = signals \cup {x} /\ Go(t, "calling")
               /\ hit' = IF proc[x] \in {"running", "dying"} THEN hit \cup {x} ELSE hit
      <3>1. mem' = mem /\ disk' = disk /\ c.pc = "accepting"
        BY <1>6 DEF RequestCancellation, At
      <3>2. hit' \subseteq hit \cup {x} /\ (x \in hit' => x \in hit \/ proc[x] \notin Ended)
        BY <2>2 DEF Ended
      <3>3. thread'[t].pc = "calling" /\ \A u \in Threads : u # t => thread'[u] = thread[u]
        BY <1>3, <2>2
      <3> QED BY <1>0, <2>2, <3>1, <3>2, <3>3, IntentsMove DEF At
    <2> QED BY <1>6, <2>1, <2>2 DEF RequestCancellation, Cancellable
  <1>7. CASE RuntimeAnswers(t)
    <2>1. PICK a : thread' = [thread EXCEPT ![t].obs = a[1], ![t].pc =
                                IF c.mode = "exec" /\ a[1] \in {"running", "completed", "failed"}
                                THEN "binding" ELSE "observed"]
      BY <1>7 DEF RuntimeAnswers
    <2>2. thread'[t].pc \in {"binding", "observed"} /\ \A u \in Threads : u # t => thread'[u] = thread[u]
      BY <1>0, <2>1 DEF Frames
    <2>3. signals' = signals /\ hit' = hit /\ c.pc = "calling"
      BY <1>7 DEF RuntimeAnswers, At
    <2> QED BY <1>1, <2>2, <2>3
  <1>8. CASE BindRuntimeHandle(t)
    BY <1>1, <1>3, <1>4, <1>8, SMTT(30) DEF BindRuntimeHandle, At
  <1>9. CASE SettleAnswer(t)
    <2>1. signals' = signals /\ hit' = hit /\ c.pc = "observed"
      BY <1>9 DEF SettleAnswer, At
    <2>2. ASSUME NEW pc \in {"marking", "withdrawing"}, NEW o, NEW a, Settle(t, pc, o, a) PROVE IntentInv'
      BY <1>1, <1>4, <2>1, <2>2
    <2>3. ASSUME Return(t) PROVE IntentInv'
      BY <1>1, <1>2, <2>1, <2>3
    <2>4. ASSUME Go(t, "withdrawing") PROVE IntentInv'
      BY <1>1, <1>3, <2>1, <2>4, SMTT(30)
    <2>5. CASE c.mode = "direct"
      BY <1>5, <1>9, <2>1, <2>3, <2>4, <2>5 DEF SettleAnswer, SettleDirect
    <2>6. CASE c.mode = "task"
      BY <1>5, <1>9, <2>1, <2>3, <2>6 DEF SettleAnswer, SettleTask
    <2>7. CASE c.mode \notin {"direct", "task"}
      <3>1. SettleFacade(t, x, c.obs, c.mode, c.act)
        BY <1>9, <2>7 DEF SettleAnswer
      <3> QED BY <2>2, <2>3, <3>1 DEF SettleFacade, SettleControl
    <2> QED BY <2>5, <2>6, <2>7
  <1>10. CASE ClearCancellation(t)
    <2>1. /\ signals' \in {signals, signals \ {x}} /\ hit' \in {hit, hit \ {x}} /\ c.pc = "withdrawing"
          /\ c.mode # "direct" => hit' = hit \ {x}
      BY <1>10 DEF ClearCancellation, At
    <2>2. "protocol" \notin faults => c.mode # "direct"
      BY <2>1 DEF CallsInv, CallInv, Shape
    <2>3. /\ thread'[t].pc \in {"idle", "marking"}
          /\ \A u \in Threads : u # t => thread'[u] = thread[u]
      BY <1>2, <1>3, <1>10 DEF ClearCancellation
    <2> QED BY <1>0, <2>1, <2>2, <2>3, IntentsMove DEF At
  <1>11. CASE MarkTerminal(t)
    BY <1>5, <1>11 DEF MarkTerminal, At
  <1>12. CASE Finish(t)
    <2>1. signals' = signals /\ hit' = hit /\ c.pc = "finishing"
      BY <1>12 DEF Finish, At
    <2>2. CASE Return(t)
      BY <1>1, <1>2, <2>1, <2>2
    <2>5. CASE Settle(t, "marking", "lost", "none")
      BY <1>1, <1>4, <2>1, <2>5
    <2>3. CASE Go(t, "replying")
      BY <1>1, <1>3, <2>1, <2>3, SMTT(30)
    <2>4. CASE Transact([mem EXCEPT ![x] = Finished(mem[x], c.out)]) /\ Go(t, "dropping")
      <3> DEFINE q == mem[x]
                 o == c.out
                 m == [mem EXCEPT ![x] = Finished(q, o)]
      <3>1. q \in Records /\ o \in Outcomes /\ Transact(m)
        BY <1>0, <2>1, <2>4 DEF Frames
      <3>2. Finished(q, o) \in Records /\ ~Live(Finished(q, o))
        <4> HIDE DEF q, o
        <4> QED BY <3>1 DEF Finished, Settled, Records, Live, Outcomes
      <3>3. m \in [Executions -> Records] /\ ~Live(m[x])
        <4> HIDE DEF q, o
        <4> QED BY <1>0, <3>2
      <3> HIDE DEF m
      <3>4. ~Live(mem'[x])
        BY <1>0, <3>1, <3>3, TransactWrites, AbsentIsRecord DEF Live
      <3>5. thread'[t].pc = "dropping" /\ thread'[t].exec = x /\ \A u \in Threads : u # t => thread'[u] = thread[u]
        BY <1>3, <2>4
      <3> QED BY <1>0, <2>1, <3>4, <3>5, IntentsMove DEF At
    <2> QED BY <1>12, <2>2, <2>3, <2>4, <2>5 DEF Finish, FinishFails, AlreadyTerminal
  <1>13. CASE DropSignal(t)
    <2>1. signals' = signals \ {x} /\ hit' = hit /\ c.pc = "dropping" /\ ~Live(mem[x])
      BY <1>13 DEF DropSignal, At, IntentInv, DropInv
    <2>2. /\ thread'[t].pc \in {"idle", "replying"}
          /\ \A u \in Threads : u # t => thread'[u] = thread[u]
      BY <1>2, <1>3, <1>13 DEF DropSignal
    <2> QED BY <1>0, <2>1, <2>2, IntentsMove DEF At
  <1>14. CASE Answer(t)
    BY <1>1, <1>2, <1>14 DEF Answer, At
  <1> QED BY <1>6, <1>7, <1>8, <1>9, <1>10, <1>11, <1>12, <1>13, <1>14 DEF Step

\* Every step keeps the intents.
LEMMA NextIntents ==
    OwnershipInv /\ DurabilityInv /\ CallsInv /\ IntentInv /\ [Next]_vars => IntentInv'
  <1> SUFFICES ASSUME OwnershipInv, DurabilityInv, CallsInv, IntentInv, [Next]_vars PROVE IntentInv'
    OBVIOUS
  <1> USE DEF historyVars, worldVars, registryVars, clockVars
  <1>0. /\ thread \in [Threads -> Frames] /\ OwnershipInv' /\ \A e \in Executions : Moves(e)
        /\ signals \subseteq Executions /\ hit \subseteq Executions /\ reaped \subseteq Executions
    BY NextOwnership, RecordsMove DEF OwnershipInv, TypeInv, IntentInv
  <1>1. ASSUME fresh' \subseteq fresh, faults' = faults, signals' = signals, hit' = hit, reaped' = reaped,
               up => up',
               \A t \in Threads :
                  \/ thread'[t] = thread[t]
                  \/ thread[t].pc = "idle" /\ thread'[t].pc \in {"accepting", "calling", "marking"}
        PROVE  IntentInv'
    BY <1>0, <1>1, QuietIntents
  <1>2. ASSUME NEW e \in Executions, NEW s \in Sessions, StartSession(e, s) PROVE IntentInv'
    <2>1. Call("exec", e, "exec").pc = "calling"
      BY DEF Call
    <2> QED BY <1>0, <1>1, <1>2, <2>1 DEF StartSession, At
  <1>3. CASE Control
    <2>1. ASSUME NEW e \in Executions, NEW t \in Threads, NEW mode, NEW act, Begin(t, mode, e, act)
          PROVE  IntentInv'
      <3>1. Call(mode, e, act).pc \in {"accepting", "calling"}
        BY DEF Call
      <3> QED BY <1>0, <1>1, <2>1, <3>1 DEF Begin, At
    <2>2. ASSUME NEW e \in Executions, NEW t \in Threads, PollEnded(t, e) PROVE IntentInv'
      BY <1>1, <2>2 DEF PollEnded
    <2> QED BY <1>3, <2>1, <2>2 DEF Control, BeginFacadeControl, BeginDirectControl,
               BeginTaskCancel, Threads
  <1>4. ASSUME NEW e \in Executions, BeginObserve(e) PROVE IntentInv'
    <2>1. Call("observe", e, "poll").pc = "calling"
      BY DEF Call
    <2> QED BY <1>0, <1>1, <1>4, <2>1 DEF BeginObserve, At
  <1>5. ASSUME NEW e \in Executions, ObserveRuntimeGone(e) PROVE IntentInv'
    <2> DEFINE f == [Call("observe", e, "poll") EXCEPT !.pc = "marking", !.out = "lost"]
    <2>1. f.pc = "marking"
      BY DEF Call
    <2>2. thread' = [thread EXCEPT !["facade"] = f]
      BY <1>5 DEF ObserveRuntimeGone
    <2> HIDE DEF f
    <2> QED BY <1>0, <1>1, <1>5, <2>1, <2>2 DEF ObserveRuntimeGone, At
  <1>6. CASE Down
    <2>1. \A t \in Threads : thread'[t].pc = "idle"
      BY <1>6 DEF Down, Idle
    <2>2. /\ signals' = {} /\ reaped' = {} /\ hit' = hit /\ ~up' /\ fresh' = fresh /\ faults' = faults
      BY <1>6 DEF Down
    <2> QED BY <1>0, <2>1, <2>2, IntentsMove DEF At
  <1>7. CASE ReapStale
    <2> DEFINE lost == {d \in Executions : Overdue(d)}
               m == [d \in Executions |-> IF d \in lost THEN Lost(mem[d]) ELSE mem[d]]
    <2>1. \A r \in Records : Lost(r) \in Records /\ Lost(r).state = "lost"
      BY DEF Records, Lost, Outcomes
    <2>2. mem \in [Executions -> Records] /\ \A d \in lost : d \in Executions /\ Live(mem[d])
      BY DEF OwnershipInv, TypeInv, Overdue
    <2>3. /\ Transact(m) /\ reaped' = lost /\ reaped = {} /\ signals' = signals /\ hit' = hit
          /\ fresh' = fresh /\ faults' = faults /\ thread' = thread /\ up' = up /\ up
      BY <1>7 DEF ReapStale
    <2>4. lost \subseteq Executions
      OBVIOUS
    <2> HIDE DEF lost
    <2>5. m \in [Executions -> Records] /\ \A d \in lost : ~Live(m[d])
      BY <2>1, <2>2 DEF Live
    <2> HIDE DEF m
    <2>6. \A d \in lost : ~Live(mem'[d])
      BY <2>3, <2>4, <2>5, TransactWrites, AbsentIsRecord DEF Live
    <2> QED BY <1>0, <2>2, <2>3, <2>4, <2>6, IntentsMove DEF At, IntentInv
  <1>8. CASE ReapSignals
    <2>1. /\ signals' = signals \ reaped /\ reaped' = {} /\ hit' = hit /\ mem' = mem
          /\ fresh' = fresh /\ faults' = faults /\ thread' = thread /\ up' = up
      BY <1>8 DEF ReapSignals
    <2>2. \A e \in reaped : ~Live(mem[e]) /\ up
      BY <1>0 DEF IntentInv, LeakInv
    <2>3. ~up' => signals' = {}
      BY <1>0, <2>1 DEF IntentInv, LeakInv
    <2> QED BY <1>0, <2>1, <2>2, <2>3, IntentsMove DEF At, IntentInv
  <1>9. ASSUME NEW s \in Sessions, OpenSession(s) \/ CloseSession(s) \/ OrphanOwnedBy(s)
         PROVE  IntentInv'
    BY <1>1, <1>9 DEF OpenSession, CloseSession, OrphanOwnedBy
  <1>10. ASSUME NEW s \in Sessions, NEW e \in Executions, NEW k,
                AdoptOwner(s, e, k) \/ TransferTask(s, k)
         PROVE  IntentInv'
    BY <1>1, <1>10 DEF AdoptOwner, TransferTask
  <1>11. ASSUME NEW e \in Executions, Expire(e) \/ ProcessExits(e) PROVE IntentInv'
    BY <1>1, <1>11 DEF Expire, ProcessExits
  <1>12. CASE RuntimeDies \/ Restart \/ UNCHANGED vars
    BY <1>1, <1>12, SMTT(30) DEF RuntimeDies, Restart, vars
  <1>13. ASSUME NEW t \in Threads, Step(t) PROVE IntentInv'
    BY <1>0, <1>13, StepKeepsIntents
  <1> QED
    BY <1>2, <1>3, <1>4, <1>5, <1>6, <1>7, <1>8, <1>9, <1>10, <1>11, <1>12, <1>13
    DEF Next, ObserverFails, Crash

\* A kill accepted while the process lives names the outcome, unless an answer
\* outside the protocol withdrew it, and no intent outlives its command but
\* until the thread that ended the command removes it (request_cancellation,
\* execution_registry.rs:438; finish, :504).
THEOREM IntentsAreKept == Spec => []IntentsAreHonoured
  <1>1. OwnershipInv /\ IntentInv => IntentsAreHonoured
    <2> SUFFICES ASSUME OwnershipInv, IntentInv PROVE IntentsAreHonoured
      OBVIOUS
    <2>1. KillDecides
      <3>1. ASSUME "protocol" \notin faults, NEW e \in hit PROVE mem[e].state \notin Own
        <4>1. e \in Executions /\ disk[e].state \notin Own
          BY <3>1 DEF IntentInv, HitInv
        <4>2. mem[e] = disk[e] \/ mem[e] = Absent
          BY <4>1 DEF OwnershipInv, MemoryInv
        <4> QED BY <4>1, <4>2, SMTT(30) DEF Absent, Own
      <3> QED BY <3>1 DEF KillDecides, Own
    <2>2. NoIntentLeaks
      BY DEF NoIntentLeaks, IntentInv, LeakInv
    <2> QED BY <2>1, <2>2 DEF IntentsAreHonoured
  <1> QED
    BY <1>1, InitOwnership, NextOwnership, InitDurability, NextDurability, InitCalls, NextCalls,
       InitIntents, NextIntents, PTL DEF Spec
-----------------------------------------------------------------------------
(* Statuses.  Whatever is said of a command's own exit agrees: what the process *)
(* shows, what the calls saw, will record or answer, what was answered and what *)
(* the file says.                                                               *)

Holds(e, c) ==
    \/ \E t \in Threads : thread[t].exec = e /\ c \in {thread[t].obs, thread[t].out, thread[t].ans}
    \/ disk[e].state = c \/ <<e, c>> \in said
    \/ proc[e] \in {"exit_ok", "exit_bad"} /\ ExitStatus(proc[e]) = c
Starts(f, e) == f.pc = "calling" /\ f.mode = "exec" /\ f.exec = e
Started(e) == e \notin fresh /\ \A t \in Threads : ~Starts(thread[t], e)
ExitInv(e) ==
    /\ proc[e] \notin {"none", "gone"} => Started(e)
    /\ \A c \in Own : Holds(e, c) =>
         (\A d \in Own : Holds(e, d) => d = c) /\ proc[e] \in Ended /\ Started(e)

\* Nobody speaks of a cancellation that was not accepted.
KilledInv(e) ==
    disk[e].state = "cancelled" \/ <<e, "cancelled">> \in said => e \in killed
CallerInv(t) ==
    /\ "cancelled" \in {thread[t].obs, thread[t].out, thread[t].ans} => thread[t].exec \in killed
    /\ thread[t].act = "kill" /\ thread[t].pc # "accepting" => thread[t].exec \in killed
    /\ t # "facade" /\ thread[t].pc # "idle" => thread[t].mode \in Beside

\* The facade answers a status of a command that has ended, and not with an error.
SaidInv(e) ==
    \A status \in ExitSeen : <<e, status>> \in said =>
      e \notin fresh /\ disk[e].state \notin {"running", "errored"}
FacadeInv ==
    LET f == thread["facade"] IN
    /\ f.pc # "idle" /\ ~(f.pc = "dropping" /\ f.ans = "none") => disk[f.exec].state # "errored"
    /\ f.pc \in {"dropping", "replying"} /\ f.ans # "none" => ~Live(disk[f.exec])
StatusInv ==
    /\ said \subseteq Executions \X ExitSeen /\ signals \subseteq killed
    /\ \A e \in Executions : ExitInv(e) /\ KilledInv(e) /\ SaidInv(e)
    /\ \A t \in Threads : CallerInv(t)
    /\ FacadeInv

\* The step gives t nothing to say of e that was not held already.
Tame(t, e) ==
    \/ thread'[t] = thread[t] \/ thread'[t].exec # e
    \/ /\ \A c \in Own : c \in {thread'[t].obs, thread'[t].out, thread'[t].ans} => Holds(e, c)
       /\ ~Starts(thread'[t], e)

\* What is held of a command's own exit was held before, if nobody learns of it.
LEMMA ExitStays ==
  ASSUME NEW e \in Executions, ExitInv(e), Moves(e), e \in fresh <=> e \in fresh',
         \A t \in Threads : Tame(t, e), \A c \in Own : <<e, c>> \in said' => Holds(e, c),
         proc[e] \in Ended => proc'[e] \in Ended,
         proc[e] \in {"none", "gone"} => proc'[e] \in {"none", "gone"},
         proc'[e] \in {"exit_ok", "exit_bad"} => proc'[e] = proc[e]
  PROVE  ExitInv(e)'
  <1>1. ASSUME NEW c \in Own, Holds(e, c)' PROVE Holds(e, c)
    <2>1. CASE \E t \in Threads :
                 thread'[t].exec = e /\ c \in {thread'[t].obs, thread'[t].out, thread'[t].ans}
      BY <1>1, <2>1 DEF Tame, Holds
    <2>2. CASE disk'[e].state = c
      BY <1>1, <2>2 DEF Moves, Holds, Own, Finishes
    <2>3. CASE <<e, c>> \in said'
      BY <1>1, <2>3
    <2>4. CASE proc'[e] \in {"exit_ok", "exit_bad"} /\ ExitStatus(proc'[e]) = c
      BY <2>4 DEF Holds
    <2> QED BY <1>1, <2>1, <2>2, <2>3, <2>4 DEF Holds, ExitStatus
  <1>2. Started(e) => Started(e)'
    BY DEF Started, Tame, Starts
  <1> QED BY <1>1, <1>2 DEF ExitInv

\* What a step may do, so that the statuses hold after it.
LEMMA StatusMoves ==
  ASSUME OwnershipInv, DurabilityInv, StatusInv, \A e \in Executions : Moves(e) /\ ExitInv(e)',
         fresh' \subseteq fresh, \A e \in fresh \ fresh' : disk'[e].state \in {"running", "absent"},
         killed \subseteq killed', signals' \subseteq signals \cup killed',
         said' \subseteq Executions \X ExitSeen,
         \A e \in Executions, status \in ExitSeen : <<e, status>> \in said' =>
            \/ <<e, status>> \in said
            \/ /\ e \notin fresh /\ disk[e].state \notin {"running", "errored"}
               /\ status = "cancelled" => e \in killed,
         \A t \in Threads : thread'[t] = thread[t] \/ CallerInv(t)',
         thread'["facade"] = thread["facade"] \/ FacadeInv'
  PROVE  StatusInv'
  <1>0. /\ thread \in [Threads -> Frames] /\ "facade" \in Threads
        /\ \A t \in Threads : thread[t].pc # "idle" => thread[t].exec \in Executions /\ thread[t].exec \notin fresh
    BY DEF OwnershipInv, TypeInv, Threads, Frames, DurabilityInv, AnswerInv
  <1>1. ASSUME NEW e \in Executions, NEW t \in Threads, Finishes(t, e)
        PROVE  /\ thread[t].out = "cancelled" => e \in killed
               /\ thread[t].out \in Outcomes
               /\ thread[t].out = "errored" => t = "facade" /\ thread'[t] # thread[t]
    <2>1. thread[t].pc = "finishing" /\ thread[t].exec = e /\ thread[t] \in Frames /\ CallerInv(t)
      BY <1>0, <1>1 DEF Finishes, At, StatusInv
    <2>2. thread'[t].pc = "dropping"
      BY <1>0, <1>1 DEF Finishes, Go, Frames
    <2>3. thread[t].out \in Outcomes /\ (thread[t].out = "errored" => thread[t].mode \notin Beside)
      BY <2>1 DEF Frames, Sound
    <2> QED BY <2>1, <2>2, <2>3 DEF CallerInv
  <1>2. ASSUME NEW e \in Executions PROVE KilledInv(e)'
    <2>1. CASE disk'[e].state = "cancelled"
      BY <1>1, <2>1 DEF Moves, StatusInv, KilledInv
    <2>2. CASE <<e, "cancelled">> \in said'
      BY <2>2 DEF StatusInv, KilledInv, ExitSeen
    <2> QED BY <2>1, <2>2 DEF KilledInv
  <1>3. ASSUME NEW e \in Executions PROVE SaidInv(e)'
    <2> SUFFICES ASSUME NEW status \in ExitSeen, <<e, status>> \in said'
                 PROVE  e \notin fresh' /\ disk'[e].state \notin {"running", "errored"}
      BY DEF SaidInv
    <2>1. e \notin fresh /\ disk[e].state \notin {"running", "errored"}
      BY DEF StatusInv, SaidInv
    <2> QED BY <2>1 DEF Moves, Live
  <1>4. ASSUME NEW t \in Threads PROVE CallerInv(t)'
    BY <1>4 DEF StatusInv, CallerInv
  <1>5. ASSUME thread'["facade"] = thread["facade"] PROVE FacadeInv'
    <2> DEFINE f == thread["facade"]
    <2> SUFFICES ASSUME f.pc # "idle"
                 PROVE  /\ ~(f.pc = "dropping" /\ f.ans = "none") => disk'[f.exec].state # "errored"
                        /\ f.pc \in {"dropping", "replying"} /\ f.ans # "none" => ~Live(disk'[f.exec])
      BY <1>5 DEF FacadeInv
    <2>1. f.exec \in Executions /\ f.exec \notin fresh /\ FacadeInv
      BY <1>0 DEF StatusInv
    <2>2. Moves(f.exec)
      BY <2>1
    <2>3. ASSUME disk'[f.exec].state = "errored" PROVE disk[f.exec].state = "errored"
      BY <1>1, <1>5, <2>1, <2>2, <2>3 DEF Moves
    <2>4. ASSUME disk'[f.exec].state = "running" PROVE disk[f.exec].state = "running"
      BY <1>1, <2>1, <2>2, <2>4 DEF Moves, Live, Outcomes
    <2> QED BY <2>1, <2>3, <2>4 DEF FacadeInv, Live
  <1> QED BY <1>2, <1>3, <1>4, <1>5 DEF StatusInv

\* A step in which nobody learns of an exit.
LEMMA QuietStatus ==
  ASSUME OwnershipInv, DurabilityInv, StatusInv, \A e \in Executions : Moves(e),
         fresh' = fresh, killed \subseteq killed', signals' \subseteq signals \cup killed',
         UNCHANGED said, \A t \in Threads, e \in Executions : Tame(t, e),
         \A e \in Executions : proc'[e] = proc[e] \/ proc'[e] = "gone",
         \A t \in Threads : thread'[t] = thread[t] \/ CallerInv(t)',
         thread'["facade"] = thread["facade"] \/ FacadeInv'
  PROVE  StatusInv'
  <1>1. ASSUME NEW e \in Executions PROVE ExitInv(e)'
    <2>1. \A c \in Own : <<e, c>> \in said' => Holds(e, c)
      BY DEF Holds
    <2>2. "gone" \in Ended /\ ExitInv(e)
      BY DEF Ended, StatusInv
    <2> QED BY <2>1, <2>2, ExitStays
  <1> QED BY <1>1, StatusMoves DEF StatusInv

\* The steps of a call, but for the answer of the runtime.
LEMMA StepKeepsStatus ==
  ASSUME OwnershipInv, DurabilityInv, CallsInv, StatusInv, \A e \in Executions : Moves(e),
         NEW t \in Threads,
         \/ RequestCancellation(t) \/ BindRuntimeHandle(t) \/ SettleAnswer(t)
         \/ ClearCancellation(t) \/ MarkTerminal(t) \/ Finish(t) \/ DropSignal(t)
  PROVE  StatusInv'
  <1> USE DEF historyVars, worldVars, registryVars, clockVars
  <1> DEFINE c == thread[t]
             x == thread[t].exec
  <1>0. /\ thread \in [Threads -> Frames] /\ c \in Frames /\ mem \in [Executions -> Records]
        /\ c.pc # "idle" /\ x \in Executions /\ mem = disk /\ "facade" \in Threads
        /\ CallInv(t) /\ CallerInv(t) /\ FacadeInv /\ signals \subseteq killed /\ up
        /\ fresh' = fresh /\ said' = said /\ proc' = proc
    <2>1. fresh' = fresh /\ said' = said /\ proc' = proc /\ c.pc # "idle"
      BY DEF At, RequestCancellation, BindRuntimeHandle, SettleAnswer, ClearCancellation,
         MarkTerminal, Finish, DropSignal
    <2>2. signals \subseteq killed
      BY DEF StatusInv
    <2> QED BY <2>1, <2>2 DEF OwnershipInv, TypeInv, MemoryInv, Frames, Threads, CallsInv,
               StatusInv
  <1>1. ASSUME Return(t), killed' = killed, signals' \subseteq signals PROVE StatusInv'
    <2>1. thread'[t] = Idle /\ \A u \in Threads : u # t => thread'[u] = thread[u]
      BY <1>0, <1>1 DEF Return
    <2>2. \A u \in Threads, e \in Executions : Tame(u, e)
      <3>1. /\ Idle.pc = "idle" /\ Idle.obs = "none" /\ Idle.out = "none" /\ Idle.ans = "none"
            /\ "none" \notin Own
        BY DEF Idle, Own
      <3> QED BY <2>1, <3>1 DEF Tame, Starts
    <2>3. CallerInv(t)' /\ (t = "facade" => FacadeInv')
      BY <2>1, SMTT(30) DEF CallerInv, FacadeInv, Idle
    <2> QED BY <1>0, <1>1, <2>1, <2>2, <2>3, QuietStatus
  <1>2. ASSUME NEW pc, Go(t, pc), pc = "calling" => c.mode # "exec", pc # "accepting", pc # "idle",
               killed \subseteq killed', signals' \subseteq signals \cup killed',
               c.pc = "accepting" => x \in killed',
               t = "facade" => FacadeInv'
        PROVE  StatusInv'
    <2>1. /\ thread'[t].pc = pc /\ thread'[t].exec = x /\ thread'[t].obs = c.obs /\ thread'[t].out = c.out
          /\ thread'[t].ans = c.ans /\ thread'[t].mode = c.mode /\ thread'[t].act = c.act
          /\ \A u \in Threads : u # t => thread'[u] = thread[u]
      BY <1>0, <1>2 DEF Go, Frames
    <2>2. \A u \in Threads, e \in Executions : Tame(u, e)
      BY <1>2, <2>1 DEF Tame, Holds, Starts
    <2>3. CallerInv(t)'
      BY <1>0, <1>2, <2>1 DEF CallerInv
    <2> QED BY <1>0, <1>2, <2>1, <2>2, <2>3, QuietStatus
  <1>3. ASSUME NEW pc \in Settling, NEW o, NEW a, Settle(t, pc, o, a), UNCHANGED <<killed, signals>>,
               o \in Own => Holds(x, o), a \in Own => Holds(x, a),
               "cancelled" \in {o, a} => x \in killed, disk' = disk, c.pc # "dropping"
        PROVE  StatusInv'
    <2>1. /\ thread'[t].pc = pc /\ thread'[t].exec = x /\ thread'[t].obs = "none" /\ thread'[t].out = o
          /\ thread'[t].ans = a /\ thread'[t].mode = c.mode /\ thread'[t].act = "none"
          /\ \A u \in Threads : u # t => thread'[u] = thread[u]
      BY <1>0, <1>3 DEF Settle, Idle
    <2>2. \A u \in Threads, e \in Executions : Tame(u, e)
      BY <1>3, <2>1 DEF Tame, Starts, Own, Settling
    <2>3. CallerInv(t)'
      BY <1>0, <1>3, <2>1 DEF CallerInv
    <2>4. t = "facade" => FacadeInv'
      BY <1>0, <1>3, <2>1 DEF FacadeInv, Settling
    <2> QED BY <1>0, <1>3, <2>1, <2>2, <2>3, <2>4, QuietStatus
  <1>4. ASSUME NEW pc, Go(t, pc), pc \notin {"idle", "dropping", "replying"}, t = "facade",
               disk'[x].state = disk[x].state, c.pc # "dropping"
        PROVE  FacadeInv'
    <2>1. thread'[t].pc = pc /\ thread'[t].exec = x
      BY <1>0, <1>4 DEF Go, Frames
    <2> QED BY <1>0, <1>4, <2>1 DEF FacadeInv
  <1>5. {"marking", "finishing", "withdrawing"} \subseteq Settling /\ "lost" \notin Own /\ "none" \notin Own
        /\ "record" \notin Own /\ "cancelled" \notin Own
    BY DEF Settling, Own
  <1>6. CASE RequestCancellation(t)
    <2>1. c.pc = "accepting" /\ c.mode # "exec" /\ disk' = disk
      BY <1>0, <1>6 DEF RequestCancellation, At, CallInv, Shape
    <2>2. CASE Return(t) /\ UNCHANGED <<signals, killed, hit>>
      BY <1>1, <2>2
    <2>3. CASE signals' = signals \cup {x} /\ killed' = killed \cup {x} /\ Go(t, "calling")
      BY <1>2, <1>4, <2>1, <2>3
    <2> QED BY <1>6, <2>2, <2>3 DEF RequestCancellation
  <1>7. CASE BindRuntimeHandle(t)
    <2>1. c.pc = "binding" /\ UNCHANGED <<killed, signals>>
      BY <1>7 DEF BindRuntimeHandle, At
    <2>2. CASE Settle(t, "marking", "lost", "none") /\ UNCHANGED registryVars
      BY <1>3, <1>5, <2>1, <2>2
    <2>3. CASE mem[x].state # "absent" /\ Transact([mem EXCEPT ![x].bound = TRUE]) /\ Go(t, "observed")
      <3> DEFINE m == [mem EXCEPT ![x].bound = TRUE]
      <3>1. m \in [Executions -> Records] /\ m[x].state = mem[x].state
        <4>1. mem \in [Executions -> Records] /\ x \in Executions
          BY <1>0
        <4> QED BY <4>1 DEF Records
      <3>5. Transact(m)
        BY <2>3
      <3> HIDE DEF m
      <3>2. disk'[x].state \in {disk[x].state, "absent"}
        BY <1>0, <3>1, <3>5, TransactWrites, AbsentIsRecord
      <3>3. thread'[t].pc = "observed" /\ thread'[t].exec = x
        BY <1>0, <2>3 DEF Go, Frames
      <3>4. t = "facade" => FacadeInv'
        BY <1>0, <2>1, <3>2, <3>3 DEF FacadeInv
      <3> QED BY <1>2, <2>1, <2>3, <3>4
    <2> QED BY <1>7, <2>2, <2>3 DEF BindRuntimeHandle, PersistFails
  <1>8. CASE SettleAnswer(t)
    <2>1. c.pc = "observed" /\ UNCHANGED <<killed, signals, mem, disk>>
      BY <1>8 DEF SettleAnswer, At
    <2>2. /\ ObservedOutcome(x, c.obs) \in {c.obs, "cancelled"}
          /\ Statuses(x, c.obs) \subseteq {c.obs, "cancelled"}
          /\ ObservedOutcome(x, c.obs) # c.obs => x \in killed
          /\ \A status \in Statuses(x, c.obs) : status # c.obs => x \in killed
          /\ Signalled(x) => x \in killed
      BY <1>0, OutcomesStay DEF ObservedOutcome, Statuses, Signalled
    <2>3. /\ c.obs \in Own => Holds(x, c.obs)
          /\ c.obs = "cancelled" => x \in killed
          /\ \A code : ErrorOutcome(code) \notin Own \cup {"cancelled"}
      BY <1>0 DEF Holds, CallerInv, ErrorOutcome, Own
    <2>4. ASSUME NEW o \in {c.obs, "cancelled"}, o # c.obs => x \in killed, NEW pc \in Settling,
                 NEW a \in {o, "none", "record"}, Settle(t, pc, o, a)
          PROVE  StatusInv'
      BY <1>3, <1>5, <2>1, <2>3, <2>4
    <2>5. ASSUME NEW code, NEW pc \in Settling, Settle(t, pc, ErrorOutcome(code), "none") PROVE StatusInv'
      BY <1>3, <1>5, <2>1, <2>3, <2>5
    <2>6. ASSUME Return(t) PROVE StatusInv'
      BY <1>1, <2>1, <2>6
    <2>7. CASE c.mode = "direct"
      <3>1. ASSUME Go(t, "withdrawing") PROVE StatusInv'
        BY <1>2, <1>4, <2>1, <3>1
      <3> QED BY <1>5, <1>8, <2>2, <2>4, <2>6, <2>7, <3>1 DEF SettleAnswer, SettleDirect
    <2>8. CASE c.mode = "task"
      BY <1>5, <1>8, <2>3, <2>4, <2>6, <2>8 DEF SettleAnswer, SettleTask, TaskTerminal
    <2>9. CASE c.mode \notin {"direct", "task"}
      <3>1. SettleFacade(t, x, c.obs, c.mode, c.act)
        BY <1>8, <2>9 DEF SettleAnswer
      <3>2. CASE SettleControl(t, x, c.obs, c.act)
        BY <1>5, <2>2, <2>4, <2>5, <2>6, <3>2 DEF SettleControl
      <3> QED BY <1>5, <2>2, <2>4, <2>5, <2>6, <3>1, <3>2 DEF SettleFacade
    <2> QED BY <2>7, <2>8, <2>9
  <1>9. CASE ClearCancellation(t)
    <2>1. killed' = killed /\ signals' \subseteq signals /\ disk' = disk /\ c.pc = "withdrawing"
      BY <1>9 DEF ClearCancellation, At
    <2> QED BY <1>1, <1>2, <1>4, <1>9, <2>1 DEF ClearCancellation
  <1>10. CASE MarkTerminal(t)
    <2> DEFINE o == ObservedOutcome(x, c.out)
    <2>1. /\ UNCHANGED <<killed, signals, disk>> /\ c.pc = "marking"
          /\ Settle(t, "finishing", o, c.ans)
      BY <1>10 DEF MarkTerminal, At
    <2>2. o \in {c.out, "cancelled"} /\ (o # c.out => x \in killed)
      BY <1>0 DEF ObservedOutcome, Signalled
    <2>3. (c.out \in Own => Holds(x, c.out)) /\ (c.ans \in Own => Holds(x, c.ans))
      BY DEF Holds
    <2>4. "cancelled" \in {c.out, c.ans} => x \in killed
      BY <1>0 DEF CallerInv
    <2> HIDE DEF o
    <2> QED BY <1>3, <1>5, <2>1, <2>2, <2>3, <2>4
  <1>11. CASE Finish(t)
    <2>1. UNCHANGED <<killed, signals>> /\ c.pc = "finishing"
      BY <1>11 DEF Finish, At
    <2>2. CASE Return(t)
      BY <1>1, <2>1, <2>2
    <2>3. CASE Settle(t, "marking", "lost", "none") /\ UNCHANGED registryVars
      BY <1>3, <1>5, <2>1, <2>3
    <2>4. CASE Go(t, "replying") /\ UNCHANGED registryVars /\ Terminal(mem[x])
      <3>1. thread'[t].pc = "replying" /\ thread'[t].exec = x
        BY <1>0, <2>4 DEF Go, Frames
      <3>2. ~Live(disk'[x])
        BY <1>0, <2>4 DEF Terminal, Live, Outcomes
      <3>3. t = "facade" => FacadeInv'
        BY <1>0, <2>1, <2>4, <3>1, <3>2 DEF FacadeInv
      <3> QED BY <1>2, <2>1, <2>4, <3>3
    <2>5. CASE Transact([mem EXCEPT ![x] = Finished(mem[x], c.out)]) /\ Go(t, "dropping")
      <3> DEFINE q == mem[x]
                 o == c.out
                 m == [mem EXCEPT ![x] = Finished(q, o)]
      <3>1. q \in Records /\ o \in Outcomes /\ Transact(m) /\ (c.ans # "none" => o # "errored")
        BY <1>0, <2>1, <2>5 DEF Frames, Sound
      <3>2. /\ Finished(q, o) \in Records /\ Finished(q, o).state # "running"
            /\ Finished(q, o).state \in {q.state, o}
        <4> HIDE DEF q, o
        <4> QED BY <3>1 DEF Finished, Settled, Records, Live, Outcomes
      <3>3. m \in [Executions -> Records] /\ m[x].state # "running" /\ m[x].state \in {q.state, o}
        <4> HIDE DEF q, o
        <4> QED BY <1>0, <3>2
      <3> HIDE DEF m
      <3>4. disk'[x].state # "running" /\ disk'[x].state \in {q.state, o, "absent"}
        BY <1>0, <3>1, <3>3, TransactWrites, AbsentIsRecord
      <3>5. thread'[t].pc = "dropping" /\ thread'[t].exec = x /\ thread'[t].ans = c.ans
        BY <1>0, <2>5 DEF Go, Frames
      <3>6. t = "facade" => FacadeInv'
        BY <1>0, <2>1, <3>1, <3>4, <3>5 DEF FacadeInv, Live
      <3> QED BY <1>2, <2>1, <2>5, <3>6
    <2> QED BY <1>11, <2>2, <2>3, <2>4, <2>5 DEF Finish, FinishFails, AlreadyTerminal,
               PersistFails
  <1>12. CASE DropSignal(t)
    <2>1. killed' = killed /\ signals' \subseteq signals /\ disk' = disk /\ c.pc = "dropping"
      BY <1>12 DEF DropSignal, At
    <2>2. CASE Go(t, "replying") /\ c.ans # "none"
      <3>1. thread'[t].pc = "replying" /\ thread'[t].exec = x /\ thread'[t].ans = c.ans
        BY <1>0, <2>2 DEF Go, Frames
      <3>2. t = "facade" => FacadeInv'
        BY <1>0, <2>1, <2>2, <3>1 DEF FacadeInv
      <3> QED BY <1>2, <2>1, <2>2, <3>2
    <2> QED BY <1>1, <1>12, <2>1, <2>2 DEF DropSignal
  <1> QED BY <1>6, <1>7, <1>8, <1>9, <1>10, <1>11, <1>12

\* An answer tells of an exit that the process shows, unless it starts the command,
\* and of a cancellation only to a kill.
LEMMA RepliesAreHeld ==
  ASSUME NEW act \in Acts \ {"none"}, NEW p \in Processes, NEW a \in Replies(act, p)
  PROVE  /\ a[1] = "cancelled" => act = "kill"
         /\ act = "exec" /\ a[1] \in Own => a[2] \in {"exit_ok", "exit_bad"} /\ ExitStatus(a[2]) = a[1]
         /\ act # "exec" =>
              /\ a[1] \in Own => p \in {"exit_ok", "exit_bad"} /\ ExitStatus(p) = a[1]
              /\ a[2] \in {"exit_ok", "exit_bad"} => a[2] = p
              /\ p \in {"none", "gone"} => a[2] \in {"none", "gone"}
  <1> DEFINE Good(b) ==
        /\ b[1] = "cancelled" => act = "kill"
        /\ act = "exec" /\ b[1] \in Own => b[2] \in {"exit_ok", "exit_bad"} /\ ExitStatus(b[2]) = b[1]
        /\ act # "exec" =>
             /\ b[1] \in Own => p \in {"exit_ok", "exit_bad"} /\ ExitStatus(p) = b[1]
             /\ b[2] \in {"exit_ok", "exit_bad"} => b[2] = p
             /\ p \in {"none", "gone"} => b[2] \in {"none", "gone"}
  <1>1. \A b \in Answers(act, p) : Good(b)
    <2>1. CASE act = "exec"
      BY <2>1, SMTT(30) DEF Answers, ExitStatus, Own
    <2>2. CASE act = "poll"
      BY <2>2, SMTT(30) DEF Answers, ExitStatus, Own, Processes
    <2>3. CASE act = "write"
      BY <2>3, SMTT(30) DEF Answers, Own, Processes
    <2>4. CASE act = "kill"
      BY <2>4, SMTT(30) DEF Answers, ExitStatus, Own, Processes
    <2> QED BY <2>1, <2>2, <2>3, <2>4 DEF Acts
  <1>2. CASE a \in Answers(act, p)
    BY <1>1, <1>2
  <1>3. ASSUME NEW b \in Answers(act, p), a = <<"timeout", b[2]>> PROVE Good(a)
    BY <1>1, <1>3, SMTT(30) DEF Own
  <1>4. ASSUME NEW obs \in {"invalid", "upstream"}, a = <<obs, p>> PROVE Good(a)
    BY <1>4, SMTT(30) DEF Own
  <1> HIDE DEF Good
  <1>5. Good(a)
    BY <1>1, <1>2, <1>3, <1>4 DEF Replies
  <1> QED BY <1>5 DEF Good

\* The runtime's answer to a call.
LEMMA AnsweredStatus ==
  ASSUME OwnershipInv, DurabilityInv, CallsInv, StatusInv, \A e \in Executions : Moves(e),
         NEW t \in Threads, RuntimeAnswers(t)
  PROVE  StatusInv'
  <1> DEFINE c == thread[t]
  <1>a. PICK x \in Executions : x = c.exec
    BY DEF OwnershipInv, TypeInv, Frames, RuntimeAnswers, At
  <1>0. /\ thread \in [Threads -> Frames] /\ proc \in [Executions -> Processes] /\ CallInv(t)
        /\ c \in Frames /\ c.exec = x /\ "facade" \in Threads /\ c.act \in Acts \ {"none"} /\ c.pc = "calling"
        /\ UNCHANGED <<disk, fresh, killed, said, signals>> /\ x \notin fresh
        /\ CallerInv(t) /\ FacadeInv /\ ExitInv(x)
    BY <1>a DEF OwnershipInv, TypeInv, CallsInv, Frames, RuntimeAnswers, At, historyVars,
       registryVars, StatusInv, DurabilityInv, AnswerInv, Threads
  <1>1. PICK a \in IF runtime = "up" THEN Replies(c.act, proc[x]) ELSE {<<"broken", proc[x]>>} :
           /\ proc' = [proc EXCEPT ![x] = a[2]]
           /\ thread' = [thread EXCEPT ![t].obs = a[1], ![t].pc =
                 IF c.mode = "exec" /\ a[1] \in {"running", "completed", "failed"}
                 THEN "binding" ELSE "observed"]
    BY <1>a DEF RuntimeAnswers
  <1>2. /\ a[1] = "cancelled" => c.act = "kill"
        /\ c.act = "exec" /\ a[1] \in Own => a[2] \in {"exit_ok", "exit_bad"} /\ ExitStatus(a[2]) = a[1]
        /\ c.act # "exec" =>
             /\ a[1] \in Own => proc[x] \in {"exit_ok", "exit_bad"} /\ ExitStatus(proc[x]) = a[1]
             /\ a[2] \in {"exit_ok", "exit_bad"} => a[2] = proc[x]
             /\ proc[x] \in {"none", "gone"} => a[2] \in {"none", "gone"}
             /\ proc[x] \in Ended => a[2] \in Ended
    <2>1. CASE runtime = "up"
      <3>1. c.act \in Acts \ {"none"} /\ proc[x] \in Processes /\ a \in Replies(c.act, proc[x])
        BY <1>0, <1>1, <2>1
      <3> DEFINE act == c.act
                 p == proc[x]
      <3>2. act \in Acts \ {"none"} /\ p \in Processes /\ a \in Replies(act, p)
        BY <3>1
      <3> HIDE DEF act, p
      <3>3. act # "exec" /\ p \in Ended => a[2] \in Ended
        BY <3>2, RepliesAreSeen
      <3>4. /\ a[1] = "cancelled" => act = "kill"
            /\ act = "exec" /\ a[1] \in Own => a[2] \in {"exit_ok", "exit_bad"} /\ ExitStatus(a[2]) = a[1]
            /\ act # "exec" =>
                 /\ a[1] \in Own => p \in {"exit_ok", "exit_bad"} /\ ExitStatus(p) = a[1]
                 /\ a[2] \in {"exit_ok", "exit_bad"} => a[2] = p
                 /\ p \in {"none", "gone"} => a[2] \in {"none", "gone"}
        BY <3>2, RepliesAreHeld
      <3> QED BY <3>3, <3>4 DEF act, p
    <2>2. CASE runtime # "up"
      BY <1>1, <2>2, SMTT(30) DEF Own
    <2> QED BY <2>1, <2>2
  <1>3. /\ thread'[t].obs = a[1] /\ thread'[t].exec = x /\ thread'[t].mode = c.mode /\ thread'[t].act = c.act
        /\ thread'[t].out = c.out /\ thread'[t].ans = c.ans /\ thread'[t].pc \in {"binding", "observed"}
        /\ \A u \in Threads : u # t => thread'[u] = thread[u]
    BY <1>0, <1>1 DEF Frames
  <1>4. proc'[x] = a[2] /\ \A e \in Executions : e # x => proc'[e] = proc[e]
    BY <1>0, <1>1
  <1>5. \A e \in Executions : \A d \in Own : <<e, d>> \in said' => Holds(e, d)
    BY <1>0 DEF Holds
  <1>6. ASSUME NEW e \in Executions, e # x PROVE ExitInv(e)'
    <2>1. \A u \in Threads : Tame(u, e)
      BY <1>3, <1>6 DEF Tame
    <2> QED BY <1>0, <1>4, <1>5, <1>6, <2>1, ExitStays DEF StatusInv
  <1>7. ASSUME c.act # "exec" PROVE ExitInv(x)'
    <2>1. \A d \in Own : d \in {a[1], c.out, c.ans} => Holds(x, d)
      BY <1>0, <1>2, <1>7 DEF Holds
    <2>2. ~Starts(thread'[t], x)
      BY <1>3 DEF Starts
    <2>3. \A u \in Threads : Tame(u, x)
      BY <1>3, <2>1, <2>2 DEF Tame
    <2> QED BY <1>0, <1>2, <1>4, <1>5, <1>7, <2>3, ExitStays
  <1>8. ASSUME c.act = "exec" PROVE ExitInv(x)'
    <2>1. Starts(c, x) /\ \A u \in Threads \ {t} : thread[u].pc # "idle" => thread[u].exec # x
      BY <1>0, <1>8 DEF CallInv, Shape, Alone, Starts
    <2>2. ASSUME NEW d \in Own PROVE ~Holds(x, d)
      BY <1>0, <2>1 DEF ExitInv, Started
    <2>3. Started(x)'
      BY <1>0, <1>3, <2>1 DEF Started, Starts
    <2>4. ASSUME NEW d \in Own, Holds(x, d)'
          PROVE  a[2] \in {"exit_ok", "exit_bad"} /\ d = ExitStatus(a[2])
      <3>1. CASE d = a[1]
        BY <1>2, <1>8, <2>4, <3>1
      <3>2. CASE proc'[x] \in {"exit_ok", "exit_bad"} /\ ExitStatus(proc'[x]) = d
        BY <1>4, <3>2
      <3>3. CASE \E u \in Threads : thread[u].exec = x /\ d \in {thread[u].obs, thread[u].out, thread[u].ans}
        BY <2>2, <2>4, <3>3 DEF Holds
      <3>4. CASE disk[x].state = d \/ <<x, d>> \in said
        BY <2>2, <2>4, <3>4 DEF Holds
      <3>5. \/ \E u \in Threads : thread'[u].exec = x /\ d \in {thread'[u].obs, thread'[u].out, thread'[u].ans}
            \/ disk'[x].state = d \/ <<x, d>> \in said'
            \/ proc'[x] \in {"exit_ok", "exit_bad"} /\ ExitStatus(proc'[x]) = d
        BY <2>4 DEF Holds, ExitStatus
      <3> QED BY <1>0, <1>3, <3>1, <3>2, <3>3, <3>4, <3>5
    <2> QED BY <1>4, <2>3, <2>4 DEF ExitInv, Ended
  <1>9. CallerInv(t)' /\ (t = "facade" => FacadeInv')
    BY <1>0, <1>2, <1>3 DEF CallerInv, FacadeInv
  <1> QED BY <1>0, <1>3, <1>6, <1>7, <1>8, <1>9, StatusMoves DEF StatusInv

\* The facade gives the status it fixed.
LEMMA AnswerKeepsStatus ==
  ASSUME OwnershipInv, DurabilityInv, StatusInv, \A e \in Executions : Moves(e),
         NEW t \in Threads, Answer(t)
  PROVE  StatusInv'
  <1> DEFINE x == thread[t].exec
             c == thread[t]
  <1>0. /\ thread \in [Threads -> Frames] /\ "facade" \in Threads /\ c \in Frames /\ x \in Executions /\ x \notin fresh
        /\ c.pc = "replying" /\ Return(t) /\ UNCHANGED <<disk, fresh, killed, signals, proc>>
        /\ CallerInv(t) /\ FacadeInv
    BY DEF OwnershipInv, TypeInv, Frames, Answer, At, historyVars, registryVars,
       StatusInv, DurabilityInv, AnswerInv, Threads
  <1>1. thread'[t] = Idle /\ \A u \in Threads : u # t => thread'[u] = thread[u]
    BY <1>0 DEF Return
  <1>2. CallerInv(t)' /\ (t = "facade" => FacadeInv')
    BY <1>1, SMTT(30) DEF CallerInv, FacadeInv, Idle
  <1>3. \A u \in Threads, e \in Executions : Tame(u, e)
    <2>1. /\ Idle.pc = "idle" /\ Idle.obs = "none" /\ Idle.out = "none" /\ Idle.ans = "none"
          /\ "none" \notin Own
      BY DEF Idle, Own
    <2> QED BY <1>1, <2>1 DEF Tame, Starts
  <1>4. CASE said' = said
    BY <1>0, <1>1, <1>2, <1>3, <1>4, QuietStatus
  <1>5. CASE said' = said \cup {<<x, c.ans>>} /\ c.ans # "record" /\ c.mode # "direct"
    <2>1. c.ans \in ExitSeen /\ c.mode \notin Beside
      BY <1>0, <1>5 DEF Frames, Sound, Beside
    <2>2. disk[x].state \notin {"running", "errored"} /\ (c.ans = "cancelled" => x \in killed)
      BY <1>0, <2>1 DEF CallerInv, FacadeInv, Live, ExitSeen
    <2>3. \A e \in Executions : \A d \in Own : <<e, d>> \in said' => Holds(e, d)
      BY <1>5 DEF Holds
    <2>4. ASSUME NEW e \in Executions PROVE ExitInv(e)'
      <3>1. ExitInv(e) /\ Moves(e) /\ proc' = proc /\ fresh' = fresh
        BY <1>0 DEF StatusInv
      <3>2. \A u \in Threads : Tame(u, e)
        BY <1>3
      <3>3. \A d \in Own : <<e, d>> \in said' => Holds(e, d)
        BY <2>3
      <3> HIDE DEF x, c
      <3> QED BY <3>1, <3>2, <3>3, ExitStays
    <2>5. said' \subseteq Executions \X ExitSeen
      <3>1. <<x, c.ans>> \in Executions \X ExitSeen
        BY <1>0, <2>1
      <3> HIDE DEF x, c
      <3> QED BY <1>5, <3>1 DEF StatusInv
    <2>6. \A e \in Executions, status \in ExitSeen : <<e, status>> \in said' =>
            \/ <<e, status>> \in said
            \/ /\ e \notin fresh /\ disk[e].state \notin {"running", "errored"}
               /\ status = "cancelled" => e \in killed
      BY <1>0, <1>5, <2>2
    <2> QED BY <1>0, <1>1, <1>2, <2>4, <2>5, <2>6, StatusMoves
  <1> QED BY <1>4, <1>5 DEF Answer

\* Initially nothing was said.
LEMMA InitStatus == Init => StatusInv
  <1> SUFFICES ASSUME Init PROVE StatusInv
    OBVIOUS
  <1>1. \A t \in Threads : thread[t] = Idle
    BY DEF Init
  <1>2. /\ Idle.pc = "idle" /\ Idle.obs = "none" /\ Idle.out = "none" /\ Idle.ans = "none" /\ Idle.act = "none"
        /\ "none" \notin Own /\ "absent" \notin Own /\ "facade" \in Threads
    BY DEF Idle, Own, Threads
  <1>3. ASSUME NEW e \in Executions PROVE ExitInv(e) /\ KilledInv(e) /\ SaidInv(e)
    <2>1. disk[e].state = "absent" /\ said = {} /\ proc[e] = "none"
      BY AbsentIsRecord DEF Init
    <2> QED BY <1>1, <1>2, <2>1 DEF ExitInv, Holds, KilledInv, SaidInv
  <1> QED BY <1>1, <1>2, <1>3 DEF StatusInv, CallerInv, FacadeInv, Init

\* Every step keeps the statuses.
LEMMA NextStatus ==
    OwnershipInv /\ DurabilityInv /\ CallsInv /\ StatusInv /\ [Next]_vars => StatusInv'
  <1> SUFFICES ASSUME OwnershipInv, DurabilityInv, CallsInv, StatusInv, [Next]_vars PROVE StatusInv'
    OBVIOUS
  <1> USE DEF historyVars, worldVars, registryVars, clockVars
  <1>0. /\ thread \in [Threads -> Frames] /\ \A e \in Executions : Moves(e)
        /\ mem \in [Executions -> Records] /\ proc \in [Executions -> Processes]
        /\ "facade" \in Threads /\ (up => mem = disk)
    BY RecordsMove DEF OwnershipInv, TypeInv, MemoryInv, Threads
  <1>1. ASSUME thread' = thread, UNCHANGED <<fresh, killed, said>>, signals' \subseteq signals,
               \A e \in Executions : proc'[e] = proc[e] \/ proc'[e] = "gone"
        PROVE  StatusInv'
    <2>1. \A t \in Threads, e \in Executions : Tame(t, e)
      BY <1>1 DEF Tame
    <2> QED BY <1>0, <1>1, <2>1, QuietStatus
  <1>2. ASSUME NEW e \in Executions, NEW t \in Threads, NEW f, f.exec = e, f.obs = "none",
               f.out \in {"none", "lost"}, f.ans = "none", f.pc \in {"accepting", "calling", "marking"},
               f.mode # "exec", f.act = "kill" => f.pc = "accepting", t = "facade" \/ f.mode \in Beside,
               Live(mem[e]), up, thread' = [thread EXCEPT ![t] = f],
               UNCHANGED <<fresh, killed, said, signals, disk, proc>>
        PROVE  StatusInv'
    <2>1. thread'[t] = f /\ \A u \in Threads : u # t => thread'[u] = thread[u]
      BY <1>0, <1>2
    <2>2. \A u \in Threads, d \in Executions : Tame(u, d)
      BY <1>2, <2>1 DEF Tame, Starts, Own
    <2>3. CallerInv(t)'
      BY <1>2, <2>1 DEF CallerInv
    <2>4. t = "facade" => FacadeInv'
      BY <1>0, <1>2, <2>1 DEF FacadeInv, Live
    <2> QED BY <1>0, <1>2, <2>1, <2>2, <2>3, <2>4, QuietStatus
  <1>3. ASSUME NEW e \in Executions, NEW s \in Sessions, StartSession(e, s) PROVE StatusInv'
    <2> DEFINE f == Call("exec", e, "exec")
               m == [mem EXCEPT ![e] = NewRecord(s)]
    <2>1. /\ f.mode = "exec" /\ f.act = "exec" /\ f.obs = "none" /\ f.exec = e /\ f.pc = "calling"
          /\ f.out = "none" /\ f.ans = "none"
      BY DEF Call
    <2>2. /\ thread'["facade"] = f /\ \A u \in Threads : u # "facade" => thread'[u] = thread[u]
          /\ e \in fresh /\ fresh' = fresh \ {e} /\ UNCHANGED <<proc, killed, said, signals>>
          /\ Transact(m)
      BY <1>0, <1>3 DEF StartSession
    <2> HIDE DEF f
    <2>3. m \in [Executions -> Records] /\ m[e].state = "running"
      BY <1>0, NewRecordIsRecord
    <2> HIDE DEF m
    <2>4. disk'[e].state \in {"running", "absent"}
      BY <2>2, <2>3, TransactWrites, AbsentIsRecord
    <2>5. ASSUME NEW d \in Executions, d # e PROVE ExitInv(d)'
      <3>1. \A t \in Threads : Tame(t, d)
        BY <2>1, <2>2, <2>5 DEF Tame
      <3>2. \A c \in Own : <<d, c>> \in said' => Holds(d, c)
        BY <2>2 DEF Holds
      <3> QED BY <1>0, <2>2, <2>5, <3>1, <3>2, ExitStays DEF StatusInv
    <2>6. ExitInv(e)'
      <3>1. proc'[e] \in {"none", "gone"} /\ \A c \in Own : ~Holds(e, c)
        BY <2>2 DEF StatusInv, ExitInv, Started
      <3>2. ASSUME NEW c \in Own, Holds(e, c)' PROVE FALSE
        BY <2>1, <2>2, <2>4, <3>1, <3>2 DEF Holds, Own
      <3> QED BY <3>1, <3>2 DEF ExitInv
    <2>7. CallerInv("facade")'
      BY <2>1, <2>2 DEF CallerInv
    <2>8. FacadeInv'
      BY <2>1, <2>2, <2>4 DEF FacadeInv
    <2>9. \A t \in Threads : thread'[t] = thread[t] \/ CallerInv(t)'
      BY <2>2, <2>7
    <2>10. said' \subseteq Executions \X ExitSeen /\ \A d \in fresh \ fresh' : disk'[d].state \in {"running", "absent"}
      BY <2>2, <2>4 DEF StatusInv
    <2>11. \A d \in Executions : Moves(d) /\ ExitInv(d)'
      BY <1>0, <2>5, <2>6
    <2> QED BY <2>2, <2>8, <2>9, <2>10, <2>11, StatusMoves
  <1>4. ASSUME NEW e \in Executions, NEW t \in Threads, NEW mode \in {"control", "direct", "task", "observe"},
               NEW act \in {"poll", "write", "kill"}, Live(mem[e]), up, t = "facade" \/ mode \in Beside,
               thread' = [thread EXCEPT ![t] = Call(mode, e, act)],
               UNCHANGED <<fresh, killed, said, signals, disk, proc>>
        PROVE  StatusInv'
    <2> DEFINE f == Call(mode, e, act)
    <2>1. /\ f.mode = mode /\ f.act = act /\ f.obs = "none" /\ f.out = "none" /\ f.ans = "none"
          /\ f.exec = e /\ f.pc \in {"accepting", "calling"} /\ (act = "kill" => f.pc = "accepting")
      BY DEF Call
    <2> HIDE DEF f
    <2>2. thread' = [thread EXCEPT ![t] = f]
      BY <1>4 DEF f
    <2> QED BY <1>2, <1>4, <2>1, <2>2
  <1>5. CASE Control
    <2>1. ASSUME NEW e \in Executions, NEW t \in Threads, NEW mode \in {"control", "direct", "task"},
                 NEW act \in {"poll", "write", "kill"}, Begin(t, mode, e, act), t = "facade" \/ mode \in Beside
          PROVE  StatusInv'
      BY <1>4, <2>1 DEF Begin, Controllable
    <2>2. ASSUME NEW e \in Executions, NEW t \in Threads, PollEnded(t, e) PROVE StatusInv'
      BY <1>1, <2>2 DEF PollEnded
    <2> QED BY <1>5, <2>1, <2>2 DEF Control, BeginFacadeControl, BeginDirectControl,
               BeginTaskCancel, Threads, Beside
  <1>6. ASSUME NEW e \in Executions, BeginObserve(e) PROVE StatusInv'
    BY <1>0, <1>4, <1>6 DEF BeginObserve
  <1>7. ASSUME NEW e \in Executions, ObserveRuntimeGone(e) PROVE StatusInv'
    <2> DEFINE f == [Call("observe", e, "poll") EXCEPT !.pc = "marking", !.out = "lost"]
    <2>1. /\ f.mode = "observe" /\ f.act = "poll" /\ f.obs = "none" /\ f.out = "lost" /\ f.exec = e
          /\ f.pc = "marking" /\ f.ans = "none"
      BY DEF Call
    <2>2. /\ thread' = [thread EXCEPT !["facade"] = f] /\ Live(mem[e]) /\ up
          /\ UNCHANGED <<fresh, killed, said, signals, disk, proc>>
      BY <1>7 DEF ObserveRuntimeGone
    <2> HIDE DEF f
    <2> QED BY <1>0, <1>2, <2>1, <2>2
  <1>8. CASE Down
    <2>1. \A t \in Threads : thread'[t] = Idle
      BY <1>8 DEF Down
    <2>2. /\ Idle.pc = "idle" /\ Idle.obs = "none" /\ Idle.out = "none" /\ Idle.ans = "none" /\ Idle.act = "none"
          /\ "none" \notin Own
      BY DEF Idle, Own
    <2>3. \A t \in Threads, e \in Executions : Tame(t, e)
      BY <2>1, <2>2 DEF Tame, Starts
    <2>4. (\A t \in Threads : CallerInv(t)') /\ FacadeInv'
      BY <1>0, <2>1, <2>2 DEF CallerInv, FacadeInv
    <2>5. /\ UNCHANGED <<fresh, killed, said>> /\ signals' = {} /\ \A e \in Executions : proc'[e] = "gone"
      BY <1>8 DEF Down
    <2> QED BY <1>0, <2>3, <2>4, <2>5, QuietStatus
  <1>9. ASSUME NEW e \in Executions, ProcessExits(e) PROVE StatusInv'
    <2>1. /\ UNCHANGED <<thread, disk, fresh, killed, said, signals>>
          /\ proc[e] \in {"running", "dying"} /\ proc'[e] \in {"exit_ok", "exit_bad"}
          /\ \A d \in Executions : d # e => proc'[d] = proc[d]
      BY <1>0, <1>9 DEF ProcessExits
    <2>2. ASSUME NEW d \in Executions, d # e PROVE ExitInv(d)'
      <3>1. ExitInv(d) /\ Moves(d) /\ proc'[d] = proc[d] /\ fresh' = fresh
        BY <1>0, <2>1, <2>2 DEF StatusInv
      <3>2. \A t \in Threads : Tame(t, d)
        BY <2>1 DEF Tame
      <3>3. \A c \in Own : <<d, c>> \in said' => Holds(d, c)
        BY <2>1 DEF Holds
      <3> QED BY <3>1, <3>2, <3>3, ExitStays
    <2>3. ExitInv(e)'
      <3>1. Started(e) /\ \A c \in Own : ~Holds(e, c)
        BY <2>1 DEF StatusInv, ExitInv, Ended
      <3>2. ASSUME NEW c \in Own, Holds(e, c)' PROVE c = ExitStatus(proc'[e])
        BY <2>1, <3>1, <3>2 DEF Holds
      <3> QED BY <2>1, <3>1, <3>2 DEF ExitInv, Started, Ended
    <2> QED BY <1>0, <2>1, <2>2, <2>3, StatusMoves DEF StatusInv
  <1>10. ASSUME NEW s \in Sessions, OpenSession(s) \/ CloseSession(s) \/ OrphanOwnedBy(s)
         PROVE  StatusInv'
    BY <1>1, <1>10 DEF OpenSession, CloseSession, OrphanOwnedBy
  <1>11. ASSUME NEW s \in Sessions, NEW e \in Executions, NEW k,
                AdoptOwner(s, e, k) \/ TransferTask(s, k)
         PROVE  StatusInv'
    BY <1>1, <1>11 DEF AdoptOwner, TransferTask
  <1>12. ASSUME NEW e \in Executions, Expire(e) PROVE StatusInv'
    BY <1>1, <1>12 DEF Expire
  <1>13. CASE ReapStale \/ ReapSignals \/ RuntimeDies \/ Restart \/ UNCHANGED vars
    BY <1>1, <1>13 DEF ReapStale, ReapSignals, RuntimeDies, Restart, vars
  <1>14. ASSUME NEW t \in Threads, Step(t) PROVE StatusInv'
    BY <1>0, <1>14, StepKeepsStatus, AnsweredStatus, AnswerKeepsStatus DEF Step
  <1> QED
    BY <1>3, <1>5, <1>6, <1>7, <1>8, <1>9, <1>10, <1>11, <1>12, <1>13, <1>14
    DEF Next, ObserverFails, Crash

\* An outcome answered from the record, or recorded and then answered by a direct
\* call, is in the registry file and stays the one there; a status the facade fixed
\* before it was recorded differs from the one there only after a kill was accepted,
\* or when the command was given up as lost (finish, execution_registry.rs:504;
\* control_command_during_work, command_control.rs:138; normalize_command_result and
\* mark_terminal, facade.rs:2488, :1131).
THEOREM AnswersStay == Spec => []AnswersAreDurable
  <1>1. DurabilityInv /\ StatusInv /\ OwnershipInv => AnswersAreDurable
    <2> SUFFICES ASSUME DurabilityInv, StatusInv, OwnershipInv, NEW e \in Executions, disk[e].state # "absent"
                 PROVE  /\ told[e] \in {"none", Public(disk[e].state)}
                        /\ \A status \in {"completed", "failed", "cancelled"} : <<e, status>> \in said =>
                             \/ Public(disk[e].state) \in {status, "lost"}
                             \/ e \in killed /\ "cancelled" \in {status, Public(disk[e].state)}
      BY DEF AnswersAreDurable
    <2>1. told[e] \in {"none", Public(disk[e].state)}
      BY DEF DurabilityInv, ToldInv
    <2>2. ASSUME NEW status \in {"completed", "failed", "cancelled"}, <<e, status>> \in said
          PROVE  \/ Public(disk[e].state) \in {status, "lost"}
                 \/ e \in killed /\ "cancelled" \in {status, Public(disk[e].state)}
      <3>1. disk[e].state \in Outcomes \ {"errored"}
        BY <2>2 DEF StatusInv, SaidInv, ExitSeen, OwnershipInv, TypeInv, Records
      <3>2. Public(disk[e].state) = disk[e].state
        BY <3>1 DEF Public
      <3>3. status = "cancelled" \/ disk[e].state = "cancelled" => e \in killed
        BY <2>2 DEF StatusInv, KilledInv
      <3>4. status \in Own /\ disk[e].state \in Own => status = disk[e].state
        BY <2>2 DEF StatusInv, ExitInv, Holds
      <3> QED BY <2>2, <3>1, <3>2, <3>3, <3>4 DEF Outcomes, Own
    <2> QED BY <2>1, <2>2
  <1> QED
    BY <1>1, InitOwnership, NextOwnership, InitDurability, NextDurability, InitCalls, NextCalls,
       InitStatus, NextStatus, PTL DEF Spec

=============================================================================
