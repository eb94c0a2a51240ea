-------------------------- MODULE SupervisorProofs --------------------------
(***************************************************************************)
(* Supervisor's two safety properties, for every set of trees.  Neither is *)
(* inductive: that a running process has an open job rests on where in a   *)
(* spawn the assignment stands, and that a stopped tree is empty on what   *)
(* stop_with has waited for before its last wait.                          *)
(***************************************************************************)
EXTENDS Supervisor, TLAPS

Unassigned == {"idle", "job", "create", "assign"}
Assigned == {"time", "resume", "held", "stop", "drain", "settle", "stopped"}

\* What holds of one tree.
TreeInv(t) ==
  /\ (root[t] = "running" \/ kid[t] = "running") => owned[t] /\ job[t] = "open"
  /\ step[t] \in Unassigned => ~owned[t]
  /\ step[t] \in Assigned => owned[t]
  /\ step[t] \in Assigned \cup {"create", "assign"} /\ app = "up" => job[t] = "open"
  /\ step[t] = "settle" => root[t] \in {"none", "left", "gone"} /\ kid[t] \in {"none", "gone"}
  /\ step[t] = "stopped" => root[t] = "gone" /\ kid[t] \in {"none", "gone"}
SupervisorInv == SupervisorTypeOK /\ \A t \in Trees : TreeInv(t)

\* Closing jobs leaves no process of them running, and nothing else changes.
LEMMA CloseKills ==
  ASSUME SupervisorInv, NEW S \in SUBSET Trees, Close(S)
  PROVE  /\ job' \in [Trees -> {"none", "open", "closed"}]
         /\ root' \in [Trees -> {"none", "suspended", "running", "dying", "left", "gone"}]
         /\ kid' \in [Trees -> {"none", "running", "dying", "gone"}]
         /\ \A t \in Trees :
              /\ t \notin S => job'[t] = job[t] /\ root'[t] = root[t] /\ kid'[t] = kid[t]
              /\ root'[t] = "running" => root[t] = "running" /\ job'[t] = "open"
              /\ kid'[t] = "running" => kid[t] = "running" /\ job'[t] = "open"
              /\ root[t] \in {"none", "left", "gone"} => root'[t] = root[t]
              /\ kid[t] \in {"none", "gone"} => kid'[t] = kid[t]
  BY DEF SupervisorInv, SupervisorTypeOK, TreeInv, Close, Terminate, Killed

\* The first states have no process at all.
LEMMA InitInv == SupervisorInit => SupervisorInv
  BY DEF SupervisorInit, SupervisorInv, SupervisorTypeOK, TreeInv, Steps, Errors, Unassigned,
         Assigned

\* Every call of the owner, every event of the kernel and the desktop's end keep
\* the invariant.
LEMMA NextInv == SupervisorInv /\ [SupervisorNext]_supervisorVars => SupervisorInv'
  <1> SUFFICES ASSUME SupervisorInv, [SupervisorNext]_supervisorVars PROVE SupervisorInv'
    OBVIOUS
  <1> USE DEF SupervisorInv, SupervisorTypeOK, TreeInv, Steps, Errors, Unassigned, Assigned
  <1>1. ASSUME NEW t \in Trees, BeginSpawn(t) PROVE SupervisorInv'
    BY <1>1 DEF BeginSpawn, Goto, Report, osVars
  <1>2. ASSUME NEW t \in Trees, CreateJob(t) PROVE SupervisorInv'
    BY <1>2 DEF CreateJob, Goto, Report, Refuse
  <1>3. ASSUME NEW t \in Trees, CreateProcess(t) PROVE SupervisorInv'
    <2>1. CASE Close({t}) /\ Refuse(t, "CreateProcessW")
      BY <1>3, <2>1, CloseKills, {t} \in SUBSET Trees DEF CreateProcess, Refuse, Goto, Report
    <2>2. CASE /\ root' = [root EXCEPT ![t] = "suspended"]
               /\ Goto(t, "assign") /\ UNCHANGED <<job, kid, error>>
      BY <1>3, <2>2 DEF CreateProcess, Goto
    <2> QED BY <1>3, <2>1, <2>2 DEF CreateProcess
  <1>4. ASSUME NEW t \in Trees, Assign(t) PROVE SupervisorInv'
    <2>1. CASE /\ owned' = [owned EXCEPT ![t] = TRUE]
               /\ Goto(t, "time") /\ UNCHANGED <<job, root, error>>
      BY <1>4, <2>1 DEF Assign, Goto
    <2>2. CASE /\ \E p \in {Killed(root[t]), root[t]} : root' = [root EXCEPT ![t] = p]
               /\ job' = [job EXCEPT ![t] = "closed"]
               /\ Refuse(t, "ownership") /\ UNCHANGED owned
      <3>1. PICK p \in {Killed(root[t]), root[t]} : root' = [root EXCEPT ![t] = p]
        BY <2>2
      <3>2. root[t] # "running" /\ kid[t] # "running" /\ p # "running"
        BY <1>4, <3>1 DEF Assign, Killed
      <3>3. p \in {"none", "suspended", "running", "dying", "left", "gone"}
        BY <3>1 DEF Killed
      <3>4. SupervisorTypeOK'
        BY <1>4, <2>2, <3>1, <3>3 DEF Assign, Refuse, Goto, Report
      <3>5. \A u \in Trees : TreeInv(u)'
        BY <1>4, <2>2, <3>1, <3>2 DEF Assign, Refuse, Goto, Report
      <3> QED BY <3>4, <3>5
    <2> QED BY <1>4, <2>1, <2>2 DEF Assign
  <1>5. ASSUME NEW t \in Trees, CreationTime(t) PROVE SupervisorInv'
    <2>1. CASE Close({t}) /\ Refuse(t, "ownership")
      BY <1>5, <2>1, CloseKills, {t} \in SUBSET Trees DEF CreationTime, Refuse, Goto, Report
    <2>2. CASE Goto(t, "resume") /\ UNCHANGED <<job, root, kid, error>>
      BY <1>5, <2>2 DEF CreationTime, Goto
    <2> QED BY <1>5, <2>1, <2>2 DEF CreationTime
  <1>6. ASSUME NEW t \in Trees, Resume(t) PROVE SupervisorInv'
    <2>1. CASE Close({t}) /\ Refuse(t, "ownership")
      BY <1>6, <2>1, CloseKills, {t} \in SUBSET Trees DEF Resume, Refuse, Goto, Report
    <2>2. CASE /\ root' = [root EXCEPT ![t] = IF @ = "suspended" THEN "running" ELSE @]
               /\ Goto(t, "held") /\ UNCHANGED <<job, kid, error>>
      BY <1>6, <2>2 DEF Resume, Goto
    <2> QED BY <1>6, <2>1, <2>2 DEF Resume
  <1>7. ASSUME NEW t \in Trees, BeginStop(t) PROVE SupervisorInv'
    BY <1>7 DEF BeginStop, Goto, Report, osVars
  <1>8. ASSUME NEW t \in Trees, Stop(t) PROVE SupervisorInv'
    <2>1. CASE Empty(t) /\ Goto(t, "settle") /\ UNCHANGED <<root, kid, error>>
      BY <1>8, <2>1 DEF Stop, Goto, Empty
    <2>2. CASE Terminate({t}) /\ Goto(t, "drain") /\ UNCHANGED error
      BY <1>8, <2>2 DEF Stop, Goto, Terminate, Killed
    <2>3. CASE GiveUp(t) /\ UNCHANGED <<root, kid>>
      BY <1>8, <2>3 DEF Stop, GiveUp, Goto, Report
    <2> QED BY <1>8, <2>1, <2>2, <2>3 DEF Stop
  <1>9. ASSUME NEW t \in Trees, Drain(t) PROVE SupervisorInv'
    BY <1>9 DEF Drain, GiveUp, Goto, Report, Empty, osVars
  <1>10. ASSUME NEW t \in Trees, Settle(t) PROVE SupervisorInv'
    BY <1>10 DEF Settle, GiveUp, Goto, Report, osVars
  <1>11. ASSUME NEW t \in Trees, Drop(t) PROVE SupervisorInv'
    BY <1>11, CloseKills, {t} \in SUBSET Trees DEF Drop, Goto
  <1>12. ASSUME NEW t \in Trees, RootLeaves(t) PROVE SupervisorInv'
    BY <1>12 DEF RootLeaves
  <1>13. ASSUME NEW t \in Trees, RootSignals(t) PROVE SupervisorInv'
    BY <1>13 DEF RootSignals
  <1>14. ASSUME NEW t \in Trees, KidEnds(t) PROVE SupervisorInv'
    BY <1>14 DEF KidEnds
  <1>15. ASSUME NEW t \in Trees, Fork(t) PROVE SupervisorInv'
    BY <1>15 DEF Fork
  <1>16. CASE Crash
    BY <1>16, CloseKills, Trees \in SUBSET Trees DEF Crash
  <1>17. CASE UNCHANGED supervisorVars
    BY <1>17 DEF supervisorVars
  <1> QED
    BY <1>1, <1>2, <1>3, <1>4, <1>5, <1>6, <1>7, <1>8, <1>9, <1>10, <1>11, <1>12, <1>13, <1>14,
       <1>15, <1>16, <1>17 DEF SupervisorNext, System, Supervising

\* No process of any tree runs outside an open job, at any moment of spawning,
\* stopping, dropping and dying (windows_supervisor.rs:297-393, 723-736).
THEOREM NothingRunsUnowned == SupervisorSpec => []NoOrphanRuns
  <1>1. SupervisorInv => NoOrphanRuns
    BY DEF SupervisorInv, TreeInv, NoOrphanRuns
  <1> QED BY <1>1, InitInv, NextInv, PTL DEF SupervisorSpec

\* A tree whose stop succeeded has no process left (stop_with,
\* windows_supervisor.rs:423-464).
THEOREM StopLeavesNothing == SupervisorSpec => []StoppedIsEmpty
  <1>1. SupervisorInv => StoppedIsEmpty
    BY DEF SupervisorInv, TreeInv, StoppedIsEmpty
  <1> QED BY <1>1, InitInv, NextInv, PTL DEF SupervisorSpec
=============================================================================
