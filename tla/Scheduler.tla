------------------------------ MODULE Scheduler ------------------------------
(***************************************************************************)
(* The admission scheduler of the control plane                            *)
(* (src-tauri/src/control_plane/scheduler.rs).                             *)
(*                                                                         *)
(* Connection worker threads ask for admission, each at most once (a       *)
(* worker serves one connection).  Observation and control calls enter a   *)
(* bounded lane at once or are refused.  Work calls share one foreground   *)
(* slot and a bounded FIFO queue, and a queued worker sleeps on a          *)
(* condition variable until it is at the front of the queue and the slot   *)
(* is free, or until it is cancelled.  One mutex protects the whole state, *)
(* so a critical section is one step.                                      *)
(*                                                                         *)
(* The VecDeque is the set "queue" ordered by "arrival", the position in   *)
(* which push_back (or the direct admission) took the mutex.  A worker     *)
(* stands for its own ticket and for its own task.                         *)
(***************************************************************************)
EXTENDS Naturals, FiniteSets

CONSTANTS
    Workers,      \* connection worker threads, one admission each
    Sessions,     \* MCP sessions
    Requests,     \* request keys
    Owner,        \* Owner[w]: the session of w's request
    Request,      \* Request[w]: the request key of w
    MaxQueue,     \* MAX_WORK_QUEUE
    MaxActive,    \* MAX_OBSERVATION_ACTIVE and MAX_CONTROL_ACTIVE, by lane
    RejectedCap   \* where rejected_total saturates

ImmediateLanes == {"observation", "control"}

ASSUME SchedulerConstants ==
    /\ IsFiniteSet(Workers)
    /\ Owner \in [Workers -> Sessions]
    /\ Request \in [Workers -> Requests]
    /\ MaxQueue \in Nat
    /\ MaxActive \in [ImmediateLanes -> Nat]
    /\ RejectedCap \in Nat

\* FOREGROUND_WORK_SLOTS, and a faulty value of it.
TwoForegroundWorkSlots == 2
ForegroundWorkSlots == 1

VARIABLES
    pc,              \* where each worker is with respect to the scheduler
    arrival,         \* arrival[w]: order in which w entered (0: it has not)
    arrivals,        \* how many workers entered
    queue,           \* the workers in the VecDeque
    work_running,    \* the counter of held work permits
    active,          \* observation_active and control_active, by lane
    cancelled,       \* tickets taken out of the queue, not yet consumed
    rejected_total,
    closed

schedVars == <<pc, arrival, arrivals, queue, work_running, active, cancelled,
               rejected_total, closed>>

\* "waiting" sleeps on the condition variable; "woken" was notified and will
\* take the mutex to look again.  The last three are the errors returned.
Places == {"idle", "waiting", "woken", "work", "released",
           "rejected", "cancelled", "closed"} \cup ImmediateLanes

SchedInit ==
    /\ pc = [w \in Workers |-> "idle"]
    /\ arrival = [w \in Workers |-> 0]
    /\ arrivals = 0
    /\ queue = {}
    /\ work_running = 0
    /\ active = [l \in ImmediateLanes |-> 0]
    /\ cancelled = {}
    /\ rejected_total = 0
    /\ closed = FALSE

-----------------------------------------------------------------------------
\* Helpers.  The definitions named Faulty... are the wrong versions the
\* properties are tested against; nothing else uses them.

\* saturating_add(1) on rejected_total, saturating_sub(1) on a permit counter.
CountRejection ==
    rejected_total' = IF rejected_total < RejectedCap
                      THEN rejected_total + 1 ELSE rejected_total
FaultyOneFewer(n) == n
OneFewer(n) == IF n > 0 THEN n - 1 ELSE 0

\* changed.notify_all(): every sleeper is made to look again.
FaultyNotifyAll(places) == places
NotifyAll(places) ==
    [w \in Workers |-> IF places[w] = "waiting" THEN "woken" ELSE places[w]]

\* Conditions on the locked state.
LaneFull(lane) == active[lane] >= MaxActive[lane]

SlotFree == work_running < ForegroundWorkSlots

FaultyMayEnterDirectly == SlotFree
MayEnterDirectly == SlotFree /\ queue = {}

QueueFull == Cardinality(queue) >= MaxQueue

IsFront(w) ==
    /\ w \in queue
    /\ \A v \in queue : arrival[w] <= arrival[v]

-----------------------------------------------------------------------------
\* enter_immediate(lane) and the drop of an ImmediatePermit.

EnterImmediate(w, lane) ==
    /\ pc[w] = "idle"
    /\ \/ /\ closed
          /\ pc' = [pc EXCEPT ![w] = "closed"]
          /\ UNCHANGED <<active, rejected_total>>
       \/ /\ ~closed
          /\ LaneFull(lane)
          /\ CountRejection
          /\ pc' = [pc EXCEPT ![w] = "rejected"]
          /\ UNCHANGED active
       \/ /\ ~closed
          /\ ~LaneFull(lane)
          /\ active' = [active EXCEPT ![lane] = @ + 1]
          /\ pc' = [pc EXCEPT ![w] = lane]
          /\ UNCHANGED rejected_total
    /\ UNCHANGED <<arrival, arrivals, queue, work_running, cancelled, closed>>

LeaveImmediate(w) ==
    /\ pc[w] \in ImmediateLanes
    /\ active' = [active EXCEPT ![pc[w]] = OneFewer(@)]
    /\ pc' = [pc EXCEPT ![w] = "released"]
    /\ UNCHANGED <<arrival, arrivals, queue, work_running, cancelled,
                   rejected_total, closed>>

-----------------------------------------------------------------------------
\* admit_work_for_request, up to the first wait.

Arrive(w) ==
    /\ arrivals' = arrivals + 1
    /\ arrival' = [arrival EXCEPT ![w] = arrivals + 1]

AdmitClosed(w) ==
    /\ pc[w] = "idle"
    /\ closed
    /\ pc' = [pc EXCEPT ![w] = "closed"]
    /\ UNCHANGED <<arrival, arrivals, queue, work_running, active, cancelled,
                   rejected_total, closed>>

AdmitDirectly(w) ==
    /\ pc[w] = "idle"
    /\ ~closed
    /\ MayEnterDirectly
    /\ work_running' = work_running + 1
    /\ pc' = [pc EXCEPT ![w] = "work"]
    /\ Arrive(w)
    /\ UNCHANGED <<queue, active, cancelled, rejected_total, closed>>

AdmitRejected(w) ==
    /\ pc[w] = "idle"
    /\ ~closed
    /\ ~MayEnterDirectly
    /\ QueueFull
    /\ CountRejection
    /\ pc' = [pc EXCEPT ![w] = "rejected"]
    /\ UNCHANGED <<arrival, arrivals, queue, work_running, active, cancelled,
                   closed>>

AdmitQueued(w) ==
    /\ pc[w] = "idle"
    /\ ~closed
    /\ ~MayEnterDirectly
    /\ ~QueueFull
    /\ queue' = queue \cup {w}
    /\ pc' = [pc EXCEPT ![w] = "waiting"]
    /\ Arrive(w)
    /\ UNCHANGED <<work_running, active, cancelled, rejected_total, closed>>

-----------------------------------------------------------------------------
\* The wait loop of admit_work_for_request.  A condition variable may also
\* wake a sleeper that nobody notified.

WakeSpuriously(w) ==
    /\ pc[w] = "waiting"
    /\ pc' = [pc EXCEPT ![w] = "woken"]
    /\ UNCHANGED <<arrival, arrivals, queue, work_running, active, cancelled,
                   rejected_total, closed>>

ConsumeTicket(w) == cancelled \ {w}

TakeCancellation(w) ==
    /\ pc[w] = "woken"
    /\ w \in cancelled
    /\ cancelled' = ConsumeTicket(w)
    /\ pc' = [pc EXCEPT ![w] = "cancelled"]
    /\ UNCHANGED <<arrival, arrivals, queue, work_running, active,
                   rejected_total, closed>>

TakeSlot(w) ==
    /\ pc[w] = "woken"
    /\ w \notin cancelled
    /\ IsFront(w)
    /\ SlotFree
    /\ queue' = queue \ {w}
    /\ work_running' = work_running + 1
    /\ pc' = [pc EXCEPT ![w] = "work"]
    /\ UNCHANGED <<arrival, arrivals, active, cancelled, rejected_total, closed>>

WaitAgain(w) ==
    /\ pc[w] = "woken"
    /\ w \notin cancelled
    /\ ~(IsFront(w) /\ SlotFree)
    /\ pc' = [pc EXCEPT ![w] = "waiting"]
    /\ UNCHANGED <<arrival, arrivals, queue, work_running, active, cancelled,
                   rejected_total, closed>>

Recheck(w) == TakeCancellation(w) \/ TakeSlot(w) \/ WaitAgain(w)

\* The drop of a WorkPermit.
ReleaseWork(w) ==
    /\ pc[w] = "work"
    /\ work_running' = OneFewer(work_running)
    /\ pc' = NotifyAll([pc EXCEPT ![w] = "released"])
    /\ UNCHANGED <<arrival, arrivals, queue, active, cancelled,
                   rejected_total, closed>>

-----------------------------------------------------------------------------
\* Cancellation and shutdown.

\* The step shared by the four operations: the tickets of ws leave the queue
\* for "cancelled", and everyone is woken.
CancelQueued(ws) ==
    /\ queue' = queue \ ws
    /\ cancelled' = cancelled \cup ws
    /\ pc' = NotifyAll(pc)
    /\ UNCHANGED <<arrival, arrivals, work_running, active, rejected_total>>

\* cancel_queued_request: the first entry with that key.
CancelQueuedRequest(r) ==
    /\ \E w \in queue :
         /\ Request[w] = r
         /\ \A v \in queue : Request[v] = r => arrival[w] <= arrival[v]
         /\ CancelQueued({w})
    /\ UNCHANGED closed

\* cancel_queued_task: the task must be queued by that session.
CancelQueuedTask(s, w) ==
    /\ w \in queue
    /\ Owner[w] = s
    /\ CancelQueued({w})
    /\ UNCHANGED closed

FaultyCancelQueuedBySession(s) ==
    /\ CancelQueued(queue)
    /\ UNCHANGED closed
CancelQueuedBySession(s) ==
    /\ CancelQueued({w \in queue : Owner[w] = s})
    /\ UNCHANGED closed

ClosedTickets == queue

Close ==
    /\ closed' = TRUE
    /\ CancelQueued(ClosedTickets)

-----------------------------------------------------------------------------
AdmitWork(w) ==
    AdmitClosed(w) \/ AdmitDirectly(w) \/ AdmitRejected(w) \/ AdmitQueued(w)

SchedNext ==
    \/ \E w \in Workers :
         \/ \E lane \in ImmediateLanes : EnterImmediate(w, lane)
         \/ LeaveImmediate(w)
         \/ AdmitWork(w)
         \/ WakeSpuriously(w)
         \/ Recheck(w)
         \/ ReleaseWork(w)
         \/ \E s \in Sessions : CancelQueuedTask(s, w)
    \/ \E r \in Requests : CancelQueuedRequest(r)
    \/ \E s \in Sessions : CancelQueuedBySession(s)
    \/ Close

SchedSpec == SchedInit /\ [][SchedNext]_schedVars

\* A notified thread is eventually scheduled and takes the mutex, and a tool
\* call eventually ends and drops its permit.
FairSchedSpec ==
    SchedSpec /\ \A w \in Workers : /\ WF_schedVars(Recheck(w))
                                    /\ WF_schedVars(ReleaseWork(w))

-----------------------------------------------------------------------------
\* Properties.

\* Every variable keeps its type: the worker places, counters and ticket sets
\* of SchedulerState hold the values the code can store in them.
SchedTypeOK ==
    /\ pc \in [Workers -> Places]
    /\ arrival \in [Workers -> Nat]
    /\ arrivals \in Nat
    /\ queue \in SUBSET Workers
    /\ work_running \in Nat
    /\ active \in [ImmediateLanes -> Nat]
    /\ cancelled \in SUBSET Workers
    /\ rejected_total \in 0..RejectedCap
    /\ closed \in BOOLEAN

\* At most one worker holds the foreground slot, and work_running is exactly
\* the number of permits that have not been dropped: admission, hand-over and
\* drop never leak or duplicate the slot.
SlotExclusion ==
    /\ \A v, w \in Workers : pc[v] = "work" /\ pc[w] = "work" => v = w
    /\ work_running = IF \E w \in Workers : pc[w] = "work" THEN 1 ELSE 0

\* observation_active and control_active count the live permits of their lane
\* and never pass the lane's capacity.
LaneAccounting ==
    \A l \in ImmediateLanes :
        /\ active[l] = Cardinality({w \in Workers : pc[w] = l})
        /\ active[l] <= MaxActive[l]

\* The queue never holds more than MAX_WORK_QUEUE workers.
QueueBounded == Cardinality(queue) <= MaxQueue

\* The blocked workers are exactly the queued ones and the ones whose ticket
\* was cancelled, never both: no ticket is left behind in either collection
\* after its worker returned, and no worker sleeps without a ticket.
TicketsMatchWaiters ==
    /\ queue \cap cancelled = {}
    /\ queue \cup cancelled = {w \in Workers : pc[w] \in {"waiting", "woken"}}

\* No lost wakeup: when the slot is free the front of the queue has been
\* notified, and a cancelled worker has been notified, so neither sleeps on
\* with nobody left to wake it.  (The wait comes before the check in the loop
\* of admit_work_for_request.)
NoLostWakeup ==
    /\ SlotFree => \A w \in Workers : IsFront(w) => pc[w] = "woken"
    /\ \A w \in cancelled : pc[w] = "woken"

\* First come, first served: whoever has been given the slot arrived before
\* everyone who is still queued.
FirstComeFirstServed ==
    \A v \in queue, w \in Workers :
        pc[w] \in {"work", "released"} => arrival[w] < arrival[v]

\* After close() the queue is empty and stays so, and nobody is given the slot
\* or a lane again: work cannot start late, after the service stopped.
ClosedAdmitsNobody ==
    [][closed => /\ queue' = {}
                 /\ \A w \in Workers :
                      pc'[w] \in {"work"} \cup ImmediateLanes => pc'[w] = pc[w]]_schedVars

\* Every worker that queues gets an answer: the slot or a cancellation.
WaitersReturn ==
    \A w \in Workers :
        pc[w] = "waiting" ~> pc[w] \in {"work", "released", "cancelled"}
=============================================================================
