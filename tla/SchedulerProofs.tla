--------------------------- MODULE SchedulerProofs ---------------------------
(***************************************************************************)
(* Proofs that the scheduler keeps its safety properties for any number of *)
(* workers, any queue bound and any lane capacities.                       *)
(***************************************************************************)
EXTENDS Scheduler, FiniteSetTheorems, TLAPS

\* What the safety properties need to be inductive: arrival numbers are given
\* once and in order, a closed scheduler has no queue, and whoever never
\* entered for work has no arrival number.
ArrivalOrder ==
    /\ \A w \in Workers : arrival[w] <= arrivals
    /\ \A w \in queue : arrival[w] > 0
    /\ \A v, w \in queue : arrival[v] = arrival[w] => v = w
    /\ \A w \in Workers :
         pc[w] \in {"idle"} \cup ImmediateLanes => arrival[w] = 0

ClosedQueueEmpty == closed => queue = {}

\* The inductive invariant without the two counting properties.
SchedInv ==
    /\ SchedTypeOK
    /\ SlotExclusion
    /\ TicketsMatchWaiters
    /\ NoLostWakeup
    /\ FirstComeFirstServed
    /\ ArrivalOrder
    /\ ClosedQueueEmpty

-----------------------------------------------------------------------------
\* Waking everyone moves sleepers to "woken" and nobody else.
LEMMA NotifyAllPlaces ==
    ASSUME NEW p \in [Workers -> Places]
    PROVE  /\ NotifyAll(p) \in [Workers -> Places]
           /\ \A w \in Workers :
                NotifyAll(p)[w] = IF p[w] = "waiting" THEN "woken" ELSE p[w]
BY DEF NotifyAll, Places

\* In the initial state nobody has asked for admission.
LEMMA SchedInvInit == SchedInit => SchedInv
<1> SUFFICES ASSUME SchedInit PROVE SchedInv
  OBVIOUS
<1> USE SchedulerConstants DEF SchedInit
<1>1. SchedTypeOK
  <2>1. pc \in [Workers -> Places] BY DEF Places
  <2>2. active \in [ImmediateLanes -> Nat] /\ arrival \in [Workers -> Nat]
    OBVIOUS
  <2>3. rejected_total \in 0..RejectedCap /\ arrivals \in Nat /\ work_running \in Nat
    OBVIOUS
  <2>4. queue \in SUBSET Workers /\ cancelled \in SUBSET Workers /\ closed \in BOOLEAN
    OBVIOUS
  <2> QED BY <2>1, <2>2, <2>3, <2>4 DEF SchedTypeOK
<1>2. SlotExclusion BY DEF SlotExclusion
<1>3. TicketsMatchWaiters BY DEF TicketsMatchWaiters
<1>4. NoLostWakeup BY DEF NoLostWakeup, IsFront
<1>5. FirstComeFirstServed BY DEF FirstComeFirstServed
<1>6. ArrivalOrder BY DEF ArrivalOrder
<1>7. ClosedQueueEmpty BY DEF ClosedQueueEmpty
<1> QED BY <1>1, <1>2, <1>3, <1>4, <1>5, <1>6, <1>7 DEF SchedInv

\* enter_immediate touches neither the slot nor the queue.
LEMMA EnterImmediateInv ==
    ASSUME SchedInv, NEW w \in Workers, NEW lane \in ImmediateLanes,
           EnterImmediate(w, lane)
    PROVE  SchedInv'
<1> USE SchedulerConstants DEF SchedInv, SchedTypeOK, Places, ImmediateLanes,
        EnterImmediate
<1>1. SchedTypeOK' BY DEF CountRejection, SchedTypeOK
<1>2. SlotExclusion' BY DEF SlotExclusion
<1>3. TicketsMatchWaiters' BY DEF TicketsMatchWaiters
<1>4. NoLostWakeup' BY DEF NoLostWakeup, IsFront, SlotFree, TicketsMatchWaiters
<1>5. FirstComeFirstServed' BY DEF FirstComeFirstServed
<1>6. ArrivalOrder' BY DEF ArrivalOrder
<1>7. ClosedQueueEmpty' BY DEF ClosedQueueEmpty
<1> QED BY <1>1, <1>2, <1>3, <1>4, <1>5, <1>6, <1>7

\* Neither does the drop of an ImmediatePermit: its worker never had an arrival.
LEMMA LeaveImmediateInv ==
    ASSUME SchedInv, NEW w \in Workers, LeaveImmediate(w)
    PROVE  SchedInv'
<1> USE SchedulerConstants DEF SchedInv, SchedTypeOK, Places, ImmediateLanes,
        LeaveImmediate
<1>1. SchedTypeOK' BY DEF OneFewer, SchedTypeOK
<1>2. SlotExclusion' BY DEF SlotExclusion
<1>3. TicketsMatchWaiters' BY DEF TicketsMatchWaiters
<1>4. NoLostWakeup' BY DEF NoLostWakeup, IsFront, SlotFree, TicketsMatchWaiters
<1>5. FirstComeFirstServed' BY DEF FirstComeFirstServed, ArrivalOrder
<1>6. ArrivalOrder' BY DEF ArrivalOrder
<1>7. ClosedQueueEmpty' BY DEF ClosedQueueEmpty
<1> QED BY <1>1, <1>2, <1>3, <1>4, <1>5, <1>6, <1>7

\* A closed scheduler only answers.
LEMMA AdmitClosedInv ==
    ASSUME SchedInv, NEW w \in Workers, AdmitClosed(w)
    PROVE  SchedInv'
<1> USE SchedulerConstants DEF SchedInv, SchedTypeOK, Places, ImmediateLanes,
        AdmitClosed
<1>1. SchedTypeOK' BY DEF SchedTypeOK
<1>2. SlotExclusion' BY DEF SlotExclusion
<1>3. TicketsMatchWaiters' BY DEF TicketsMatchWaiters
<1>4. NoLostWakeup' BY DEF NoLostWakeup, IsFront, SlotFree, TicketsMatchWaiters
<1>5. FirstComeFirstServed' BY DEF FirstComeFirstServed
<1>6. ArrivalOrder' BY DEF ArrivalOrder
<1>7. ClosedQueueEmpty' BY DEF ClosedQueueEmpty
<1> QED BY <1>1, <1>2, <1>3, <1>4, <1>5, <1>6, <1>7

\* A full queue only answers and counts.
LEMMA AdmitRejectedInv ==
    ASSUME SchedInv, NEW w \in Workers, AdmitRejected(w)
    PROVE  SchedInv'
<1> USE SchedulerConstants DEF SchedInv, SchedTypeOK, Places, ImmediateLanes,
        AdmitRejected
<1>1. SchedTypeOK' BY DEF CountRejection, SchedTypeOK
<1>2. SlotExclusion' BY DEF SlotExclusion
<1>3. TicketsMatchWaiters' BY DEF TicketsMatchWaiters
<1>4. NoLostWakeup' BY DEF NoLostWakeup, IsFront, SlotFree, TicketsMatchWaiters
<1>5. FirstComeFirstServed' BY DEF FirstComeFirstServed
<1>6. ArrivalOrder' BY DEF ArrivalOrder
<1>7. ClosedQueueEmpty' BY DEF ClosedQueueEmpty
<1> QED BY <1>1, <1>2, <1>3, <1>4, <1>5, <1>6, <1>7

\* Direct admission finds the slot and the queue empty.
LEMMA AdmitDirectlyInv ==
    ASSUME SchedInv, NEW w \in Workers, AdmitDirectly(w)
    PROVE  SchedInv'
<1> USE SchedulerConstants DEF SchedInv, SchedTypeOK, Places, ImmediateLanes,
        AdmitDirectly, Arrive, MayEnterDirectly, SlotFree, ForegroundWorkSlots
<1>1. SchedTypeOK' BY DEF SchedTypeOK
<1>2. SlotExclusion' BY DEF SlotExclusion
<1>3. TicketsMatchWaiters' BY DEF TicketsMatchWaiters
<1>4. NoLostWakeup' BY DEF NoLostWakeup, IsFront, SlotFree, TicketsMatchWaiters
<1>5. FirstComeFirstServed' BY DEF FirstComeFirstServed
<1>6. ArrivalOrder' BY DEF ArrivalOrder
<1>7. ClosedQueueEmpty' BY DEF ClosedQueueEmpty
<1> QED BY <1>1, <1>2, <1>3, <1>4, <1>5, <1>6, <1>7

\* A new ticket goes behind all the others.
LEMMA AdmitQueuedInv ==
    ASSUME SchedInv, NEW w \in Workers, AdmitQueued(w)
    PROVE  SchedInv'
<1> USE SchedulerConstants DEF SchedInv, SchedTypeOK, Places, ImmediateLanes,
        AdmitQueued, Arrive
<1>1. SchedTypeOK' BY DEF SchedTypeOK
<1>2. SlotExclusion' BY DEF SlotExclusion
<1>3. TicketsMatchWaiters' BY DEF TicketsMatchWaiters
<1>4. NoLostWakeup' BY DEF NoLostWakeup, IsFront, SlotFree, ArrivalOrder, MayEnterDirectly, TicketsMatchWaiters
<1>5. FirstComeFirstServed' BY DEF FirstComeFirstServed, ArrivalOrder
<1>6. ArrivalOrder' BY DEF ArrivalOrder, TicketsMatchWaiters
<1>7. ClosedQueueEmpty' BY DEF ClosedQueueEmpty
<1> QED BY <1>1, <1>2, <1>3, <1>4, <1>5, <1>6, <1>7

\* A spurious wakeup loses nothing.
LEMMA WakeSpuriouslyInv ==
    ASSUME SchedInv, NEW w \in Workers, WakeSpuriously(w)
    PROVE  SchedInv'
<1> USE SchedulerConstants DEF SchedInv, SchedTypeOK, Places, ImmediateLanes,
        WakeSpuriously
<1>1. SchedTypeOK' BY DEF SchedTypeOK
<1>2. SlotExclusion' BY DEF SlotExclusion
<1>3. TicketsMatchWaiters' BY DEF TicketsMatchWaiters
<1>4. NoLostWakeup' BY DEF NoLostWakeup, IsFront, SlotFree
<1>5. FirstComeFirstServed' BY DEF FirstComeFirstServed
<1>6. ArrivalOrder' BY DEF ArrivalOrder
<1>7. ClosedQueueEmpty' BY DEF ClosedQueueEmpty
<1> QED BY <1>1, <1>2, <1>3, <1>4, <1>5, <1>6, <1>7

\* A worker consumes its own cancellation and nobody else's.
LEMMA TakeCancellationInv ==
    ASSUME SchedInv, NEW w \in Workers, TakeCancellation(w)
    PROVE  SchedInv'
<1> USE SchedulerConstants DEF SchedInv, SchedTypeOK, Places, ImmediateLanes,
        TakeCancellation, ConsumeTicket
<1>1. SchedTypeOK' BY DEF SchedTypeOK
<1>2. SlotExclusion' BY DEF SlotExclusion
<1>3. TicketsMatchWaiters' BY DEF TicketsMatchWaiters
<1>4. NoLostWakeup' BY DEF NoLostWakeup, IsFront, SlotFree, TicketsMatchWaiters
<1>5. FirstComeFirstServed' BY DEF FirstComeFirstServed
<1>6. ArrivalOrder' BY DEF ArrivalOrder
<1>7. ClosedQueueEmpty' BY DEF ClosedQueueEmpty
<1> QED BY <1>1, <1>2, <1>3, <1>4, <1>5, <1>6, <1>7

\* Only the front of the queue takes the slot.
LEMMA TakeSlotInv ==
    ASSUME SchedInv, NEW w \in Workers, TakeSlot(w)
    PROVE  SchedInv'
<1> USE SchedulerConstants DEF SchedInv, SchedTypeOK, Places, ImmediateLanes,
        TakeSlot, IsFront, SlotFree, ForegroundWorkSlots
<1>1. SchedTypeOK' BY DEF SchedTypeOK
<1>2. SlotExclusion' BY DEF SlotExclusion
<1>3. TicketsMatchWaiters' BY DEF TicketsMatchWaiters
<1>4. NoLostWakeup' BY DEF NoLostWakeup, IsFront, SlotFree, TicketsMatchWaiters
<1>5. FirstComeFirstServed' BY DEF FirstComeFirstServed, ArrivalOrder
<1>6. ArrivalOrder' BY DEF ArrivalOrder
<1>7. ClosedQueueEmpty' BY DEF ClosedQueueEmpty
<1> QED BY <1>1, <1>2, <1>3, <1>4, <1>5, <1>6, <1>7

\* Who sleeps again is not in front of a free slot, and was not cancelled.
LEMMA WaitAgainInv ==
    ASSUME SchedInv, NEW w \in Workers, WaitAgain(w)
    PROVE  SchedInv'
<1> USE SchedulerConstants DEF SchedInv, SchedTypeOK, Places, ImmediateLanes,
        WaitAgain
<1>1. SchedTypeOK' BY DEF SchedTypeOK
<1>2. SlotExclusion' BY DEF SlotExclusion
<1>3. TicketsMatchWaiters' BY DEF TicketsMatchWaiters
<1>4. NoLostWakeup' BY DEF NoLostWakeup, IsFront, SlotFree
<1>5. FirstComeFirstServed' BY DEF FirstComeFirstServed
<1>6. ArrivalOrder' BY DEF ArrivalOrder
<1>7. ClosedQueueEmpty' BY DEF ClosedQueueEmpty
<1> QED BY <1>1, <1>2, <1>3, <1>4, <1>5, <1>6, <1>7

\* Dropping the permit wakes the whole queue.
LEMMA ReleaseWorkInv ==
    ASSUME SchedInv, NEW w \in Workers, ReleaseWork(w)
    PROVE  SchedInv'
<1> USE SchedulerConstants DEF SchedInv, SchedTypeOK, Places, ImmediateLanes,
        ReleaseWork, OneFewer, NotifyAll
<1>1. SchedTypeOK' BY DEF SchedTypeOK
<1>2. SlotExclusion' BY DEF SlotExclusion
<1>3. TicketsMatchWaiters' BY DEF TicketsMatchWaiters
<1>4. NoLostWakeup' BY DEF NoLostWakeup, IsFront, SlotFree, TicketsMatchWaiters
<1>5. FirstComeFirstServed' BY DEF FirstComeFirstServed, TicketsMatchWaiters
<1>6. ArrivalOrder' BY DEF ArrivalOrder
<1>7. ClosedQueueEmpty' BY DEF ClosedQueueEmpty
<1> QED BY <1>1, <1>2, <1>3, <1>4, <1>5, <1>6, <1>7

\* Moving tickets from the queue to the cancelled set wakes everyone.
LEMMA CancelQueuedInv ==
    ASSUME SchedInv, NEW ws \in SUBSET queue, CancelQueued(ws),
           closed' \in BOOLEAN, closed' = closed \/ ws = queue
    PROVE  SchedInv'
<1> USE SchedulerConstants DEF SchedInv, SchedTypeOK, Places, ImmediateLanes,
        CancelQueued, NotifyAll
<1>1. SchedTypeOK' BY DEF SchedTypeOK
<1>2. SlotExclusion' BY DEF SlotExclusion
<1>3. TicketsMatchWaiters' BY DEF TicketsMatchWaiters
<1>4. NoLostWakeup' BY DEF NoLostWakeup, IsFront, SlotFree, TicketsMatchWaiters
<1>5. FirstComeFirstServed' BY DEF FirstComeFirstServed
<1>6. ArrivalOrder' BY DEF ArrivalOrder
<1>7. ClosedQueueEmpty' BY DEF ClosedQueueEmpty
<1> QED BY <1>1, <1>2, <1>3, <1>4, <1>5, <1>6, <1>7


\* Every step of the scheduler keeps the invariant.
LEMMA SchedInvNext == SchedInv /\ [SchedNext]_schedVars => SchedInv'
<1> SUFFICES ASSUME SchedInv, [SchedNext]_schedVars PROVE SchedInv'
  OBVIOUS
<1>1. ASSUME NEW w \in Workers, NEW lane \in ImmediateLanes, EnterImmediate(w, lane)
      PROVE  SchedInv'
  BY <1>1, EnterImmediateInv
<1>2. ASSUME NEW w \in Workers, LeaveImmediate(w) PROVE SchedInv'
  BY <1>2, LeaveImmediateInv
<1>3. ASSUME NEW w \in Workers, AdmitWork(w) PROVE SchedInv'
  BY <1>3, AdmitClosedInv, AdmitDirectlyInv, AdmitRejectedInv, AdmitQueuedInv
     DEF AdmitWork
<1>4. ASSUME NEW w \in Workers, WakeSpuriously(w) PROVE SchedInv'
  BY <1>4, WakeSpuriouslyInv
<1>5. ASSUME NEW w \in Workers, Recheck(w) PROVE SchedInv'
  BY <1>5, TakeCancellationInv, TakeSlotInv, WaitAgainInv DEF Recheck
<1>6. ASSUME NEW w \in Workers, ReleaseWork(w) PROVE SchedInv'
  BY <1>6, ReleaseWorkInv
<1>7. ASSUME NEW r \in Requests, CancelQueuedRequest(r) PROVE SchedInv'
  <2>1. PICK w \in queue : CancelQueued({w})
    BY <1>7 DEF CancelQueuedRequest
  <2>2. {w} \in SUBSET queue OBVIOUS
  <2>3. closed' \in BOOLEAN /\ closed' = closed
    BY <1>7 DEF CancelQueuedRequest, SchedInv, SchedTypeOK
  <2> QED BY <2>1, <2>2, <2>3, CancelQueuedInv
<1>8. ASSUME NEW s \in Sessions, NEW w \in Workers, CancelQueuedTask(s, w)
      PROVE  SchedInv'
  <2>1. {w} \in SUBSET queue /\ CancelQueued({w})
    BY <1>8 DEF CancelQueuedTask
  <2>2. closed' \in BOOLEAN /\ closed' = closed
    BY <1>8 DEF CancelQueuedTask, SchedInv, SchedTypeOK
  <2> QED BY <2>1, <2>2, CancelQueuedInv
<1>9. ASSUME NEW s \in Sessions, CancelQueuedBySession(s) PROVE SchedInv'
  <2> DEFINE ws == {w \in queue : Owner[w] = s}
  <2>1. ws \in SUBSET queue /\ CancelQueued(ws)
    BY <1>9 DEF CancelQueuedBySession
  <2>2. closed' \in BOOLEAN /\ closed' = closed
    BY <1>9 DEF CancelQueuedBySession, SchedInv, SchedTypeOK
  <2> HIDE DEF ws
  <2> QED BY <2>1, <2>2, CancelQueuedInv
<1>10. ASSUME Close PROVE SchedInv'
  <2>1. queue \in SUBSET queue /\ CancelQueued(queue) /\ closed' \in BOOLEAN
    BY <1>10 DEF Close, ClosedTickets
  <2> QED BY <2>1, CancelQueuedInv
<1>11. ASSUME UNCHANGED schedVars PROVE SchedInv'
  BY <1>11 DEF schedVars, SchedInv, SchedTypeOK, SlotExclusion,
     TicketsMatchWaiters, NoLostWakeup, FirstComeFirstServed, ArrivalOrder,
     ClosedQueueEmpty, IsFront, SlotFree
<1> QED
  BY <1>1, <1>2, <1>3, <1>4, <1>5, <1>6, <1>7, <1>8, <1>9, <1>10, <1>11
     DEF SchedNext

\* The invariant holds in every reachable state.
LEMMA SchedInvariant == SchedSpec => []SchedInv
BY SchedInvInit, SchedInvNext, PTL DEF SchedSpec

-----------------------------------------------------------------------------
\* Type correctness of the scheduler state.
THEOREM TypeCorrect == SchedSpec => []SchedTypeOK
<1>1. SchedInv => SchedTypeOK BY DEF SchedInv
<1> QED BY <1>1, SchedInvariant, PTL

\* One worker at most holds the foreground slot, and the counter says so.
THEOREM SlotIsExclusive == SchedSpec => []SlotExclusion
<1>1. SchedInv => SlotExclusion BY DEF SchedInv
<1> QED BY <1>1, SchedInvariant, PTL

\* Blocked workers and tickets correspond.
THEOREM TicketsConserved == SchedSpec => []TicketsMatchWaiters
<1>1. SchedInv => TicketsMatchWaiters BY DEF SchedInv
<1> QED BY <1>1, SchedInvariant, PTL

\* Neither the front of the queue before a free slot nor a cancelled worker is
\* left asleep.
THEOREM WakeupsAreNotLost == SchedSpec => []NoLostWakeup
<1>1. SchedInv => NoLostWakeup BY DEF SchedInv
<1> QED BY <1>1, SchedInvariant, PTL

\* The slot goes to workers in the order in which they arrived.
THEOREM ServedInOrder == SchedSpec => []FirstComeFirstServed
<1>1. SchedInv => FirstComeFirstServed BY DEF SchedInv
<1> QED BY <1>1, SchedInvariant, PTL

\* Once closed, the scheduler admits nobody and queues nobody.
THEOREM ClosedStaysShut == SchedSpec => ClosedAdmitsNobody
<1>1. ASSUME SchedInv, SchedNext, closed
      PROVE  /\ queue' = {}
             /\ \A w \in Workers :
                  pc'[w] \in {"work"} \cup ImmediateLanes => pc'[w] = pc[w]
  <2> USE <1>1 DEF SchedInv, SchedTypeOK, ImmediateLanes
  <2>1. queue = {} BY DEF ClosedQueueEmpty
  <2>2. ASSUME NEW ws, CancelQueued(ws)
        PROVE  queue' = {} /\ \A w \in Workers :
                  pc'[w] = IF pc[w] = "waiting" THEN "woken" ELSE pc[w]
    BY <2>1, <2>2 DEF CancelQueued, NotifyAll
  <2>3. CASE \E w \in Workers : \E lane \in ImmediateLanes : EnterImmediate(w, lane)
    BY <2>1, <2>3 DEF EnterImmediate
  <2>4. CASE \E w \in Workers : LeaveImmediate(w)
    BY <2>1, <2>4 DEF LeaveImmediate
  <2>5. CASE \E w \in Workers : AdmitWork(w)
    BY <2>1, <2>5 DEF AdmitWork, AdmitClosed, AdmitDirectly, AdmitRejected, AdmitQueued
  <2>6. CASE \E w \in Workers : WakeSpuriously(w) \/ Recheck(w)
    BY <2>1, <2>6 DEF WakeSpuriously, Recheck, TakeCancellation, TakeSlot,
       WaitAgain, IsFront
  <2>7. CASE \E w \in Workers : ReleaseWork(w)
    BY <2>1, <2>7 DEF ReleaseWork, NotifyAll
  <2>8. CASE \E r \in Requests : CancelQueuedRequest(r)
    BY <2>2, <2>8 DEF CancelQueuedRequest
  <2>9. CASE \E s \in Sessions : \/ CancelQueuedBySession(s)
                                 \/ \E w \in Workers : CancelQueuedTask(s, w)
    BY <2>2, <2>9 DEF CancelQueuedBySession, CancelQueuedTask
  <2>10. CASE Close
    BY <2>2, <2>10 DEF Close
  <2> QED
    BY <2>3, <2>4, <2>5, <2>6, <2>7, <2>8, <2>9, <2>10 DEF SchedNext
<1>2. SchedInv /\ [SchedNext]_schedVars =>
        [closed => /\ queue' = {}
                   /\ \A w \in Workers :
                        pc'[w] \in {"work"} \cup ImmediateLanes
                          => pc'[w] = pc[w]]_schedVars
  BY <1>1
<1> QED BY <1>2, SchedInvariant, PTL DEF SchedSpec, ClosedAdmitsNobody

-----------------------------------------------------------------------------
\* The two counting properties.

\* A step that leaves the counters and the lanes' members alone keeps the
\* accounts.
LEMMA LanesUntouched ==
    ASSUME LaneAccounting, active' = active,
           \A l \in ImmediateLanes, v \in Workers : pc'[v] = l <=> pc[v] = l
    PROVE  LaneAccounting'
<1>1. ASSUME NEW l \in ImmediateLanes
      PROVE  {v \in Workers : pc'[v] = l} = {v \in Workers : pc[v] = l}
  OBVIOUS
<1> QED BY <1>1 DEF LaneAccounting

\* A step that only takes tickets out keeps the queue within its bound.
LEMMA QueueShrinks ==
    ASSUME QueueBounded, SchedTypeOK, queue' \in SUBSET queue
    PROVE  QueueBounded'
<1>1. IsFiniteSet(queue) BY SchedulerConstants, FS_Subset DEF SchedTypeOK
<1>2. IsFiniteSet(queue') /\ Cardinality(queue') <= Cardinality(queue)
  BY <1>1, FS_Subset
<1>3. Cardinality(queue) \in Nat /\ Cardinality(queue') \in Nat
  BY <1>1, <1>2, FS_CardinalityType
<1> QED BY <1>2, <1>3, SchedulerConstants DEF QueueBounded

\* enter_immediate checks the capacity under the lock in which it counts.
LEMMA EnterImmediateCounts ==
    ASSUME SchedTypeOK, LaneAccounting, NEW w \in Workers,
           NEW lane \in ImmediateLanes, EnterImmediate(w, lane)
    PROVE  LaneAccounting'
<1> USE DEF SchedTypeOK
<1>1. CASE active' = active
  <2>1. \A l \in ImmediateLanes, v \in Workers : pc'[v] = l <=> pc[v] = l
    BY <1>1 DEF EnterImmediate, ImmediateLanes
  <2> QED BY <1>1, <2>1, LanesUntouched
<1>2. CASE active' # active
  <2>1. /\ ~LaneFull(lane) /\ pc[w] = "idle"
        /\ active' = [active EXCEPT ![lane] = @ + 1]
        /\ pc' = [pc EXCEPT ![w] = lane]
    BY <1>2 DEF EnterImmediate
  <2> DEFINE S(l) == {v \in Workers : pc[v] = l}
             T(l) == {v \in Workers : pc'[v] = l}
  <2>2. \A l \in ImmediateLanes \ {lane} : T(l) = S(l)
    BY <2>1 DEF ImmediateLanes
  <2>3. T(lane) = S(lane) \cup {w} /\ w \notin S(lane)
    BY <2>1 DEF ImmediateLanes
  <2>4. IsFiniteSet(S(lane)) BY SchedulerConstants, FS_Subset
  <2>5. Cardinality(T(lane)) = Cardinality(S(lane)) + 1
    BY <2>3, <2>4, FS_AddElement
  <2>6. active[lane] + 1 <= MaxActive[lane]
    <3>1. active[lane] \in Nat /\ MaxActive[lane] \in Nat
      BY SchedulerConstants
    <3> QED BY <2>1, <3>1 DEF LaneFull
  <2>7. \A l \in ImmediateLanes : active[l] = Cardinality(S(l)) /\ active[l] <= MaxActive[l]
    BY DEF LaneAccounting
  <2>8. \A l \in ImmediateLanes : active'[l] = Cardinality(T(l)) /\ active'[l] <= MaxActive[l]
    <3> HIDE DEF S, T
    <3> QED BY <2>1, <2>2, <2>5, <2>6, <2>7
  <2> QED BY <2>8 DEF LaneAccounting
<1> QED BY <1>1, <1>2

\* Dropping an ImmediatePermit gives back one place of its own lane.
LEMMA LeaveImmediateCounts ==
    ASSUME SchedTypeOK, LaneAccounting, NEW w \in Workers, LeaveImmediate(w)
    PROVE  LaneAccounting'
<1> USE DEF SchedTypeOK
<1> DEFINE lane == pc[w]
           S(l) == {v \in Workers : pc[v] = l}
           T(l) == {v \in Workers : pc'[v] = l}
<1>1. /\ lane \in ImmediateLanes
      /\ active' = [active EXCEPT ![lane] = OneFewer(@)]
      /\ pc' = [pc EXCEPT ![w] = "released"]
  BY DEF LeaveImmediate
<1>2. \A l \in ImmediateLanes \ {lane} : T(l) = S(l)
  BY <1>1 DEF ImmediateLanes
<1>3. T(lane) = S(lane) \ {w} /\ w \in S(lane)
  BY <1>1 DEF ImmediateLanes
<1>4. IsFiniteSet(S(lane)) BY SchedulerConstants, FS_Subset
<1>5. Cardinality(T(lane)) = Cardinality(S(lane)) - 1
  <2>1. IsFiniteSet(S(lane)) /\ w \in S(lane) BY <1>3, <1>4
  <2>2. \A A : IsFiniteSet(A) /\ w \in A => Cardinality(A \ {w}) = Cardinality(A) - 1
    BY FS_RemoveElement
  <2> HIDE DEF S, T
  <2> QED BY <1>3, <2>1, <2>2
<1>6. S(lane) # {} /\ Cardinality(S(lane)) \in Nat
  BY <1>3, <1>4, FS_CardinalityType
<1>7. Cardinality(S(lane)) > 0
  BY <1>4, <1>6, FS_EmptySet
<1>8. \A l \in ImmediateLanes : active[l] = Cardinality(S(l)) /\ active[l] <= MaxActive[l]
  BY DEF LaneAccounting
<1>9. \A l \in ImmediateLanes : active'[l] = Cardinality(T(l)) /\ active'[l] <= MaxActive[l]
  <2> SUFFICES ASSUME NEW l \in ImmediateLanes
               PROVE  active'[l] = Cardinality(T(l)) /\ active'[l] <= MaxActive[l]
    OBVIOUS
  <2>1. active[l] \in Nat /\ MaxActive[l] \in Nat BY SchedulerConstants
  <2> HIDE DEF S, T, lane
  <2> QED BY <1>1, <1>2, <1>5, <1>7, <1>8, <2>1 DEF OneFewer
<1> QED BY <1>9 DEF LaneAccounting

\* A worker joins the queue only while there is room.
LEMMA AdmitQueuedCounts ==
    ASSUME SchedTypeOK, QueueBounded, NEW w \in Workers, AdmitQueued(w)
    PROVE  QueueBounded'
<1>1. IsFiniteSet(queue) BY SchedulerConstants, FS_Subset DEF SchedTypeOK
<1>2. Cardinality(queue) \in Nat BY <1>1, FS_CardinalityType
<1>3. Cardinality(queue') \in {Cardinality(queue), Cardinality(queue) + 1}
  BY <1>1, FS_AddElement DEF AdmitQueued
<1> QED BY <1>2, <1>3, SchedulerConstants DEF AdmitQueued, QueueFull, QueueBounded

\* The two counting properties are preserved by every step.
LEMMA CountsNext ==
    ASSUME SchedTypeOK, LaneAccounting, QueueBounded, [SchedNext]_schedVars
    PROVE  LaneAccounting' /\ QueueBounded'
<1> DEFINE Untouched == \A l \in ImmediateLanes, v \in Workers : pc'[v] = l <=> pc[v] = l
<1>1. ASSUME NEW w \in Workers, NEW lane \in ImmediateLanes, EnterImmediate(w, lane)
      PROVE  LaneAccounting' /\ QueueBounded'
  BY <1>1, EnterImmediateCounts, QueueShrinks DEF EnterImmediate
<1>2. ASSUME NEW w \in Workers, LeaveImmediate(w)
      PROVE  LaneAccounting' /\ QueueBounded'
  BY <1>2, LeaveImmediateCounts, QueueShrinks DEF LeaveImmediate
<1>3. ASSUME NEW w \in Workers, AdmitQueued(w)
      PROVE  LaneAccounting' /\ QueueBounded'
  <2>1. active' = active /\ Untouched
    BY <1>3 DEF AdmitQueued, SchedTypeOK, ImmediateLanes
  <2> QED BY <1>3, <2>1, LanesUntouched, AdmitQueuedCounts
<1>4. ASSUME NEW w \in Workers,
             \/ AdmitClosed(w) \/ AdmitDirectly(w) \/ AdmitRejected(w)
             \/ WakeSpuriously(w) \/ Recheck(w)
      PROVE  LaneAccounting' /\ QueueBounded'
  <2>1. active' = active /\ Untouched /\ queue' \in SUBSET queue
    BY <1>4 DEF AdmitClosed, AdmitDirectly, AdmitRejected, WakeSpuriously,
       Recheck, TakeCancellation, TakeSlot, WaitAgain, SchedTypeOK, ImmediateLanes
  <2> QED BY <2>1, LanesUntouched, QueueShrinks
<1>5. ASSUME NEW w \in Workers, ReleaseWork(w)
      PROVE  LaneAccounting' /\ QueueBounded'
  <2>1. active' = active /\ Untouched /\ queue' \in SUBSET queue
    BY <1>5 DEF ReleaseWork, NotifyAll, SchedTypeOK, ImmediateLanes
  <2> QED BY <2>1, LanesUntouched, QueueShrinks
<1>6. ASSUME NEW ws, CancelQueued(ws)
      PROVE  LaneAccounting' /\ QueueBounded'
  <2>1. active' = active /\ Untouched /\ queue' \in SUBSET queue
    BY <1>6 DEF CancelQueued, NotifyAll, SchedTypeOK, ImmediateLanes
  <2> QED BY <2>1, LanesUntouched, QueueShrinks
<1>7. ASSUME UNCHANGED schedVars PROVE LaneAccounting' /\ QueueBounded'
  BY <1>7 DEF schedVars, LaneAccounting, QueueBounded
<1> QED
  BY <1>1, <1>2, <1>3, <1>4, <1>5, <1>6, <1>7
     DEF SchedNext, AdmitWork, CancelQueuedRequest, CancelQueuedTask,
         CancelQueuedBySession, Close

\* The lane counters are exact and bounded by the lane capacities.
THEOREM LanesAreAccounted == SchedSpec => []LaneAccounting
<1>1. SchedInit => LaneAccounting /\ QueueBounded
  <2>1. SchedInit => \A l \in ImmediateLanes : {w \in Workers : pc[w] = l} = {}
    BY DEF SchedInit, ImmediateLanes
  <2> QED BY <2>1, FS_EmptySet, SchedulerConstants
          DEF SchedInit, LaneAccounting, QueueBounded
<1>2. SchedInv => SchedTypeOK BY DEF SchedInv
<1> QED BY <1>1, <1>2, CountsNext, SchedInvariant, PTL DEF SchedSpec

\* The work queue never passes MAX_WORK_QUEUE.
THEOREM QueueIsBounded == SchedSpec => []QueueBounded
<1>1. SchedInit => LaneAccounting /\ QueueBounded
  <2>1. SchedInit => \A l \in ImmediateLanes : {w \in Workers : pc[w] = l} = {}
    BY DEF SchedInit, ImmediateLanes
  <2> QED BY <2>1, FS_EmptySet, SchedulerConstants
          DEF SchedInit, LaneAccounting, QueueBounded
<1>2. SchedInv => SchedTypeOK BY DEF SchedInv
<1> QED BY <1>1, <1>2, CountsNext, SchedInvariant, PTL DEF SchedSpec
=============================================================================
