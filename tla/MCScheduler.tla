----------------------------- MODULE MCScheduler -----------------------------
(***************************************************************************)
(* Four workers of two sessions, each with a request key of its own (the   *)
(* request registry lets no two live requests share one), a queue of two   *)
(* and lanes of one: the slot, the queue and each lane can all fill up,    *)
(* and a worker can be refused by each.                                    *)
(***************************************************************************)
EXTENDS Scheduler, SequencesExt

CONSTANTS w1, w2, w3, w4, s1, s2

MCWorkers == {w1, w2, w3, w4}
MCSessions == {s1, s2}
MCRequests == MCWorkers
MCOwner == w1 :> s1 @@ w2 :> s1 @@ w3 :> s2 @@ w4 :> s1
MCRequest == [w \in MCWorkers |-> w]
MCMaxActive == [l \in ImmediateLanes |-> 1]

\* The scheduler implements the abstract work slot: the holder is the worker
\* with the permit, the line is the queue in order of arrival.
Slot == INSTANCE WorkSlot WITH
    holder <- {w \in Workers : pc[w] = "work"},
    line <- SetToSortSeq(queue, LAMBDA v, w : arrival[v] < arrival[w])

\* admit_work_for_request, the permits and the cancellations together behave
\* as one slot served in order, a free slot is handed on, and the slot is
\* given back.
ImplementsWorkSlot == Slot!Spec
=============================================================================
