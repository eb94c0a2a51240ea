------------------------------- MODULE WorkSlot ------------------------------
(***************************************************************************)
(* What the scheduler promises about foreground work, in abstract: one     *)
(* slot, and a line of workers served strictly in the order they joined    *)
(* it.  A newcomer takes the slot only when the slot and the line are both *)
(* empty; anyone in line may be taken out of it.                           *)
(***************************************************************************)
EXTENDS Sequences

CONSTANT Workers

VARIABLES holder,   \* the set of workers in the slot: empty or one worker
          line      \* the workers waiting for it, first to be served first

Init == holder = {} /\ line = <<>>

Enter(w) ==
    /\ w \notin holder
    /\ IF holder = {} /\ line = <<>>
       THEN holder' = {w} /\ UNCHANGED line
       ELSE line' = Append(line, w) /\ UNCHANGED holder

ServeNext ==
    /\ holder = {}
    /\ line # <<>>
    /\ holder' = {Head(line)}
    /\ line' = Tail(line)

Leave ==
    /\ holder # {}
    /\ holder' = {}
    /\ UNCHANGED line

GiveUp(ws) ==
    /\ line' = SelectSeq(line, LAMBDA w : w \notin ws)
    /\ UNCHANGED holder

Next ==
    \/ \E w \in Workers : Enter(w)
    \/ ServeNext
    \/ Leave
    \/ \E ws \in SUBSET Workers : GiveUp(ws)

\* A free slot with a line is served, and a holder leaves.
Spec ==
    /\ Init
    /\ [][Next]_<<holder, line>>
    /\ WF_<<holder, line>>(ServeNext)
    /\ WF_<<holder, line>>(Leave)
=============================================================================
