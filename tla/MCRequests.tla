------------------------------ MODULE MCRequests -----------------------------
(***************************************************************************)
(* Instances of Requests.  The workers, by what they do:                   *)
(*   run     a runtime call of s1;      again   another that reuses its id;*)
(*   next    a runtime call of s1, under an id of its own;                 *)
(*   file    a filesystem call of s2;   file2   another that reuses its id;*)
(*   ctl     a control call of s1;      ctl2    another, under one id;     *)
(*   aside   a control call of s2 that reuses the id of the filesystem ones;*)
(*   look    an observation of s2.                                         *)
(***************************************************************************)
EXTENDS Requests, TLC

CONSTANTS run, again, next, file, file2, ctl, ctl2, aside, look, s1, s2, k1, k2, k3

LaneOfOne == [l \in ImmediateLanes |-> 1]

OwnerOf(w) == IF w \in {file, file2, aside, look} THEN s2 ELSE s1
IdOf(w) == CASE w \in {run, again} -> k1
             [] w \in {next, ctl, ctl2} -> k2
             [] w \in {file, file2, aside, look} -> k3
JobOf(w) == CASE w \in {run, again, next} -> "runtime"
              [] w \in {file, file2} -> "filesystem"
              [] w \in {ctl, ctl2, aside} -> "control"
              [] w = look -> "observe"
Owners == [w \in Workers |-> OwnerOf(w)]
Ids == [w \in Workers |-> IdOf(w)]
Jobs == [w \in Workers |-> JobOf(w)]

Scenario(crew, cancels, sweepRounds) ==
    [crew |-> crew, disruptions |-> cancels, rounds |-> sweepRounds]

\* Two sessions; a shared id; work and control; the immediate lanes at their
\* limit.
MixedCrew == {run, again, file, file2, ctl, ctl2, aside, look}
Mixed == {Scenario({run, again}, 1, 1), Scenario({run, ctl}, 1, 1),
          Scenario({run, file}, 1, 0), Scenario({run, file}, 0, 1),
          Scenario({ctl, ctl2}, 1, 0), Scenario({ctl, look}, 1, 0),
          Scenario({file, file2, aside}, 0, 0)}

\* One call behind another, disturbed once, or shut down.
LineCrew == {run, next}
Line == {Scenario({run, next}, 1, 0), Scenario({run, next}, 0, 2)}
=============================================================================
