---------------------------- MODULE MCExecutions ----------------------------
(***************************************************************************)
(* Instances of Executions for TLC.                                        *)
(***************************************************************************)
EXTENDS Executions, TLC

CONSTANTS e1, e2, s1, s2, d1

\* Both commands belong to one task.
OneTask == e1 :> "task" @@ e2 :> "task"

Scenario(commands, sessions, controls, deaths, failing) ==
    [commands |-> commands, sessions |-> sessions, calls |-> controls,
     crashes |-> deaths, faults |-> failing]

\* A command under a control call, with a crash and failing writes, or with answers
\* outside the protocol; under two calls at once; with two sessions; two commands.
Mixed == {Scenario({e1}, {s1}, 1, 1, {"storage"}), Scenario({e1}, {s1}, 1, 0, {"protocol"}),
          Scenario({e1}, {s1}, 2, 0, {}), Scenario({e1}, {s1, s2}, 0, 0, {}),
          Scenario({e1, e2}, {s1}, 0, 0, {})}
=============================================================================
