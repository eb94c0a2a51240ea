----------------------------- MODULE MCWorkflow -----------------------------
(***************************************************************************)
(* Workflow for TLC.  One scenario per hazard: a coding task with crashes  *)
(* and failing storage, a coding task with calls beside the facade, a      *)
(* plain workflow with crashes and with calls beside it, and a task that   *)
(* is replaced by another one.                                             *)
(***************************************************************************)
EXTENDS Workflow

Bounds(kinds, plans, tasks, sessions, calls, controls, crashes, faults, heads, days) ==
    [kinds |-> kinds, plans |-> plans, tasks |-> tasks, sessions |-> sessions, calls |-> calls,
     controls |-> controls, crashes |-> crashes, faults |-> faults, heads |-> heads, days |-> days]

Instances ==
    {Bounds({"coding"}, {1, 2}, 1, 2, 4, 0, 1, 1, 0, 0), Bounds({"coding"}, {1}, 1, 1, 4, 1, 0, 0, 0, 0),
     Bounds({"plain"}, {}, 1, 1, 3, 0, 1, 1, 0, 0), Bounds({"plain"}, {}, 1, 1, 2, 1, 0, 0, 0, 0),
     Bounds({"plain"}, {}, 1, 1, 1, 1, 0, 1, 0, 0),
     Bounds({"coding"}, {0}, 2, 1, 3, 1, 0, 0, 1, 1),
     Bounds({"coding"}, {1}, 1, 1, 5, 0, 0, 0, 0, 0)}

=============================================================================
