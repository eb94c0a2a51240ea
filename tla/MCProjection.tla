---------------------------- MODULE MCProjection ----------------------------
(***************************************************************************)
(* Instances of Projection for TLC.                                        *)
(***************************************************************************)
EXTENDS Projection

Crew == {"c1", "c2"}

Wanted(services, workspace, connection) ==
    [permission |-> "full", services |-> services, workspace |-> workspace, connection |-> connection]

Op(op, value) == [op |-> op, value |-> value]
Set(field, value) == [op |-> "set", field |-> field, value |-> value]

Scenario(up, wanted, first, second, open, outages, tasksMove, brokerMoves) ==
    [up |-> up, desired |-> wanted, calls |-> [c \in Crew |-> IF c = "c1" THEN first ELSE second],
     window |-> open, budget |-> [outages |-> outages, tasks |-> tasksMove, broker |-> brokerMoves]]

Off == Wanted("disabled", "w1", "t1")
On == Wanted("enabled", "w1", "t1")

Instances ==
    {\* A start raced by a stop.
     Scenario(FALSE, Off, <<Op("start", "w1")>>, <<Op("stop", "manual")>>, FALSE, 0, 0, 0),
     \* A switch of the workspace raced by a restart with a new connection.
     Scenario(TRUE, On, <<Set("workspace", "w2"), Op("switch", "w2")>>,
              <<Set("connection", "t2"), Op("restart", "w1")>>, FALSE, 0, 0, 0),
     \* A start that finds a runtime, or a spawned one, raced by a restart.
     Scenario(TRUE, On, <<Op("start", "w1")>>, <<Op("restart", "w1")>>, FALSE, 0, 0, 0),
     Scenario(FALSE, Off, <<Op("spawn", "w1")>>, <<Op("restart", "w1")>>, FALSE, 0, 0, 0),
     \* An outage under a retry; a task and the broker that move under a spawned start.
     Scenario(TRUE, On, <<Op("retry", None)>>, <<Set("permission", "elevated")>>, FALSE, 1, 0, 0),
     Scenario(TRUE, On, <<Op("spawn", "w1")>>, <<>>, FALSE, 0, 1, 1),
     \* Settings beside a broker that moves, and update checks, with the window open.
     Scenario(FALSE, Off, <<Op("environment", TRUE), Op("save", "permission")>>,
              <<Op("save", "project"), Op("save", "general")>>, TRUE, 0, 0, 0),
     Scenario(FALSE, Off, <<Op("save", "permission")>>, <<>>, TRUE, 0, 0, 1),
     Scenario(FALSE, Off, <<Op("check", None)>>, <<Op("check", None)>>, TRUE, 0, 0, 0)}

=============================================================================
