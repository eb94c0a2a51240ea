---------------------------- MODULE MCPrivilege ----------------------------
(***************************************************************************)
(* Privilege on small instances: an elevation against a downgrade, a       *)
(* privileged request against each, and an elevated start that ends.       *)
(***************************************************************************)
EXTENDS Privilege

MCCallers == {"up", "down", "boot", "quit"}
MCCall == [t \in MCCallers |-> CASE t = "up" -> "elevate" [] t = "down" -> "downgrade"
                                 [] t = "boot" -> "startup" [] t = "quit" -> "exit"]
MCReqs == {"run", "copy", "old"}
MCKind == [r \in MCReqs |-> CASE r = "run" -> "exec" [] r = "copy" -> "fs" [] r = "old" -> "legacy"]

Scenario(callers, reqs, brokerCrashes, cancellations, oddities) ==
    [callers |-> callers, reqs |-> reqs, crashes |-> brokerCrashes, cancels |-> cancellations,
     odd |-> oddities]

\* the commands race, with a request in flight
Races == {Scenario({"up", "down"}, {}, 1, 0, {"stubborn"}),
          Scenario({"boot", "down"}, {"run"}, 1, 1, {})}
\* requests and cancellations, in order and out of order
Cancels == {Scenario({"boot"}, {"run", "copy"}, 1, 2, {}),
            Scenario({"boot"}, {"old"}, 1, 1, {})}
\* the application ends, orderly or not
Ends == {Scenario({"boot", "quit"}, {"run"}, 0, 0, {"stubborn"}),
         Scenario({"boot"}, {"copy"}, 0, 1, {"crash"})}
MCScenarios == Races \cup Cancels \cup Ends
=============================================================================
