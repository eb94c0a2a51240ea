---------------------------- MODULE MCLifecycle ----------------------------
(***************************************************************************)
(* Instances of Lifecycle for TLC; each thread is named after its command. *)
(***************************************************************************)
EXTENDS Lifecycle

Crew == {"start", "restart", "stop", "switch", "retry"}
Kinds == [t \in Crew |-> t]

Scenario(crew, registered, failures) ==
  [crew |-> crew, up |-> registered, outages |-> failures]

\* A runtime that fails twice and is told to retry; commands that race, over a
\* failing runtime or over none.
Mixed == {Scenario({"retry"}, TRUE, 2), Scenario({"start", "stop"}, FALSE, 0),
          Scenario({"start", "restart"}, TRUE, 1), Scenario({"stop", "restart"}, TRUE, 1),
          Scenario({"switch", "retry"}, TRUE, 1), Scenario({"switch", "start"}, TRUE, 1),
          Scenario({"retry", "stop"}, TRUE, 1), Scenario({"start", "restart", "stop"}, FALSE, 0)}

=============================================================================
