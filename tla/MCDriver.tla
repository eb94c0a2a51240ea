------------------------------ MODULE MCDriver ------------------------------
(* Driver for TLC.  Each scenario is one way of running: its mode, what the *)
(* driver finds, and the kinds of trouble that may happen together.         *)
EXTENDS Driver

CONSTANT Scenarios

Whole == [piece \in Pieces |-> "ok"]
Defects ==
  {[Whole EXCEPT ![piece] = how] : piece \in Pieces, how \in {"missing", "changed"}}
  \cup {[Whole EXCEPT ![piece] = "reworded"] : piece \in Metadata}

Chars == {"a", " ", "q", "b", "u"}
Texts(n) == UNION {[1 .. k -> Chars] : k \in 0 .. n}
Arguments == {<<text>> : text \in Texts(3)} \cup {<<x, y>> : x, y \in Texts(1)}

Parents ==
  {{Entry("path", "lower", "theirs")} \cup (IF k = "none" THEN {} ELSE {Entry("key", k, "theirs")})
     \cup (IF p = "none" THEN {} ELSE {Entry("proxy", p, "theirs")}) :
     k \in {"none", "upper", "lower"}, p \in {"none", "upper", "lower"}}

Plain == [mode |-> "start", install |-> Whole, workspace |-> "ok", parent |-> {}, args |-> <<>>]
With(setting_, faults_) == [setting |-> setting_, faults |-> faults_]

Starts ==
  {With(Plain, f) : f \in {{"api"}, {"exit"}, {"crash"}, {"slow", "odd"}, {"setup"}, {"idle"}}}
  \cup {With([Plain EXCEPT !.install = i], {}) : i \in Defects}
  \cup {With([Plain EXCEPT !.workspace = w], {}) : w \in DOMAIN WorkspaceError}
  \cup {With([Plain EXCEPT !.parent = p], {}) : p \in Parents}
Recoveries ==
  {With([Plain EXCEPT !.mode = "recovery"], f) : f \in {{"api"}, {"exit"}, {"slow"}, {"crash"}}}
Commands ==
  {With([Plain EXCEPT !.mode = "command"], f) :
     f \in {{"api", "exit", "read"}, {"api", "crash", "exit"}, {"thread", "exit", "crash"},
           {"logs", "api", "exit"}}}
  \cup {With([Plain EXCEPT !.mode = "command", !.args = args], {}) : args \in Arguments}

Instances == Starts \cup Recoveries \cup Commands
Init ==
  \E s \in Scenarios :
    /\ setting = s.setting /\ faults = s.faults
    /\ SupervisorInit /\ DriverInit
    /\ IF s.setting.mode = "command"
         THEN at = "command" /\ BoundedInit("begin")
         ELSE at = "mcp.start" /\ BoundedInit("idle")
Spec == Init /\ [][Next]_vars /\ Fairness
=============================================================================
