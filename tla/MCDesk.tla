------------------------------- MODULE MCDesk -------------------------------
(***************************************************************************)
(* Instances of Desk for TLC.                                              *)
(***************************************************************************)
EXTENDS Desk

Crew == {"c1", "c2"}

Op(name, arg, key) == [name |-> name, arg |-> arg, key |-> key]
Do(name, arg) == Op(name, arg, None)

File(auto, onboarded, projects, active) ==
    [DefaultSettings EXCEPT !.auto = auto, !.onboarded = onboarded, !.projects = projects, !.active = active]
Home == File(TRUE, TRUE, {"p1", "p2"}, "p1")

Budget(first, second, launches, faults, crashes, closings, exits, folders) ==
    [calls |-> [c \in Crew |-> IF c = "c1" THEN first ELSE second], launches |-> launches,
     faults |-> faults, crashes |-> crashes, closes |-> closings, exits |-> exits,
     folders |-> folders, movable |-> {"p1"}]

Scenario(file, tunnel, latched, key, b) ==
    [settings |-> file, profile |-> [tunnel |-> tunnel, latched |-> latched], credential |-> key,
     runKey |-> FALSE, budget |-> b]

Front == <<"foreground">>
Logon == <<"foreground", "background">>

\* One user: a command at a time, with faults and crashes, and then a logon.
Alone(calls, file, tunnel, key, faults) ==
    Scenario(file, tunnel, FALSE, key, Budget(calls, <<>>, Logon, faults, 1, 0, 0, 0))

\* Two commands at once.
Both(first, second, latched) ==
    Scenario(Home, "t1", latched, "k1", Budget(<<first>>, <<second>>, Front, 0, 0, 0, 0, 0))

\* Settings files of every version.
Legacy(hasId, hasIdentity) ==
    [project |-> "p1", hasPath |-> TRUE, hasId |-> hasId, hasIdentity |-> hasIdentity]
Pathless == [Legacy(TRUE, TRUE) EXCEPT !.hasPath = FALSE]
OldFiles ==
    {[version |-> v, auto |-> a, onboarded |-> TRUE, workspace |-> w] :
        v \in {1, 2}, a \in BOOLEAN,
        w \in {None, Legacy(TRUE, TRUE), Legacy(TRUE, FALSE), Legacy(FALSE, TRUE), Pathless}}
    \cup {[version |-> 3, auto |-> TRUE, onboarded |-> TRUE, projects |-> {"p1"}, active |-> a, pending |-> FALSE] :
             a \in {None, "p1", "p2"}}
    \cup {[DefaultSettings EXCEPT !.version = v] : v \in {0, 5}}
    \cup {File(TRUE, TRUE, {"p1"}, "p2"), None}

Starts ==
    {Scenario(f, "t1", FALSE, "k1", Budget(<<Do("set_close", "off")>>, <<>>, Front, 1, 0, 0, 0, 0)) : f \in OldFiles}

Sequels ==
    {Alone(<<Do("stop", None), Do("save_tunnel", "t2")>>, Home, "t1", "k1", 1),
     Alone(<<Do("stop", None), Do("select", "p2")>>, Home, "t1", "k1", 1),
     Alone(<<Do("set_auto", "off"), Do("set_close", "off")>>, Home, "t1", "k1", 2),
     Alone(<<Do("remove", "p1"), Do("restart", None)>>, Home, "t1", "k1", 1),
     Alone(<<Op("save_key", None, "k2"), Do("retry", None)>>, Home, "t1", "k1", 1),
     Alone(<<Do("delete_key", None), Do("onboard", "t2"), Op("save_key", None, "k2")>>, Home, "t1", "k1", 1),
     Alone(<<Op("onboard", "t1", "k1"), Do("add", "p1"), Do("complete", None)>>, None, None, None, 1),
     Alone(<<Do("defer", "p3"), Do("select", "p3")>>, Home, "t1", "k1", 1),
     Alone(<<Do("delete_key", None), Do("delete_key", None), Do("complete", None), Do("remove", "p3")>>,
           Home, "t1", "k1", 0),
     Alone(<<Do("save_tunnel", "t1"), Op("save_key", None, "k1"), Do("set_auto", "on")>>, Home, "t1", "k1", 0)}

\* Every command with every other.
Every ==
    {Do("select", "p2"), Do("select", "p1"), Do("remove", "p1"), Do("defer", "p3"), Do("restart", None),
     Do("stop", None), Do("save_tunnel", "t2"), Op("save_key", None, "k2"), Do("delete_key", None),
     Op("onboard", "t1", "k1"), Do("onboard", "t1"), Do("onboard", "t2"), Do("set_auto", "off"),
     Do("set_close", "off"), Do("retry", None)}

Overlaps ==
    {Both(first, second, FALSE) : first \in Every, second \in Every}
    \cup {Both(Do("stop", None), second, TRUE) : second \in Every}

\* Windows, a second launch, the exit, and a folder that moves.
Shells ==
    {Scenario([Home EXCEPT !.close = c], "t1", FALSE, "k1",
              Budget(<<Do("restart", None)>>, <<>>, <<"background", "foreground", "foreground">>, 1, 0, 1, 1, 1)) :
        c \in BOOLEAN}

Instances == Starts \cup Sequels \cup Overlaps \cup Shells

=============================================================================
