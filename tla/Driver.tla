------------------------------- MODULE Driver -------------------------------
(***************************************************************************)
(* The production runtime driver (mcp/driver.rs) over its transports: the  *)
(* coding runtime, a Python MCP server that is spawned and handshaken with *)
(* (mcp/runtime.rs, mcp/http.rs), the policy enforcement point, a thread   *)
(* with a health session of its own (mcp/server.rs), and the tunnel        *)
(* client, spawned and asked for its readiness (tunnel/).                  *)
(*                                                                         *)
(* One thread makes the calls, in the order that Runtime models: start and *)
(* confirm the three layers bottom up, probe them, stop them top down.     *)
(* setting.mode "start" takes the calls of a plain start, "recovery" the   *)
(* ones that carry a recovery permit, which a control command may cancel   *)
(* at any time; "command" runs a bounded command instead.                  *)
(*                                                                         *)
(* Beside those of Supervisor and BoundedCommand, a behaviour may meet     *)
(* these kinds of trouble: "slow", an answer that is late; "odd", an       *)
(* answer cut short, or one that is not what the protocol asks for;        *)
(* "setup", a configuration, policy, credential, port or file that is not  *)
(* as it should be; "idle", an hour without a tool call.                   *)
(***************************************************************************)
EXTENDS BoundedCommand, CommandLine, FiniteSets

CONSTANTS MaxTries, MaxProbes, MaxSessions

VARIABLES
  setting,  \* mode, bundle, workspace, parent environment, arguments
  at,       \* where the calling thread is
  fault,    \* the RuntimeFault the call answered, or "none"
  cause,    \* the error of the transport behind it
  tries,    \* rounds of the readiness loop
  probes,   \* health probes made
  permit,   \* the recovery permit: "live" or "cancelled"
  server,   \* the Python server: is it listening, its sessions, ids given out
  link,     \* McpSession.session_id; 0 is None
  health,   \* the health client's session id
  pep,      \* "none", "running" or "ended"
  noted,    \* the fault the facade recorded
  tunnel    \* the tunnel client: its health file, is it connected; the
            \* endpoint read from the file, and the child's environment

driverVars == <<setting, at, fault, cause, tries, probes, permit, server, link, health,
                pep, noted, tunnel>>
vars == <<supervisorVars, boundedVars, driverVars>>

NoServer == [up |-> FALSE, sessions |-> {}, issued |-> 0]
NoTunnel == [file |-> "absent", connected |-> FALSE, resolved |-> FALSE, env |-> {}]

DriverInit ==
  /\ fault = "none" /\ cause = "none" /\ tries = 0 /\ probes = 0 /\ permit = "live"
  /\ server = NoServer /\ link = 0 /\ health = 0
  /\ pep = "none" /\ noted = "none" /\ tunnel = NoTunnel

-----------------------------------------------------------------------------
(* Faults.                                                                 *)

\* CodingToolsRuntimeError::runtime_fault.  HttpStatus is one error here; 503
\* is told apart where the code does.
CodingFault(e) ==
  CASE e \in {"ProtocolMismatch", "UpstreamRpcError", "InvalidConfiguration"} ->
         "ConfigurationInvalid"
    [] e \in {"ConnectionUnavailable", "HttpStatus", "Busy", "HealthTimeout"} ->
         "McpHealthTimeout"
    [] e = "RequestTimeout" -> "Unknown"
    [] e = "CreateProcessW" -> "McpSpawnFailed"
    [] e = "ownership" -> "ProcessOwnershipFailed"
    [] e = "Cancelled" -> "UserStopped"
    [] e \in {"WorkspaceMissing", "WorkspaceInvalid", "RuntimeMissing",
              "RuntimeChecksumMismatch", "PortUnavailable", "McpExited"} -> e

\* classify_control_plane_error: the first kind of mark, in the code's order,
\* that the message contains.
Marks == <<"400", "401", "403", "404", "429", "500", "timeout", "tls", "network">>
MarkFault == [m \in {Marks[i] : i \in DOMAIN Marks} |->
  CASE m = "400" -> "BadRequest" [] m = "401" -> "Authentication"
    [] m = "403" -> "Authorization" [] m = "404" -> "TunnelNotFound"
    [] m = "429" -> "RateLimited" [] m = "500" -> "Server"
    [] m = "timeout" -> "Timeout" [] m = "tls" -> "Tls" [] m = "network" -> "Network"]
ControlPlaneFault(message) ==
  IF message = {} THEN "Unknown"
  ELSE MarkFault[Marks[CHOOSE i \in DOMAIN Marks :
         Marks[i] \in message /\ \A j \in 1 .. i - 1 : Marks[j] \notin message]]

\* TunnelError::runtime_fault, ControlPlane(f) included.
TunnelFault(e) ==
  CASE e \in {"HealthStateIo", "HealthTimeout", "HealthUnavailable",
              "RateLimited", "Server", "Timeout", "Network"} -> "TunnelHealthTimeout"
    [] e \in {"Authentication", "Authorization"} -> "TunnelAuthFailed"
    [] e \in {"InvalidInstallRoot", "InvalidMcpTarget", "HealthUrlInvalid", "HealthProtocol",
              "BadRequest", "TunnelNotFound", "Tls", "Unknown"} -> "ConfigurationInvalid"
    [] e = "CreateProcessW" -> "TunnelSpawnFailed"
    [] e = "ownership" -> "ProcessOwnershipFailed"
    [] e \in {"RuntimeMissing", "RuntimeChecksumMismatch", "RuntimeKeyMissing",
              "SecretStoreFailed", "TunnelExited"} -> e

-----------------------------------------------------------------------------
(* HTTP: post_json_with_timeouts and parse_response.                       *)

\* What becomes of one exchange with a listening server: it answers in time,
\* or late, or the connection breaks, or the answer is cut short.  A server
\* whose process ends answers nobody.
Wires == {"whole"} \cup (IF Fails("slow") THEN {"late"} ELSE {})
                   \cup (IF Fails("odd") THEN {"cut"} ELSE {})

Listening == server.up /\ root["mcp"] = "running"

\* Without a deadline a late answer cannot be told from no answer.
Lost(wire, deadline) ==
  CASE wire = "refused" -> "ConnectionUnavailable"
    [] wire = "late" -> IF deadline THEN "RequestTimeout" ELSE "ConnectionUnavailable"
    [] wire = "cut" -> "ProtocolMismatch"

\* The server's do_POST: the status, and the sessions it leaves.  Initialize
\* opens a session unless it names one or the table is full.
InitializeStatus(id) ==
  CASE id # 0 -> "HttpStatus"
    [] id = 0 /\ Cardinality(server.sessions) >= MaxSessions -> "Busy"
    [] id = 0 /\ Cardinality(server.sessions) < MaxSessions -> "ok"
Initialized(id) ==
  IF InitializeStatus(id) # "ok" THEN server
  ELSE [server EXCEPT !.issued = @ + 1, !.sessions = @ \cup {server.issued + 1}]
CallStatus(id) == IF id \in server.sessions THEN "ok" ELSE "HttpStatus"

\* McpSession's initialize, first half: what may come of it.  The id of a session
\* is taken from a whole answer only.
Initialize(id, deadline) ==
  LET outcome(r, i, sv) == [result |-> r, id |-> i, server |-> sv]
      status == InitializeStatus(id)
      after == Initialized(id)
  IN IF ~Listening THEN {outcome(Lost("refused", deadline), id, server)}
     ELSE {outcome(Lost(wire, deadline), id, after) : wire \in Wires \ {"whole"}}
          \cup (IF status # "ok" THEN {outcome(status, id, after)}
                ELSE {outcome(r, after.issued, after) :
                        r \in {"ok"} \cup (IF Fails("odd") THEN {"ProtocolMismatch"} ELSE {})})

\* Any other request of a session: notify, and get_default_cwd of a probe.
Request(id, deadline) ==
  IF ~Listening THEN {Lost("refused", deadline)}
  ELSE {IF wire = "whole" THEN CallStatus(id) ELSE Lost(wire, deadline) : wire \in Wires}

-----------------------------------------------------------------------------
(* Where the calling thread goes.  A call that fails is followed by the    *)
(* teardown of what stands; retries and the layers a recovery keeps are    *)
(* Runtime's.                                                              *)

Calling(label) == app = "up" /\ at = label
Recovery == setting.mode = "recovery"
Cancelled == Recovery /\ permit = "cancelled"

Fail(f, e, next) == fault' = f /\ cause' = e /\ at' = next
Proceed(next) == at' = next /\ UNCHANGED <<fault, cause>>
UserStopped(next) == Fail("UserStopped", "Cancelled", next)
CodingFails(e, next) == Fail(CodingFault(e), e, next)
TunnelFails(e, next) == Fail(TunnelFault(e), e, next)

\* What every action of the thread leaves alone, and groups that many do.
Elsewhere == UNCHANGED <<boundedVars, setting, permit>>
Layers == <<server, link, health, pep, noted, tunnel>>
Counters == <<tries, probes>>

\* root_is_running asks the kernel, which may fail.
AskRoot(t) ==
  {IF RootIsRunning(t) THEN "running" ELSE "exited"}
  \cup (IF Fails("api") THEN {"ownership"} ELSE {})

\* A round of a readiness loop came to nothing: another one, or the time is up.
Again(label, TimedOut) ==
  \/ tries < MaxTries /\ tries' = tries + 1 /\ Proceed(label)
  \/ tries' = 0 /\ TimedOut

-----------------------------------------------------------------------------
(* start_mcp and start_mcp_for_recovery.                                   *)

\* verify_bundle, in its order: what it looks at, and what of it: the presence,
\* the digest, or the fields that the metadata has to have.  A piece is "ok",
\* "missing", "changed" or, of metadata, "reworded": other bytes, the same fields.
BundleChecks == <<
  [piece |-> "python.exe", by |-> "presence"], [piece |-> "package", by |-> "presence"],
  [piece |-> "python.exe", by |-> "digest"], [piece |-> "python312.dll", by |-> "digest"],
  [piece |-> "python312.zip", by |-> "digest"], [piece |-> "python312._pth", by |-> "digest"],
  [piece |-> "python metadata", by |-> "fields"], [piece |-> "coding metadata", by |-> "fields"]>>
TunnelChecks == <<
  [piece |-> "tunnel-client.exe", by |-> "digest"], [piece |-> "LICENSE", by |-> "digest"]>>

\* tree_sha256 takes in every file but those with the metadata's name, in
\* whichever folder: one further down, a namesake, is looked at by nobody.
TreePieces == {"python.exe", "package", "python312.dll", "python312.zip", "python312._pth",
               "python tree", "coding tree"}
Metadata == {"python metadata", "coding metadata"}
TunnelPieces == {"tunnel-client.exe", "LICENSE"}
Pieces == TreePieces \cup Metadata \cup TunnelPieces \cup {"namesake"}

\* require_file, verify_hash and read_metadata with what is compared of it.
Accepts == [presence |-> {"ok", "changed"}, digest |-> {"ok"}, fields |-> {"ok", "reworded"}]
CheckPiece(install, check) ==
  CASE install[check.piece] = "missing" -> "RuntimeMissing"
    [] install[check.piece] \in Accepts[check.by] -> "ok"
    [] install[check.piece] \notin Accepts[check.by] \cup {"missing"} ->
         "RuntimeChecksumMismatch"
FirstError(install, checks) ==
  LET bad == SelectSeq(checks, LAMBDA check : CheckPiece(install, check) # "ok")
  IN IF bad = <<>> THEN "ok" ELSE CheckPiece(install, Head(bad))
VerifyBundle(install) ==
  IF FirstError(install, BundleChecks) # "ok" THEN FirstError(install, BundleChecks)
  ELSE IF \E piece \in TreePieces : install[piece] # "ok" THEN "RuntimeChecksumMismatch"
  ELSE "ok"
VerifyTunnelBundle(install) == FirstError(install, TunnelChecks)

\* validated_workspace_authority: a verbatim path, no folder, a file, another
\* folder than the one whose identity was recorded.
WorkspaceError ==
  [verbatim |-> "InvalidConfiguration", missing |-> "WorkspaceMissing",
   file |-> "WorkspaceInvalid", replaced |-> "InvalidConfiguration", ok |-> "ok"]

\* spawn_unready before its spawn: the checks' first error.
SpawnError ==
  IF WorkspaceError[setting.workspace] # "ok" THEN WorkspaceError[setting.workspace]
  ELSE VerifyBundle(setting.install)

McpStart ==
  /\ Calling("mcp.start")
  /\ IF Cancelled THEN UserStopped("off") /\ UNCHANGED supervisorVars
     ELSE \/ /\ Fails("setup")   \* no port to be had, or no random bytes
             /\ \/ CodingFails("PortUnavailable", "off")
                \/ Fail("ConfigurationInvalid", "bearer", "off")
             /\ UNCHANGED supervisorVars
          \/ /\ SpawnError # "ok"
             /\ CodingFails(SpawnError, "off")
             /\ UNCHANGED supervisorVars
          \/ /\ SpawnError = "ok"
             /\ BeginSpawn("mcp") /\ Proceed("mcp.spawn")
  /\ UNCHANGED <<Layers, Counters>> /\ Elsewhere

McpSpawned ==
  /\ Calling("mcp.spawn")
  /\ \/ step["mcp"] = "held" /\ Proceed("mcp.wait")
     \/ step["mcp"] = "failed" /\ CodingFails(error["mcp"], "off")
  /\ UNCHANGED <<supervisorVars, Layers, Counters>> /\ Elsewhere

\* wait_ready and wait_ready_for_recovery: one round, in two exchanges.  The
\* session's id outlives a round that fails after it was given.
McpEnded(e) == CodingFails(IF e = "exited" THEN "McpExited" ELSE e, "stop.mcp")
McpRetry == Again("mcp.wait", CodingFails("HealthTimeout", "stop.mcp"))
McpWait ==
  /\ Calling("mcp.wait")
  /\ \/ /\ Cancelled /\ UserStopped("stop.mcp")
        /\ UNCHANGED <<server, link, tries>>
     \/ /\ ~Cancelled
        /\ \E e \in AskRoot("mcp") \ {"running"} : McpEnded(e)
        /\ UNCHANGED <<server, link, tries>>
     \/ /\ ~Cancelled /\ "running" \in AskRoot("mcp")
        /\ \E a \in Initialize(link, Recovery) :
             /\ server' = a.server /\ link' = a.id
             /\ CASE a.result = "ok" -> Proceed("mcp.notify") /\ UNCHANGED tries
                  [] a.result \in {"ConnectionUnavailable", "Busy"} -> McpRetry
                  [] a.result \notin {"ok", "ConnectionUnavailable", "Busy"} ->
                       CodingFails(a.result, "stop.mcp") /\ UNCHANGED tries
  /\ UNCHANGED <<supervisorVars, health, pep, noted, tunnel, probes>> /\ Elsewhere

McpNotify ==
  /\ Calling("mcp.notify")
  /\ \E r \in Request(link, Recovery) :
       CASE r = "ok" -> /\ IF Cancelled THEN UserStopped("stop.mcp") ELSE Proceed("mcp.confirm")
                        /\ tries' = 0
         [] r = "ConnectionUnavailable" -> McpRetry
         [] r \notin {"ok", "ConnectionUnavailable"} ->
              CodingFails(r, "stop.mcp") /\ UNCHANGED tries
  /\ UNCHANGED <<supervisorVars, server, link, health, pep, noted, tunnel, probes>> /\ Elsewhere

McpConfirm ==
  /\ Calling("mcp.confirm")
  /\ IF Cancelled THEN UserStopped("stop.mcp")
     ELSE \E e \in AskRoot("mcp") :
            IF e = "running" THEN Proceed("pep.start") ELSE McpEnded(e)
  /\ UNCHANGED <<supervisorVars, Layers, Counters>> /\ Elsewhere

-----------------------------------------------------------------------------
(* start_pep: it owns the coding runtime, so a failure drops that too.     *)

LoseRuntime(f, e) == Drop("mcp") /\ Fail(f, e, "off")
PepKeeps == UNCHANGED <<link, noted, tunnel, Counters>> /\ Elsewhere

\* CapabilityPolicy::load, cancellation_client, and health_client's initialize.
PepStart ==
  /\ Calling("pep.start")
  /\ \/ /\ Fails("setup")
        /\ LoseRuntime("PolicyInvalid", "policy")
        /\ UNCHANGED <<server, health>>
     \/ \E a \in Initialize(0, TRUE) :
          /\ server' = a.server /\ health' = a.id
          /\ IF a.result = "ok" THEN Proceed("pep.notify") /\ UNCHANGED supervisorVars
             ELSE LoseRuntime("PolicyInvalid", a.result)
  /\ UNCHANGED pep /\ PepKeeps

PepNotify ==
  /\ Calling("pep.notify")
  /\ \E r \in Request(health, TRUE) :
       IF r = "ok" THEN Proceed("pep.negotiate") /\ UNCHANGED supervisorVars
       ELSE LoseRuntime("PolicyInvalid", r)
  /\ UNCHANGED <<server, health, pep>> /\ PepKeeps

\* ControlPlane::for_workspace, then the facade's negotiate: the catalogue and
\* the default directory are asked for, and have to be what is expected.
PepNegotiate ==
  /\ \E here \in {"pep.negotiate", "pep.context"} :
       /\ Calling(here)
       /\ LET next == IF here = "pep.negotiate" THEN "pep.context" ELSE "pep.serve"
          IN \/ Fails("setup") /\ LoseRuntime("PolicyInvalid", "workspace")
             \/ \E r \in Request(link, FALSE) :
                  \/ r = "ok" /\ Proceed(next) /\ UNCHANGED supervisorVars
                  \/ r # "ok" /\ LoseRuntime("PolicyInvalid", r)
             \/ Fails("odd") /\ LoseRuntime("PolicyInvalid", "mismatch")
  /\ UNCHANGED <<server, health, pep>> /\ PepKeeps

PepServe ==
  /\ Calling("pep.serve")
  /\ \/ /\ pep' = "running"
        /\ Proceed("pep.confirm") /\ UNCHANGED supervisorVars
     \/ /\ Fails("setup")
        /\ LoseRuntime("PolicyBindFailed", "BindFailed") \/ LoseRuntime("PolicyInvalid", "thread")
        /\ UNCHANGED pep
  /\ UNCHANGED <<server, health>> /\ PepKeeps

PepConfirm ==
  /\ Calling("pep.confirm")
  /\ IF Cancelled THEN UserStopped("stop.pep")
     ELSE IF pep = "running" THEN Proceed("tunnel.start")
     ELSE Fail("PolicyInvalid", "ended", "stop.pep")
  /\ UNCHANGED <<supervisorVars, Layers, Counters>> /\ Elsewhere

-----------------------------------------------------------------------------
(* start_tunnel: prepare and spawn.                                        *)

Entry(n, s, v) == [name |-> n, spelling |-> s, value |-> v]

\* REMOVED_PARENT_ENV stands as one name, and the variables that are set as two.
RemovedParentEnv == Entry("proxy", "upper", "")
TunnelEnvironment(parent) ==
  EnvironmentBlock(Env(Env(EnvRemove(NoEdits, RemovedParentEnv),
                           Entry("key", "upper", "ours")),
                       Entry("base", "upper", "ours")), parent)

\* What TunnelRuntimeConfig::new and PreparedTunnelStart::prepare refuse, beside
\* the bundle.
ConfigErrors == {"InvalidInstallRoot", "InvalidMcpTarget"}
PrepareErrors == {"SecretStoreFailed", "RuntimeKeyMissing", "HealthStateIo"}

TunnelStart ==
  /\ Calling("tunnel.start")
  /\ IF Cancelled THEN UserStopped("stop.pep") /\ UNCHANGED <<supervisorVars, tunnel>>
     ELSE \/ /\ Fails("setup")
             /\ \E e \in ConfigErrors \cup PrepareErrors : TunnelFails(e, "stop.pep")
             /\ UNCHANGED <<supervisorVars, tunnel>>
          \/ /\ VerifyTunnelBundle(setting.install) # "ok"
             /\ TunnelFails(VerifyTunnelBundle(setting.install), "stop.pep")
             /\ UNCHANGED <<supervisorVars, tunnel>>
          \/ /\ VerifyTunnelBundle(setting.install) = "ok"
             /\ tunnel' = [NoTunnel EXCEPT !.env = TunnelEnvironment(setting.parent)]
             /\ BeginSpawn("tunnel") /\ Proceed("tunnel.spawn")
  /\ UNCHANGED <<server, link, health, pep, noted, Counters>> /\ Elsewhere

\* A recovery that was cancelled meanwhile stops what it has just spawned.
TunnelSpawned ==
  /\ Calling("tunnel.spawn")
  /\ \/ /\ step["tunnel"] = "held"
        /\ IF Cancelled THEN UserStopped("stop.tunnel") ELSE Proceed("tunnel.wait")
     \/ step["tunnel"] = "failed" /\ TunnelFails(error["tunnel"], "stop.pep")
  /\ UNCHANGED <<supervisorVars, Layers, Counters>> /\ Elsewhere

\* One round of wait_ready, first half: the health file.  HealthEndpoint::parse
\* refuses one that is written in part.
ReadHealthFile(next, NotYet) ==
  \/ /\ tunnel.resolved \/ tunnel.file = "written"
     /\ tunnel' = [tunnel EXCEPT !.resolved = TRUE]
     /\ Proceed(next) /\ UNCHANGED tries
  \/ /\ ~tunnel.resolved /\ tunnel.file = "absent"
     /\ NotYet /\ UNCHANGED tunnel
  \/ /\ ~tunnel.resolved /\ tunnel.file = "partial"
     /\ TunnelFails("HealthUrlInvalid", "stop.tunnel") /\ UNCHANGED <<tunnel, tries>>
  \/ /\ ~tunnel.resolved /\ Fails("setup")
     /\ TunnelFails("HealthStateIo", "stop.tunnel") /\ UNCHANGED <<tunnel, tries>>

\* Second half: /readyz, then /api/status, whose body may name an error of the
\* control plane.  A connection that breaks and an answer that is late are one.
Probe ==
  IF root["tunnel"] # "running" THEN {"HealthUnavailable"}
  ELSE {IF tunnel.connected THEN "ready" ELSE "unready"}
       \cup (IF Fails("slow") THEN {"HealthUnavailable"} ELSE {})
       \cup (IF Fails("odd") THEN {"HealthProtocol"} \cup
               {ControlPlaneFault(message) : message \in {{m, n} : m, n \in DOMAIN MarkFault} \cup {{}}}
             ELSE {})
ProbeReady(next, NotYet) ==
  \E r \in Probe :
    CASE r = "ready" -> Proceed(next) /\ tries' = 0
      [] r \in {"unready", "HealthUnavailable"} -> NotYet
      [] r \notin {"ready", "unready", "HealthUnavailable"} ->
           TunnelFails(r, "stop.tunnel") /\ UNCHANGED tries

TunnelEnded(e) == TunnelFails(IF e = "exited" THEN "TunnelExited" ELSE e, "stop.tunnel")
                  /\ UNCHANGED <<tunnel, tries>>
TunnelTimeout == TunnelFails("HealthTimeout", "stop.tunnel")
TunnelKeeps == UNCHANGED <<supervisorVars, server, link, health, pep, noted>> /\ Elsewhere

TunnelWait ==
  /\ Calling("tunnel.wait")
  /\ IF Cancelled THEN UserStopped("stop.tunnel") /\ UNCHANGED <<tunnel, tries>>
     ELSE \E e \in AskRoot("tunnel") :
            IF e # "running" THEN TunnelEnded(e)
            ELSE ReadHealthFile("tunnel.probe", Again("tunnel.wait", TunnelTimeout))
  /\ UNCHANGED probes /\ TunnelKeeps

TunnelProbe ==
  /\ Calling("tunnel.probe")
  /\ IF Cancelled THEN UserStopped("stop.tunnel") /\ UNCHANGED tries
     ELSE ProbeReady("ready", Again("tunnel.wait", TunnelTimeout))
  /\ UNCHANGED <<tunnel, probes>> /\ TunnelKeeps

-----------------------------------------------------------------------------
(* A ready runtime: probe_ready_health asks the three layers in turn.      *)

\* probe_mcp_health: a fault that a tool call left behind comes first, unless a
\* call holds the facade's lock; then the health session asks for the default
\* directory and has 750 ms to be answered.
ProbeMcp ==
  /\ Calling("ready") /\ probes < MaxProbes
  /\ \/ /\ noted # "none"
        /\ CodingFails(noted, "stop.tunnel")
        /\ noted' = "none" /\ UNCHANGED server
     \/ /\ \/ \E r \in Request(health, TRUE) :
                \/ r = "ok" /\ Proceed("probe.pep")
                \/ r # "ok" /\ CodingFails(r, "stop.tunnel")
           \/ Fails("odd") /\ CodingFails("ProtocolMismatch", "stop.tunnel")
        /\ UNCHANGED <<server, noted>>
  /\ UNCHANGED <<supervisorVars, link, health, pep, tunnel, Counters>> /\ Elsewhere

ProbePep ==
  /\ Calling("probe.pep")
  /\ IF pep = "running" THEN Proceed("probe.tunnel")
     ELSE Fail("PolicyBindFailed", "ended", "stop.tunnel")
  /\ UNCHANGED <<supervisorVars, Layers, Counters>> /\ Elsewhere

\* probe_tunnel_health is a readiness loop of one round.
ProbeTunnel ==
  /\ Calling("probe.tunnel")
  /\ \E e \in AskRoot("tunnel") :
       IF e # "running" THEN TunnelEnded(e)
       ELSE ProbeReady("ready", TunnelTimeout /\ UNCHANGED tries) /\ UNCHANGED tunnel
  /\ probes' = probes + 1
  /\ TunnelKeeps

\* A stop from a control command, or for a recovery that begins at the top.
StopReady ==
  /\ Calling("ready")
  /\ Proceed("stop.tunnel")
  /\ UNCHANGED <<supervisorVars, Layers, Counters>> /\ Elsewhere

-----------------------------------------------------------------------------
(* Stops, top down.  A handle is dropped whatever its stop answered.       *)

Halt(t, label, next) ==
  /\ Calling(label)
  /\ BeginStop(t) /\ Proceed(next)
  /\ UNCHANGED <<Layers, Counters>> /\ Elsewhere
Release(t, label, next) ==
  /\ Calling(label)
  /\ Drop(t) /\ Proceed(next)
  /\ UNCHANGED <<Layers, Counters>> /\ Elsewhere

StopTunnel == Halt("tunnel", "stop.tunnel", "drop.tunnel")
DropTunnel == Release("tunnel", "drop.tunnel", "stop.pep")

\* PolicyEnforcementRuntime::stop joins the thread, which hands the coding
\* runtime back; with a thread that panicked, in a build that unwinds, it is lost,
\* that is dropped.
StopPep ==
  /\ Calling("stop.pep")
  /\ pep' = "none"
  /\ IF pep = "panicked" THEN Drop("mcp") /\ Proceed("off")
     ELSE Proceed("stop.mcp") /\ UNCHANGED supervisorVars
  /\ UNCHANGED <<server, link, health, noted, tunnel, Counters>> /\ Elsewhere

StopMcp == Halt("mcp", "stop.mcp", "drop.mcp")
DropMcp == Release("mcp", "drop.mcp", "off")

Driving ==
  \/ McpStart \/ McpSpawned \/ McpWait \/ McpNotify \/ McpConfirm
  \/ PepStart \/ PepNotify \/ PepNegotiate \/ PepServe \/ PepConfirm
  \/ TunnelStart \/ TunnelSpawned \/ TunnelWait \/ TunnelProbe
  \/ ProbeMcp \/ ProbePep \/ ProbeTunnel
  \/ StopTunnel \/ DropTunnel \/ StopPep \/ StopMcp \/ DropMcp

-----------------------------------------------------------------------------
(* The others.                                                             *)

Bystanders == UNCHANGED <<supervisorVars, boundedVars, setting, at, fault, cause, tries,
                          probes, health>>

ServerListens ==
  /\ root["mcp"] = "running" /\ ~server.up
  /\ server' = [server EXCEPT !.up = TRUE]
  /\ Bystanders /\ UNCHANGED <<permit, link, pep, noted, tunnel>>

\* The tunnel client writes its address, connects, and may lose the connection.
TunnelClient ==
  /\ root["tunnel"] = "running"
  /\ \/ /\ tunnel.file = "absent" /\ Fails("odd")
        /\ tunnel' = [tunnel EXCEPT !.file = "partial"]
     \/ /\ tunnel.file # "written"
        /\ tunnel' = [tunnel EXCEPT !.file = "written"]
     \/ /\ tunnel.file = "written" /\ (~tunnel.connected \/ Fails("slow"))
        /\ tunnel' = [tunnel EXCEPT !.connected = ~@]
  /\ Bystanders /\ UNCHANGED <<permit, server, link, pep, noted>>

PepEnds ==
  /\ app = "up" /\ pep = "running" /\ Fails("exit")
  /\ pep' \in {"ended", "panicked"}
  /\ Bystanders /\ UNCHANGED <<permit, server, link, noted, tunnel>>

\* The permit is of a recovery that is under way.
UnderWay == at \notin {"ready", "probe.pep", "probe.tunnel", "off"}
CancelPermit ==
  /\ app = "up" /\ Recovery /\ permit = "live" /\ UnderWay
  /\ permit' = "cancelled"
  /\ Bystanders /\ UNCHANGED <<server, link, pep, noted, tunnel>>

\* HTTPSessionManager's prune, on any request that finds a session an hour old:
\* the health probes keep only their own alive.
SessionExpires ==
  /\ Fails("idle") /\ Listening /\ at = "ready" /\ link \in server.sessions
  /\ server' = [server EXCEPT !.sessions = @ \ {link}]
  /\ Bystanders /\ UNCHANGED <<permit, link, pep, noted, tunnel>>

\* A tool call of the facade on the main session, with a time limit or without:
\* private_call and private_call_with_timeout note every error but a timeout.
ToolCall ==
  /\ app = "up" /\ at \in {"ready", "probe.pep", "probe.tunnel"} /\ pep = "running"
  /\ \E deadline \in BOOLEAN :
       \E r \in Request(link, deadline) \ {"ok", "RequestTimeout"} : noted' = r
  /\ Bystanders /\ UNCHANGED <<permit, server, link, pep, tunnel>>

Others == ServerListens \/ TunnelClient \/ PepEnds \/ CancelPermit \/ SessionExpires \/ ToolCall

-----------------------------------------------------------------------------
Next ==
  \/ Driving \/ StopReady \/ Others
  \/ (Commanding \/ Drains \/ Writes \/ OpenLogs \/ StrayEnds) /\ UNCHANGED driverVars
  \/ (System \/ \E t \in Trees : Supervising(t)) /\ UNCHANGED <<boundedVars, driverVars>>

\* The threads run, and the kernel ends what it was told to end.
Fairness ==
  /\ WF_vars(Driving \/ ((\E t \in Trees : Supervising(t)) /\ UNCHANGED <<boundedVars, driverVars>>))
  /\ WF_vars(Commanding /\ UNCHANGED driverVars)
  /\ WF_vars(Drains /\ UNCHANGED driverVars)
  /\ \A t \in Trees : WF_vars(Reaping(t) /\ UNCHANGED <<boundedVars, driverVars>>)

-----------------------------------------------------------------------------
(* Properties.                                                             *)

\* The child's C runtime splits the command line into the arguments that were
\* given, whatever quotation marks and backslashes they hold, only with the
\* replacement character for what is not Unicode in them; and the tunnel
\* client sees the values set for it once, none of the removed variables, and
\* the rest of the parent's environment, however the parent spells the names
\* (windows_supervisor.rs:199-230, 893-976; tunnel/runtime.rs:185-214).
ChildGetsWhatWasSpecified ==
  /\ root[Command] # "none" =>
       Argv(BuildCommandLine(setting.args))
         = [i \in DOMAIN setting.args |-> ToStringLossy(setting.args[i])]
  /\ root["tunnel"] # "none" =>
       /\ {e \in tunnel.env : e.name \in {"key", "base"}}
            = {Entry("key", "upper", "ours"), Entry("base", "upper", "ours")}
       /\ \A e \in tunnel.env : e.name # "proxy"
       /\ {e \in setting.parent : e.name = "path"} \subseteq tunnel.env

\* No program runs out of an installation of which a file is missing or was
\* changed, one that the coding runtime only imports included.  Of the metadata
\* only the fields count, and a namesake of it further down is not looked at
\* (mcp/bundle.rs:70-157, 220-264, tunnel/bundle.rs:18-45).
OnlyVerifiedRuns ==
  /\ root["mcp"] # "none" =>
       /\ \A piece \in TreePieces : setting.install[piece] = "ok"
       /\ \A piece \in Metadata : setting.install[piece] \in {"ok", "reworded"}
  /\ root["tunnel"] # "none" =>
       /\ root["mcp"] # "none"
       /\ \A piece \in TunnelPieces : setting.install[piece] = "ok"

\* A launch is faithful both ways: verified files, the arguments and environment
\* given, and the whole of what a bounded command wrote, or a note that it is not.
LaunchIsFaithful == ChildGetsWhatWasSpecified /\ OnlyVerifiedRuns /\ AnswersAreWhole

\* Once the driver has given up or stopped, a bounded command has returned, or
\* the desktop has died, every process that ever ran ends, its descendants
\* included, also when stops failed on the way.  There are two exceptions: a
\* process that never ran, left between its creation and its assignment, and a
\* command whose caller unwinds from the creation of its reader, for which only
\* the desktop's end counts (windows_supervisor.rs:573, 723-759,
\* mcp/server.rs:844-872).
Over == app = "dead" \/ at = "off" \/ run \in {"ok", "error"}
NothingIsLeft ==
  Over ~> \A t \in Trees : /\ root[t] \in {"none", "gone"} \/ (root[t] = "suspended" /\ ~owned[t])
                           /\ kid[t] \in {"none", "gone"}

\* A recovery whose permit is cancelled before it is ready never becomes ready:
\* the driver sees the cancellation in whichever call it is and takes down what
\* it had started (mcp/driver.rs:219-247, 314-359, mcp/runtime.rs:450-484).
CancelledRecoveryEnds ==
  (Cancelled /\ UnderWay) ~> (at = "off" \/ app = "dead")

\* Nobody waits for ever on a child: neither the reader of a bounded command nor a
\* recovery that was cancelled.
WaitsEnd == BoundedReturns /\ CancelledRecoveryEnds

=============================================================================
