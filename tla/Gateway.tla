------------------------------ MODULE Gateway ------------------------------
(***************************************************************************)
(* The process around the service (cmd/gateway/modules.go run): the health *)
(* monitor (server/health.go) that probes the sinks and the stream and     *)
(* sets readiness, and the HTTP server that answers /readiness until       *)
(* OnStop has stopped the service.                                         *)
(*                                                                         *)
(* OnStop closes the monitor's channel right before it cancels the run     *)
(* context: cancelled stands for both.                                     *)
(***************************************************************************)
EXTENDS CDCService

VARIABLES
  sick,      \* a sink's destination is unreachable
  live,      \* the reader, when it runs, has a replication stream
  monitor,   \* where the monitor's goroutine is
  seen,      \* every probe of this check succeeded
  isReady,   \* HealthStatus.ready
  http       \* the HTTP server: up or down

healthVars == <<sick, live, monitor, seen, isReady, http>>
gatewayVars == <<vars, healthVars>>

GatewayTypeOK ==
  /\ TypeOK
  /\ sick \in BOOLEAN /\ live \in BOOLEAN
  /\ monitor \in {"wait", "look", "off"}
  /\ seen \in BOOLEAN /\ isReady \in BOOLEAN
  /\ http \in {"up", "down"}

GatewayInit ==
  /\ Init
  /\ sick = FALSE /\ live = FALSE
  /\ monitor = "wait" /\ seen = FALSE /\ isReady = FALSE
  /\ http = "up"

-----------------------------------------------------------------------------
(* The environment: destinations and the connection to PostgreSQL.         *)

DestinationChanges ==
  /\ sick' = ~sick
  /\ UNCHANGED <<vars, live, monitor, seen, isReady, http>>

StreamChanges ==
  /\ reader = "running" /\ live' = ~live
  /\ UNCHANGED <<vars, sick, monitor, seen, isReady, http>>

\* Reader.Streaming.
Streaming == live /\ reader = "running"

-----------------------------------------------------------------------------
(* StartHealthMonitor's goroutine.                                         *)

\* HealthCheckAll.  What a sink says before its Initialize or after its
\* Shutdown depends on its client.
Probes ==
  IF sick THEN {FALSE}
  ELSE IF ready = Sinks /\ shut = {} THEN {TRUE}
  ELSE BOOLEAN

\* A check starts, at once and then at every tick; the select may take a tick
\* when the monitor's channel is closed as well.
MonitorProbes ==
  /\ monitor = "wait"
  /\ seen' \in Probes
  /\ monitor' = "look"
  /\ UNCHANGED <<vars, sick, live, isReady, http>>

\* Slip: a check that fails leaves the status alone.
MonitorSetsOnlyReady ==
  /\ monitor = "look"
  /\ isReady' = (isReady \/ (seen /\ Streaming))
  /\ monitor' = "wait" /\ seen' = FALSE
  /\ UNCHANGED <<vars, sick, live, http>>

MonitorSets ==
  /\ monitor = "look"
  /\ isReady' = (seen /\ Streaming)
  /\ monitor' = "wait" /\ seen' = FALSE
  /\ UNCHANGED <<vars, sick, live, http>>

MonitorEnds ==
  /\ monitor = "wait" /\ cancelled
  /\ monitor' = "off"
  /\ UNCHANGED <<vars, sick, live, seen, isReady, http>>

\* OnStop: the HTTP server goes when the service has stopped.
ServerStops ==
  /\ stop = "done" /\ http = "up"
  /\ http' = "down"
  /\ UNCHANGED <<vars, sick, live, monitor, seen, isReady>>

Health ==
  \/ DestinationChanges \/ StreamChanges
  \/ MonitorProbes \/ MonitorSets \/ MonitorEnds
  \/ ServerStops

\* The process exits when OnStop returns.
GatewayNext ==
  \/ Next /\ UNCHANGED healthVars
  \/ http = "up" /\ Health

\* The monitor's ticker fires and its probes return (their context has a
\* timeout); OnStop goes on to the HTTP server.
GatewaySpec ==
  /\ GatewayInit /\ [][GatewayNext]_gatewayVars
  /\ Fairness
  /\ WF_gatewayVars(http = "up" /\ MonitorProbes)
  /\ WF_gatewayVars(http = "up" /\ MonitorSets)
  /\ WF_gatewayVars(ServerStops)

-----------------------------------------------------------------------------
\* /readiness follows the pipeline (README: "live replication stream and all
\* sinks healthy"): while a sink, or the stream, stays broken it does not go
\* on saying ready, not even when the process is told to stop and the monitor
\* is the first thing to go; over a pipeline that stays well it says so in
\* the end.  The two are looked at one after the other: when they take turns
\* being broken, ready may be seen although they were never well together.
Well == ~sick /\ Streaming
Answer == http = "up" /\ isReady
ReadinessFollows ==
  /\ (<>[]sick \/ <>[]~Streaming) => <>[]~Answer
  /\ <>[](Well /\ ~cancelled) => <>[]Answer
=============================================================================
