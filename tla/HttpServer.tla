----------------------------- MODULE HttpServer -----------------------------
(***************************************************************************)
(* The life of a server and of its connections (justapi-core/src/server/   *)
(* mod.rs, metrics.rs, plugin.rs) over TCP, a Unix socket or TLS: start-up *)
(* hooks, the accept loop, one task per accepted connection, the requests  *)
(* it carries, graceful shutdown with its drain deadline, the shutdown     *)
(* hooks, and the gRPC listener that runs beside all of this.  Release     *)
(* builds abort on panic, so no task unwinds.                              *)
(*                                                                         *)
(* A connection is named by its accept.  Requests are counted, not named:  *)
(* a connection carries one at a time (HTTP/1).                            *)
(***************************************************************************)
EXTENDS Naturals, FiniteSets

CONSTANTS
    Servers,        \* [transport, grpc]: the servers that may be built
    Conns,          \* connections clients may open
    Plugins,        \* registered plugins
    MaxConnections, \* permits of conn_semaphore
    MaxRequests     \* bound of the model: requests sent in one behaviour

ASSUME ServerAssumption ==
    /\ IsFiniteSet(Conns)
    /\ MaxConnections \in Nat \ {0}
    /\ MaxRequests \in Nat

VARIABLES
    server,     \* the one that is run
    phase,      \* where run_on stands
    token,      \* the shutdown token is cancelled
    started,    \* plugins whose on_startup has returned
    notified,   \* plugins whose on_shutdown was called
    conn,       \* conn[c]: state of the task of connection c
    graceful,   \* connections on which graceful_shutdown() was called
    permits,    \* free permits of conn_semaphore
    gauge,      \* metrics.active_connections
    requests,   \* metrics.requests_total
    statuses,   \* responses recorded by metrics.record_status
    lost,       \* history: counted requests that ended without a status
    sockets,    \* websocket sessions, run by tasks of their own
    grpc        \* the gRPC listener

vars == <<server, phase, token, started, notified, conn, graceful, permits, gauge,
          requests, statuses, lost, sockets, grpc>>

runVars     == <<server, started, notified, grpc>>
requestVars == <<requests, statuses, lost, sockets>>

Phases == {"binding", "starting", "accepting", "draining", "stopping", "stopped"}
ConnStates == {"absent", "queued", "handshake", "open", "handling", "responding",
               "closed", "aborted"}

Serving == {c \in Conns : conn[c] \in {"handshake", "open", "handling", "responding"}}
Queued  == {c \in Conns : conn[c] = "queued"}
Live    == Serving \cup Queued

TypeOK ==
    /\ server \in Servers
    /\ phase \in Phases
    /\ token \in BOOLEAN
    /\ started \subseteq Plugins
    /\ notified \subseteq Plugins
    /\ conn \in [Conns -> ConnStates]
    /\ graceful \subseteq Conns
    /\ permits \in 0..MaxConnections
    /\ gauge \in Nat
    /\ requests \in 0..MaxRequests
    /\ statuses \in 0..MaxRequests
    /\ lost \in 0..MaxRequests
    /\ sockets \subseteq Conns
    /\ grpc \in {"none", "spawned", "listening", "ended"}

Init ==
    /\ server \in Servers
    /\ phase = "binding"
    /\ token = FALSE
    /\ started = {}
    /\ notified = {}
    /\ conn = [c \in Conns |-> "absent"]
    /\ graceful = {}
    /\ permits = MaxConnections
    /\ gauge = 0
    /\ requests = 0
    /\ statuses = 0
    /\ lost = 0
    /\ sockets = {}
    /\ grpc = "none"

-----------------------------------------------------------------------------
(* run, and the gRPC listener it spawns before the hooks: a bind that      *)
(* fails is silent, and its connections are drained by nobody.             *)

Bind ==
    /\ phase = "binding"
    /\ \/ phase' = "stopped" /\ UNCHANGED grpc
       \/ phase' = "starting" /\ grpc' = IF server.grpc THEN "spawned" ELSE "none"
    /\ UNCHANGED <<server, started, notified, token, conn, graceful, permits, gauge, requestVars>>

GrpcBind ==
    /\ grpc = "spawned"
    /\ grpc' \in {"listening", "ended"}
    /\ UNCHANGED <<server, started, notified, phase, token, conn, graceful, permits, gauge, requestVars>>

GrpcBreak ==
    /\ grpc = "listening" /\ token
    /\ grpc' = "ended"
    /\ UNCHANGED <<server, started, notified, phase, token, conn, graceful, permits, gauge, requestVars>>

-----------------------------------------------------------------------------
(* Start-up and the accept loop.                                           *)

CancelToken ==
    /\ ~token
    /\ token' = TRUE
    /\ UNCHANGED <<phase, runVars, conn, graceful, permits, gauge, requestVars>>

\* on_startup_all calls the hooks one after the other, in map order.
StartPlugin(p) ==
    /\ phase = "starting"
    /\ p \notin started
    /\ started' = started \cup {p}
    /\ UNCHANGED <<server, phase, token, notified, grpc, conn, graceful, permits, gauge,
                   requestVars>>

\* A failing hook ends run_on at once.
StartupFails ==
    /\ phase = "starting"
    /\ started # Plugins
    /\ phase' = "stopped"
    /\ UNCHANGED <<token, runVars, conn, graceful, permits, gauge, requestVars>>

\* Only once the hooks have run: each transport enters its accept loop, TLS
\* after it has read certificate and key; TLS over a Unix socket is refused,
\* and run_on_uds returns without calling on_shutdown_all.
BeginAccept(transport, outcomes) ==
    /\ phase = "starting" /\ started = Plugins
    /\ server.transport = transport
    /\ phase' \in outcomes
    /\ UNCHANGED <<token, runVars, conn, graceful, permits, gauge, requestVars>>

ServeHttp == BeginAccept("tcp", {"accepting"})
ServeUnix == BeginAccept("unix", {"accepting"})
ServeWithTls == BeginAccept("tls", {"accepting", "stopping"})
RefuseTls == BeginAccept("unix_tls", {"stopped"})

\* The select of the accept loop may still pick a connection when the token
\* is cancelled already.  The task is spawned before it has a permit; over TLS
\* it is counted before it is spawned.
Accept(c) ==
    /\ phase = "accepting"
    /\ conn[c] = "absent"
    /\ conn' = [conn EXCEPT ![c] = "queued"]
    /\ gauge' = IF server.transport = "tls" THEN gauge + 1 ELSE gauge
    /\ UNCHANGED <<phase, token, runVars, graceful, permits, requestVars>>

StopAccepting ==
    /\ phase = "accepting"
    /\ token
    /\ phase' = "draining"
    /\ UNCHANGED <<token, runVars, conn, graceful, permits, gauge, requestVars>>

\* The JoinSet is dropped: live tasks are aborted, their permits come back,
\* and their connection_closed() is never reached.
AbortLive ==
    /\ conn' = [c \in Conns |-> IF c \in Live THEN "aborted" ELSE conn[c]]
    /\ permits' = permits + Cardinality(Serving)
    /\ lost' = lost + Cardinality({c \in Conns : conn[c] = "handling"})
    /\ UNCHANGED <<token, runVars, graceful, gauge, requests, statuses, sockets>>

\* An error of accept() leaves serve_generic through `?`.
AcceptError ==
    /\ phase = "accepting"
    /\ phase' = "stopping"
    /\ AbortLive

-----------------------------------------------------------------------------
(* serve_connection.                                                       *)

Admitted(c) ==
    /\ conn[c] = "queued" /\ permits > 0
    /\ IF server.transport = "tls"
       THEN conn' = [conn EXCEPT ![c] = "handshake"] /\ UNCHANGED gauge
       ELSE conn' = [conn EXCEPT ![c] = "open"] /\ gauge' = gauge + 1
    /\ UNCHANGED <<phase, token, runVars, graceful, requestVars>>

\* Mutant: the permit is dropped right after it was acquired.
AcquireUnheld(c) == Admitted(c) /\ UNCHANGED permits

AcquirePermit(c) == Admitted(c) /\ permits' = permits - 1

\* The handshake watches neither a timer nor the token.
Handshake(c) ==
    /\ conn[c] = "handshake"
    /\ conn' = [conn EXCEPT ![c] = "open"]
    /\ UNCHANGED <<phase, token, runVars, graceful, permits, gauge, requestVars>>

\* The connection future has ended: connection_closed(), permit released.
EndConnection(c) ==
    /\ conn' = [conn EXCEPT ![c] = "closed"]
    /\ permits' = permits + 1
    /\ gauge' = gauge - 1

\* Mutant: a connection that is dropped while it queues counts itself out.
QueuedCloses(c) ==
    /\ c \in Live
    /\ EndConnection(c)
    /\ lost' = lost + (IF conn[c] = "handling" THEN 1 ELSE 0)
    /\ UNCHANGED <<phase, token, runVars, graceful, requests, statuses, sockets>>

\* The client hangs up, the handshake fails, or the header read timeout closes
\* an idle connection.
\* A handler that is still running is dropped and records nothing.
PeerCloses(c) ==
    /\ c \in Serving
    /\ EndConnection(c)
    /\ lost' = lost + (IF conn[c] = "handling" THEN 1 ELSE 0)
    /\ UNCHANGED <<phase, token, runVars, graceful, requests, statuses, sockets>>

\* The token wins the select: graceful_shutdown() closes an idle connection
\* and lets a busy one finish its request.
GracefulShutdown(c) ==
    /\ token
    /\ c \in Serving \ graceful /\ conn[c] # "handshake"
    /\ graceful' = graceful \cup {c}
    /\ IF conn[c] = "open" THEN EndConnection(c)
                           ELSE UNCHANGED <<conn, permits, gauge>>
    /\ UNCHANGED <<phase, token, runVars, requestVars>>

-----------------------------------------------------------------------------
(* handle_request.  A request refused by the input validation is answered  *)
(* before it is counted and changes nothing that is modelled.              *)

BeginRequest(c) ==
    /\ conn[c] = "open"
    /\ c \notin graceful
    /\ requests < MaxRequests
    /\ requests' = requests + 1
    /\ conn' = [conn EXCEPT ![c] = "handling"]
    /\ UNCHANGED <<phase, token, runVars, graceful, permits, gauge, statuses,
                   lost, sockets>>

\* A websocket upgrade: a detached task takes the stream over and the
\* connection future ends.
Upgrade(c) ==
    /\ conn[c] = "open"
    /\ c \notin graceful
    /\ requests < MaxRequests
    /\ requests' = requests + 1
    /\ lost' = lost + 1
    /\ sockets' = sockets \cup {c}
    /\ EndConnection(c)
    /\ UNCHANGED <<phase, token, runVars, graceful, statuses>>

SocketEnds(c) ==
    /\ c \in sockets
    /\ sockets' = sockets \ {c}
    /\ UNCHANGED <<phase, token, runVars, conn, graceful, permits, gauge,
                   requests, statuses, lost>>

\* Mutant: the timeout branch forgets record_status.
RecordSuccessOnly(c) ==
    /\ conn[c] = "handling"
    /\ statuses' \in {statuses, statuses + 1}
    /\ conn' = [conn EXCEPT ![c] = "responding"]
    /\ UNCHANGED <<phase, token, runVars, graceful, permits, gauge, requests,
                   lost, sockets>>

\* The WASM filter refuses the request, or the chain returns a response or
\* an error, or the request timeout drops the chain: each records a status.
RecordStatus(c) ==
    /\ conn[c] = "handling"
    /\ statuses' = statuses + 1
    /\ conn' = [conn EXCEPT ![c] = "responding"]
    /\ UNCHANGED <<phase, token, runVars, graceful, permits, gauge, requests,
                   lost, sockets>>

\* A 404 has been replaced by a static file where there is one, the response
\* is written, and the connection waits for the next request or ends.
FinishResponse(c) ==
    /\ conn[c] = "responding"
    /\ IF c \in graceful
       THEN EndConnection(c)
       ELSE /\ conn' = [conn EXCEPT ![c] = "open"]
            /\ UNCHANGED <<permits, gauge>>
    /\ UNCHANGED <<phase, token, runVars, graceful, requestVars>>

-----------------------------------------------------------------------------
(* Shutdown.                                                               *)

\* Mutant: the drain waits for connections that hold a permit only.
DrainServing ==
    /\ phase = "draining"
    /\ Serving = {}
    /\ phase' = "stopping"
    /\ UNCHANGED <<token, runVars, conn, graceful, permits, gauge, requestVars>>

Drained ==
    /\ phase = "draining"
    /\ Live = {}
    /\ phase' = "stopping"
    /\ UNCHANGED <<token, runVars, conn, graceful, permits, gauge, requestVars>>

\* Mutant: the sleep is not raced with the joins but follows them.
DeadlineAfterJoin ==
    /\ phase = "draining"
    /\ Live = {}
    /\ phase' = "stopping"
    /\ AbortLive

DrainTimeout ==
    /\ phase = "draining"
    /\ phase' = "stopping"
    /\ AbortLive

\* on_shutdown_all; a hook that fails ends it and run_on.
ShutdownPlugin(p) ==
    /\ phase = "stopping"
    /\ p \notin notified
    /\ notified' = notified \cup {p}
    /\ phase' \in {"stopping", "stopped"}
    /\ UNCHANGED <<server, token, started, grpc, conn, graceful, permits, gauge, requestVars>>

Stop ==
    /\ phase = "stopping"
    /\ notified = Plugins
    /\ phase' = "stopped"
    /\ UNCHANGED <<token, runVars, conn, graceful, permits, gauge, requestVars>>

-----------------------------------------------------------------------------
HookStep == \E p \in Plugins : StartPlugin(p) \/ ShutdownPlugin(p)

RunStep ==
    \/ Bind \/ HookStep \/ StartupFails
    \/ ServeHttp \/ ServeUnix \/ ServeWithTls \/ RefuseTls
    \/ StopAccepting \/ Drained \/ Stop

ConnStep(c) ==
    \/ Accept(c) \/ AcquirePermit(c) \/ Handshake(c) \/ PeerCloses(c) \/ GracefulShutdown(c)
    \/ BeginRequest(c) \/ Upgrade(c) \/ SocketEnds(c)
    \/ RecordStatus(c) \/ FinishResponse(c)

Next ==
    \/ CancelToken \/ RunStep \/ DrainTimeout \/ AcceptError \/ GrpcBind \/ GrpcBreak
    \/ \E c \in Conns : ConnStep(c)

Spec == Init /\ [][Next]_vars

\* The task of run_on is polled, the hooks it awaits return, its drain timer
\* fires.  Nothing is asked of clients, handlers and connections.
FairSpec == Spec /\ WF_vars(RunStep \/ DrainTimeout) /\ WF_vars(GrpcBind \/ GrpcBreak)

-----------------------------------------------------------------------------
\* Permits are neither lost nor minted, on whatever path a connection ends,
\* so at most MaxConnections connections are served at a time; and while the
\* server runs, active_connections is the number of those served or, over TLS,
\* of those accepted: each that is counted in is counted out.
ServingIsAccounted ==
    /\ permits + Cardinality(Serving) = MaxConnections
    /\ phase \in {"accepting", "draining"} =>
           gauge = Cardinality(IF server.transport = "tls" THEN Live ELSE Serving)

\* Every counted request is being handled, has exactly one recorded status,
\* or ended without an answer (upgrade, hang-up, abort).
MetricsBalance ==
    requests = statuses + lost + Cardinality({c \in Conns : conn[c] = "handling"})

\* The hooks bracket the connections: no task, served or queued, runs before
\* the last on_startup or after the first on_shutdown.
HooksBracketConnections ==
    Live # {} => started = Plugins /\ notified = {} /\ phase # "stopped"

\* Whatever hang-ups, upgrades, failed handshakes, accept errors and deadlines
\* come together, run_on keeps its books: all of the above hold.
ServerIsSound == TypeOK /\ ServingIsAccounted /\ MetricsBalance /\ HooksBracketConnections

\* Once the token is cancelled run_on returns, whatever the connections do and
\* however long they take, because the drain has a deadline; and the gRPC
\* listener accepts no more.
ShutdownTerminates == token ~> (phase = "stopped" /\ grpc \in {"none", "ended"})
=============================================================================
