-------------------------- MODULE HttpServerProofs --------------------------
(***************************************************************************)
(* Proofs about the server's books, for any number of connections,         *)
(* plugins, permits and requests.                                          *)
(*                                                                         *)
(* ServerIsSound is not inductive.  That a gauge never falls below zero,   *)
(* and that the hooks bracket the connections, depends on where run_on     *)
(* stands: ServerInv adds what holds in each of its phases.                *)
(***************************************************************************)
EXTENDS HttpServer, FiniteSetTheorems, TLAPS

Busy     == {"handshake", "open", "handling", "responding"}
Handling == {c \in Conns : conn[c] = "handling"}

PhaseInv ==
    /\ phase \notin {"accepting", "draining"} => Live = {}
    /\ phase \in {"accepting", "draining"} => started = Plugins /\ notified = {}
    /\ phase \in {"binding", "starting"} => gauge = 0 /\ notified = {}

ServerInv == TypeOK /\ ServingIsAccounted /\ MetricsBalance /\ PhaseInv

One(b) == IF b THEN 1 ELSE 0

-----------------------------------------------------------------------------
\* The sets the books count are finite.
LEMMA CountsAreNumbers ==
    /\ IsFiniteSet(Serving) /\ Cardinality(Serving) \in Nat
    /\ IsFiniteSet(Live) /\ Cardinality(Live) \in Nat
    /\ IsFiniteSet(Handling) /\ Cardinality(Handling) \in Nat
<1>1. Serving \in SUBSET Conns /\ Live \in SUBSET Conns /\ Handling \in SUBSET Conns
  BY DEF Serving, Live, Queued, Handling
<1> QED BY <1>1, ServerAssumption, FS_Subset, FS_CardinalityType DEF ServerAssumption

\* One element changes sides: what that does to the size of a set.
LEMMA OneMoves ==
    ASSUME NEW S, IsFiniteSet(S), NEW c, NEW b \in BOOLEAN
    PROVE  Cardinality(IF b THEN S \cup {c} ELSE S \ {c})
               = Cardinality(S) + One(b) - One(c \in S)
<1>1. Cardinality(S) \in Nat
  BY FS_CardinalityType
<1>2. CASE b
  BY <1>1, <1>2, FS_AddElement DEF One
<1>3. CASE ~b
  BY <1>1, <1>3, FS_RemoveElement DEF One
<1> QED BY <1>2, <1>3

\* A connection task changes its state: the three counts move with it.
LEMMA ConnMoves ==
    ASSUME TypeOK, NEW c \in Conns, NEW s \in ConnStates, conn' = [conn EXCEPT ![c] = s]
    PROVE  /\ Cardinality(Serving)' = Cardinality(Serving) + One(s \in Busy) - One(conn[c] \in Busy)
           /\ Cardinality(Live)' = Cardinality(Live) + One(s \in Busy \cup {"queued"})
                                        - One(conn[c] \in Busy \cup {"queued"})
           /\ Cardinality(Handling)' = Cardinality(Handling) + One(s = "handling")
                                            - One(conn[c] = "handling")
<1>1. Serving' = IF s \in Busy THEN Serving \cup {c} ELSE Serving \ {c}
  BY DEF TypeOK, Serving, Busy
<1>2. Live' = IF s \in Busy \cup {"queued"} THEN Live \cup {c} ELSE Live \ {c}
  BY DEF TypeOK, Serving, Live, Queued, Busy
<1>3. Handling' = IF s = "handling" THEN Handling \cup {c} ELSE Handling \ {c}
  BY DEF TypeOK, Handling
<1>4. /\ (c \in Serving) = (conn[c] \in Busy)
      /\ (c \in Live) = (conn[c] \in Busy \cup {"queued"})
      /\ (c \in Handling) = (conn[c] = "handling")
  BY DEF Serving, Live, Queued, Handling, Busy
<1>5. /\ (s \in Busy) \in BOOLEAN /\ (s \in Busy \cup {"queued"}) \in BOOLEAN
      /\ (s = "handling") \in BOOLEAN
  OBVIOUS
<1>6. Cardinality(Serving') = Cardinality(Serving) + One(s \in Busy) - One(c \in Serving)
  BY <1>1, <1>5, OneMoves, CountsAreNumbers
<1>7. Cardinality(Live') = Cardinality(Live) + One(s \in Busy \cup {"queued"}) - One(c \in Live)
  BY <1>2, <1>5, OneMoves, CountsAreNumbers
<1>8. Cardinality(Handling') = Cardinality(Handling) + One(s = "handling") - One(c \in Handling)
  BY <1>3, <1>5, OneMoves, CountsAreNumbers
<1> QED BY <1>4, <1>6, <1>7, <1>8

-----------------------------------------------------------------------------
\* A task that runs at all runs while run_on accepts or drains.
LEMMA LiveInPhase ==
    ASSUME ServerInv, NEW c \in Conns, conn[c] \in Busy \cup {"queued"}
    PROVE  phase \in {"accepting", "draining"}
BY DEF ServerInv, PhaseInv, Live, Serving, Queued, Busy

\* The task of c moves to s and takes its share of the books with it: its
\* permit, its place in the gauge, and the request it is handling.
MovesTo(c, s) ==
    /\ conn' = [conn EXCEPT ![c] = s]
    /\ UNCHANGED <<server, phase, token, started, notified, grpc>>
    /\ graceful' \subseteq Conns /\ sockets' \subseteq Conns
    /\ permits' \in Nat /\ permits' = permits - One(s \in Busy) + One(conn[c] \in Busy)
    /\ gauge' = IF server.transport = "tls"
                THEN gauge + One(s \in Busy \cup {"queued"}) - One(conn[c] \in Busy \cup {"queued"})
                ELSE gauge + One(s \in Busy) - One(conn[c] \in Busy)
    /\ requests' \in 0..MaxRequests /\ statuses' \in Nat /\ lost' \in Nat
    /\ requests' - statuses' - lost'
           = requests - statuses - lost + One(s = "handling") - One(conn[c] = "handling")

\* Every step of serve_connection and of handle_request has this form.
LEMMA MoveKeeps ==
    ASSUME ServerInv, NEW c \in Conns, NEW s \in ConnStates, MovesTo(c, s),
           phase \in {"accepting", "draining"}
    PROVE  ServerInv'
<1> USE DEF ServerInv, MovesTo
<1>1. /\ Cardinality(Serving)' = Cardinality(Serving) + One(s \in Busy) - One(conn[c] \in Busy)
      /\ Cardinality(Live)' = Cardinality(Live) + One(s \in Busy \cup {"queued"})
                                   - One(conn[c] \in Busy \cup {"queued"})
      /\ Cardinality(Handling)' = Cardinality(Handling) + One(s = "handling")
                                       - One(conn[c] = "handling")
  BY ConnMoves
<1>2. /\ Cardinality(Serving) \in Nat /\ Cardinality(Live) \in Nat /\ Cardinality(Handling) \in Nat
  BY CountsAreNumbers
<1>3. /\ Cardinality(Serving)' \in Nat /\ Cardinality(Live)' \in Nat /\ Cardinality(Handling)' \in Nat
  <2>1. Serving' \in SUBSET Conns /\ Live' \in SUBSET Conns /\ Handling' \in SUBSET Conns
    BY DEF Serving, Live, Queued, Handling
  <2> QED BY <2>1, ServerAssumption, FS_Subset, FS_CardinalityType DEF ServerAssumption
<1>4. /\ One(s \in Busy) \in Int /\ One(conn[c] \in Busy) \in Int
      /\ One(s \in Busy \cup {"queued"}) \in Int /\ One(conn[c] \in Busy \cup {"queued"}) \in Int
      /\ One(s = "handling") \in Int /\ One(conn[c] = "handling") \in Int
  BY DEF One
<1>5. /\ permits \in Int /\ gauge \in Int /\ requests \in Int /\ statuses \in Int /\ lost \in Int
      /\ MaxConnections \in Nat
  BY ServerAssumption DEF TypeOK, ServerAssumption
<1>6. permits' + Cardinality(Serving)' = MaxConnections
  BY <1>1, <1>2, <1>4, <1>5 DEF ServingIsAccounted
<1>7. gauge' = IF server.transport = "tls" THEN Cardinality(Live)' ELSE Cardinality(Serving)'
  BY <1>1, <1>2, <1>4, <1>5 DEF ServingIsAccounted
<1>8. requests' = statuses' + lost' + Cardinality(Handling)'
  BY <1>1, <1>2, <1>3, <1>4, <1>5 DEF MetricsBalance, Handling
<1>9. permits' \in 0..MaxConnections
  BY <1>3, <1>5, <1>6
<1>10. gauge' \in Nat
  BY <1>3, <1>7
<1>11. statuses' \in 0..MaxRequests /\ lost' \in 0..MaxRequests
  BY <1>3, <1>8, ServerAssumption DEF ServerAssumption
<1>12. conn' \in [Conns -> ConnStates]
  BY DEF TypeOK
<1>13. TypeOK'
  BY <1>9, <1>10, <1>11, <1>12 DEF TypeOK
<1>14. ServingIsAccounted'
  BY <1>6, <1>7 DEF ServingIsAccounted
<1>15. MetricsBalance'
  BY <1>8 DEF MetricsBalance, Handling
<1>16. PhaseInv'
  BY DEF PhaseInv
<1> QED BY <1>13, <1>14, <1>15, <1>16

-----------------------------------------------------------------------------
\* The tasks are aborted with the JoinSet: every permit comes back and every
\* request that was being handled is lost.
LEMMA AbortKeeps ==
    ASSUME ServerInv, phase \in {"accepting", "draining"}, phase' = "stopping", AbortLive
    PROVE  ServerInv'
<1> USE DEF ServerInv
<1>1. Live' = {} /\ Serving' = {} /\ Handling' = {}
  BY DEF AbortLive, TypeOK, Live, Serving, Queued, Handling
<1>2. Cardinality(Serving)' = 0 /\ Cardinality(Handling)' = 0
  BY <1>1, FS_EmptySet
<1>3. Cardinality(Serving) \in Nat /\ Cardinality(Handling) \in Nat
  BY CountsAreNumbers
<1>4. /\ permits \in Nat /\ requests \in Nat /\ statuses \in Nat /\ lost \in Nat
      /\ MaxConnections \in Nat /\ MaxRequests \in Nat
  BY ServerAssumption DEF TypeOK, ServerAssumption
<1>5. permits' = MaxConnections
  BY <1>3, <1>4 DEF AbortLive, ServingIsAccounted
<1>6. lost' = lost + Cardinality(Handling)
  BY DEF AbortLive, Handling
<1>7. requests' = statuses' + lost' /\ lost' \in 0..MaxRequests
  BY <1>3, <1>4, <1>6 DEF AbortLive, MetricsBalance, Handling, TypeOK
<1>8. conn' \in [Conns -> ConnStates]
  BY DEF AbortLive, TypeOK, ConnStates
<1>9. TypeOK'
  BY <1>4, <1>5, <1>7, <1>8 DEF AbortLive, runVars, TypeOK, Phases
<1>10. ServingIsAccounted'
  BY <1>2, <1>4, <1>5 DEF ServingIsAccounted
<1>11. MetricsBalance'
  BY <1>2, <1>4, <1>7 DEF MetricsBalance, Handling, AbortLive, TypeOK
<1>12. PhaseInv'
  BY <1>1 DEF PhaseInv
<1> QED BY <1>9, <1>10, <1>11, <1>12

\* The connections and the counters stay as they are while run_on moves on.
LEMMA RunStepKeeps ==
    ASSUME ServerInv, UNCHANGED <<server, conn, graceful, permits, gauge, requests, statuses, lost>>,
           sockets' \subseteq Conns, phase' \in Phases, token' \in BOOLEAN, started' \subseteq Plugins, notified' \subseteq Plugins,
           grpc' \in {"none", "spawned", "listening", "ended"},
           phase' \in {"accepting", "draining"} => phase \in {"starting", "accepting", "draining"},
           PhaseInv'
    PROVE  ServerInv'
<1> USE DEF ServerInv
<1>1. Serving' = Serving /\ Live' = Live /\ Handling' = Handling
  BY DEF Serving, Live, Queued, Handling
<1>2. TypeOK'
  BY DEF TypeOK
<1>3. MetricsBalance'
  BY <1>1 DEF MetricsBalance, Handling
<1>4. ServingIsAccounted'
  <2>1. CASE phase = "starting"
    <3>1. Live = {} /\ Serving = {} /\ gauge = 0
      BY <2>1 DEF PhaseInv, Live
    <3> QED BY <1>1, <3>1, FS_EmptySet DEF ServingIsAccounted
  <2>2. CASE phase # "starting"
    BY <1>1, <2>2 DEF ServingIsAccounted
  <2> QED BY <2>1, <2>2
<1> QED BY <1>2, <1>3, <1>4

-----------------------------------------------------------------------------
\* Every step of run_on and of the gRPC listener keeps the invariant.
LEMMA RunStepsKeep ==
    ASSUME ServerInv, CancelToken \/ RunStep \/ DrainTimeout \/ AcceptError \/ GrpcBind \/ GrpcBreak
    PROVE  ServerInv'
<1> USE DEF runVars, requestVars
<1>1. TypeOK /\ PhaseInv
  BY DEF ServerInv
<1>2. Live' = Live \/ DrainTimeout \/ AcceptError
  BY DEF CancelToken, RunStep, HookStep, GrpcBind, GrpcBreak, Bind, StartPlugin, ShutdownPlugin,
         StartupFails, ServeHttp, ServeUnix, ServeWithTls, RefuseTls, BeginAccept, StopAccepting,
         Drained, Stop, Live, Serving, Queued
<1>3. CASE DrainTimeout \/ AcceptError
  BY <1>3, AbortKeeps DEF DrainTimeout, AcceptError
<1>4. CASE Live' = Live /\ (CancelToken \/ GrpcBind \/ GrpcBreak)
  BY <1>1, <1>4, RunStepKeeps DEF CancelToken, GrpcBind, GrpcBreak, TypeOK, PhaseInv
<1>5. CASE Live' = Live /\ Bind
  BY <1>1, <1>5, RunStepKeeps DEF Bind, TypeOK, Phases, PhaseInv
<1>6. CASE Live' = Live /\ HookStep
  <2>1. PICK p \in Plugins : StartPlugin(p) \/ ShutdownPlugin(p)
    BY <1>6 DEF HookStep
  <2>2. CASE StartPlugin(p)
    BY <1>1, <1>6, <2>2, RunStepKeeps DEF StartPlugin, TypeOK, Phases, PhaseInv
  <2>3. CASE ShutdownPlugin(p)
    BY <1>1, <1>6, <2>3, RunStepKeeps DEF ShutdownPlugin, TypeOK, Phases, PhaseInv
  <2> QED BY <2>1, <2>2, <2>3
<1>7. CASE Live' = Live /\ (StartupFails \/ ServeHttp \/ ServeUnix \/ ServeWithTls \/ RefuseTls)
  <2>1. /\ phase = "starting" /\ phase' \in {"accepting", "stopping", "stopped"}
        /\ phase' = "accepting" => started = Plugins
        /\ UNCHANGED <<token, runVars, conn, graceful, permits, gauge, requestVars>>
    BY <1>7 DEF StartupFails, ServeHttp, ServeUnix, ServeWithTls, RefuseTls, BeginAccept
  <2> QED BY <1>1, <1>7, <2>1, RunStepKeeps DEF TypeOK, Phases, PhaseInv
<1>8. CASE Live' = Live /\ (StopAccepting \/ Drained \/ Stop)
  BY <1>1, <1>8, RunStepKeeps DEF StopAccepting, Drained, Stop, TypeOK, Phases, PhaseInv
<1> QED BY <1>2, <1>3, <1>4, <1>5, <1>6, <1>7, <1>8 DEF RunStep

\* Every step of a connection, of its requests and of its sockets does.
LEMMA ConnStepsKeep ==
    ASSUME ServerInv, NEW c \in Conns, ConnStep(c)
    PROVE  ServerInv'
<1> USE DEF runVars, requestVars
<1>1. /\ TypeOK /\ PhaseInv /\ graceful \subseteq Conns /\ sockets \subseteq Conns
      /\ permits \in Nat /\ gauge \in Nat /\ requests \in Nat /\ statuses \in Nat /\ lost \in Nat
      /\ requests \in 0..MaxRequests /\ MaxRequests \in Nat
      /\ conn = [conn EXCEPT ![c] = conn[c]] /\ conn[c] \in ConnStates
  BY ServerAssumption DEF ServerInv, TypeOK, ServerAssumption
<1>2. CASE SocketEnds(c)
  <2>1. Live' = Live
    BY <1>2 DEF SocketEnds, Live, Serving, Queued
  <2> QED BY <1>1, <1>2, <2>1, RunStepKeeps DEF SocketEnds, TypeOK, Phases, PhaseInv
<1>3. CASE Accept(c)
  <2>1. MovesTo(c, "queued")
    BY <1>1, <1>3 DEF Accept, MovesTo, One, Busy
  <2>2. phase \in {"accepting", "draining"}
    BY <1>3 DEF Accept
  <2> QED BY <1>1, <2>1, <2>2, MoveKeeps DEF ConnStates
<1>4. CASE AcquirePermit(c)
  <2>1. MovesTo(c, IF server.transport = "tls" THEN "handshake" ELSE "open")
    BY <1>1, <1>4 DEF AcquirePermit, Admitted, MovesTo, One, Busy
  <2>2. phase \in {"accepting", "draining"}
    BY <1>4, LiveInPhase DEF AcquirePermit, Admitted, Busy
  <2> QED BY <1>1, <2>1, <2>2, MoveKeeps DEF ConnStates
<1>5. CASE Handshake(c)
  <2>1. MovesTo(c, "open")
    BY <1>1, <1>5 DEF Handshake, MovesTo, One, Busy
  <2>2. phase \in {"accepting", "draining"}
    BY <1>5, LiveInPhase DEF Handshake, Busy
  <2> QED BY <1>1, <2>1, <2>2, MoveKeeps DEF ConnStates
<1>6. CASE PeerCloses(c)
  <2>1. MovesTo(c, "closed")
    BY <1>1, <1>6 DEF PeerCloses, EndConnection, Serving, MovesTo, One, Busy
  <2>2. phase \in {"accepting", "draining"}
    BY <1>6, LiveInPhase DEF PeerCloses, EndConnection, Serving, Busy
  <2> QED BY <1>1, <2>1, <2>2, MoveKeeps DEF ConnStates
<1>7. CASE GracefulShutdown(c)
  <2>1. MovesTo(c, IF conn[c] = "open" THEN "closed" ELSE conn[c])
    BY <1>1, <1>7 DEF GracefulShutdown, EndConnection, Serving, MovesTo, One, Busy
  <2>2. phase \in {"accepting", "draining"}
    BY <1>7, LiveInPhase DEF GracefulShutdown, EndConnection, Serving, Busy
  <2> QED BY <1>1, <2>1, <2>2, MoveKeeps DEF ConnStates
<1>8. CASE BeginRequest(c)
  <2>1. MovesTo(c, "handling")
    BY <1>1, <1>8 DEF BeginRequest, MovesTo, One, Busy
  <2>2. phase \in {"accepting", "draining"}
    BY <1>8, LiveInPhase DEF BeginRequest, Busy
  <2> QED BY <1>1, <2>1, <2>2, MoveKeeps DEF ConnStates
<1>9. CASE Upgrade(c)
  <2>1. MovesTo(c, "closed")
    BY <1>1, <1>9 DEF Upgrade, EndConnection, MovesTo, One, Busy
  <2>2. phase \in {"accepting", "draining"}
    BY <1>9, LiveInPhase DEF Upgrade, EndConnection, Busy
  <2> QED BY <1>1, <2>1, <2>2, MoveKeeps DEF ConnStates
<1>10. CASE RecordStatus(c)
  <2>1. MovesTo(c, "responding")
    BY <1>1, <1>10 DEF RecordStatus, MovesTo, One, Busy
  <2>2. phase \in {"accepting", "draining"}
    BY <1>10, LiveInPhase DEF RecordStatus, Busy
  <2> QED BY <1>1, <2>1, <2>2, MoveKeeps DEF ConnStates
<1>11. CASE FinishResponse(c)
  <2>1. MovesTo(c, IF c \in graceful THEN "closed" ELSE "open")
    BY <1>1, <1>11 DEF FinishResponse, EndConnection, MovesTo, One, Busy
  <2>2. phase \in {"accepting", "draining"}
    BY <1>11, LiveInPhase DEF FinishResponse, EndConnection, Busy
  <2> QED BY <1>1, <2>1, <2>2, MoveKeeps DEF ConnStates
<1> QED BY <1>2, <1>3, <1>4, <1>5, <1>6, <1>7, <1>8, <1>9, <1>10, <1>11 DEF ConnStep

-----------------------------------------------------------------------------
\* The invariant holds when run is called.
LEMMA InitSound == Init => ServerInv
<1> SUFFICES ASSUME Init PROVE ServerInv
  OBVIOUS
<1>1. Live = {} /\ Serving = {} /\ Handling = {}
  BY DEF Init, Live, Serving, Queued, Handling
<1>2. Cardinality(Serving) = 0 /\ Cardinality(Handling) = 0
  BY <1>1, FS_EmptySet
<1>3. TypeOK
  <2>1. conn \in [Conns -> ConnStates] /\ permits \in 0..MaxConnections
    BY ServerAssumption DEF Init, ServerAssumption, ConnStates
  <2>2. 0 \in 0..MaxRequests
    BY ServerAssumption DEF ServerAssumption
  <2> QED BY <2>1, <2>2 DEF Init, TypeOK, Phases
<1>4. ServingIsAccounted /\ MetricsBalance
  BY <1>2, ServerAssumption DEF Init, ServingIsAccounted, MetricsBalance, Handling, ServerAssumption
<1>5. PhaseInv
  BY <1>1 DEF Init, PhaseInv
<1> QED BY <1>3, <1>4, <1>5 DEF ServerInv

\* However many connections, plugins, permits and requests there are, and
\* whatever clients, hooks and timers do: no permit is lost or minted, the
\* gauge and the counters agree with the connections there are, and the hooks
\* bracket the connections.
THEOREM ServerStaysSound == Spec => []ServerIsSound
<1>1. Init => ServerInv
  BY InitSound
<1>2. ServerInv /\ [Next]_vars => ServerInv'
  <2> SUFFICES ASSUME ServerInv, [Next]_vars PROVE ServerInv'
    OBVIOUS
  <2>1. CASE UNCHANGED vars
    BY <2>1 DEF vars, ServerInv, TypeOK, ServingIsAccounted, MetricsBalance, PhaseInv, Live,
                Serving, Queued
  <2>2. CASE \E c \in Conns : ConnStep(c)
    BY <2>2, ConnStepsKeep
  <2>3. CASE CancelToken \/ RunStep \/ DrainTimeout \/ AcceptError \/ GrpcBind \/ GrpcBreak
    BY <2>3, RunStepsKeep
  <2> QED BY <2>1, <2>2, <2>3 DEF Next
<1>3. ServerInv => ServerIsSound
  BY DEF ServerInv, ServerIsSound, PhaseInv, HooksBracketConnections, TypeOK, Phases
<1> QED BY <1>1, <1>2, <1>3, PTL DEF Spec
=============================================================================
