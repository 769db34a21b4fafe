---------------------------- MODULE MCHttpServer ----------------------------
(***************************************************************************)
(* The server's accept loop, and the WebSocket session of a connection it  *)
(* has upgraded.  A session shares no state with the loop: pick says which *)
(* of the two moves.                                                       *)
(*                                                                         *)
(* Server: three connections compete for two permits, so that one queues,  *)
(* and a queued connection can still be waiting when the drain deadline    *)
(* passes.  Session: two frames each way, and the frames that end it.      *)
(***************************************************************************)
EXTENDS HttpServer, WebSocketSession

CONSTANTS c1, c2, c3, p1, p2

MCServers ==
    {[transport |-> t, grpc |-> FALSE] : t \in {"tcp", "unix", "tls", "unix_tls"}}
        \cup {[transport |-> "tls", grpc |-> TRUE]}

VARIABLE pick

allVars == <<pick, vars, wsVars>>

MCInit ==
    /\ pick \in {"server", "websocket"}
    /\ Init /\ (pick = "server" \/ server = [transport |-> "tcp", grpc |-> FALSE])
    /\ SessionInit

MCNext ==
    \/ pick = "server" /\ Next /\ UNCHANGED <<pick, wsVars>>
    \/ pick = "websocket" /\ SessionNext /\ UNCHANGED <<pick, vars>>

\* The fairness of each part, for the behaviours in which it moves.
MCFairness ==
    /\ WF_vars(pick = "server" /\ (RunStep \/ DrainTimeout))
    /\ WF_vars(pick = "server" /\ (GrpcBind \/ GrpcBreak))
    /\ WF_wsVars(pick = "websocket" /\ ReadFrame)
    /\ WF_wsVars(pick = "websocket" /\ WriteFrame)
    /\ WF_wsVars(pick = "websocket" /\ CloseSink)
    /\ WF_wsVars(pick = "websocket" /\ StartHandler)
    /\ WF_wsVars(pick = "websocket" /\ Receive)

MCSpec == MCInit /\ [][MCNext]_allVars /\ MCFairness
=============================================================================
