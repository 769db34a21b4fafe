-------------------------- MODULE WebSocketSession --------------------------
(***************************************************************************)
(* A WebSocket between a peer and a Python handler                         *)
(* (justapi-py/src/websocket.rs, and the bridge run() sets up in           *)
(* native/app.rs): a task that moves the peer's frames to an unbounded     *)
(* channel, the WebSocket object the handler receives from and sends with, *)
(* and a task that moves its messages from a second channel to the socket. *)
(* Payloads are numbers.  An endpoint of a channel that is dropped closes  *)
(* it: a sender gets an error, a receiver gets what is left, then None.    *)
(***************************************************************************)
EXTENDS Naturals, Sequences

CONSTANTS
    MaxIn,      \* bound: frames the peer sends
    MaxOut      \* bound: messages the handler sends

VARIABLES
    peer,       \* frames from the peer, not read yet
    peerSent,   \* history: frames the peer sent, pings aside
    read,       \* the inbound task: "reading" or "done"
    incoming,   \* the channel to the handler
    got,        \* history: what the receive calls returned
    clientState, appState,  \* client_state and application_state
    handler,    \* "new", "running" or "done"
    outgoing,   \* the channel from the handler
    sent,       \* history: messages a send call accepted
    write,      \* the outbound task: "writing", "closing" or "done"
    wire,       \* history: frames written to the socket
    broken      \* history: a write has failed

wsVars == <<peer, peerSent, read, incoming, got, clientState, appState, handler,
          outgoing, sent, write, wire, broken>>

CONNECTING   == 0
CONNECTED    == 1
DISCONNECTED == 2

Text(n)  == [kind |-> "text", n |-> n]
Bytes(n) == [kind |-> "bytes", n |-> n]
Ping     == [kind |-> "ping", n |-> 0]
Close    == [kind |-> "close", n |-> 0]
Broken   == [kind |-> "error", n |-> 0]
Eof      == [kind |-> "eof", n |-> 0]
Garbled  == [kind |-> "garbled", n |-> 0]
IsData(f) == f.kind \in {"text", "bytes"}

SessionInit ==
    /\ peer = <<>> /\ peerSent = <<>>
    /\ read = "reading" /\ incoming = <<>> /\ got = <<>>
    /\ clientState = CONNECTING /\ appState = CONNECTING
    /\ handler = "new"
    /\ outgoing = <<>> /\ sent = <<>>
    /\ write = "writing" /\ wire = <<>> /\ broken = FALSE

inbound  == <<peer, peerSent, read, incoming, got>>
outbound == <<outgoing, sent, write, wire, broken>>
states   == <<clientState, appState, handler>>

-----------------------------------------------------------------------------
(* The peer and the two tasks of the bridge.                               *)

EndsStream(f) == f.kind \in {"close", "error", "eof"}
Over(q) == \E i \in DOMAIN q : EndsStream(q[i])

PeerSends(f) ==
    /\ Len(peerSent) <= MaxIn /\ (IsData(f) => Len(peerSent) < MaxIn)
    /\ f = Ping => peer = <<>>
    /\ ~Over(peerSent)
    /\ peer' = Append(peer, f)
    /\ peerSent' = IF f = Ping THEN peerSent ELSE Append(peerSent, f)
    /\ UNCHANGED <<read, incoming, got, states, outbound>>

\* What a frame becomes: pings, pongs and the end of the stream no message,
\* a close frame and an error the same one; the last three end the task.
Bridge(msgs, ends) == [msgs |-> msgs, ends |-> ends]

\* Mutant: an error is skipped.
Bridged_SkipsErrors(f) ==
    CASE IsData(f)          -> Bridge(<<f>>, FALSE)
      [] f = Close          -> Bridge(<<Close>>, TRUE)
      [] f = Eof            -> Bridge(<<>>, TRUE)
      [] OTHER              -> Bridge(<<>>, FALSE)

Bridged(f) ==
    CASE IsData(f)             -> Bridge(<<f>>, FALSE)
      [] f \in {Close, Broken} -> Bridge(<<Close>>, TRUE)
      [] f = Eof               -> Bridge(<<>>, TRUE)
      [] OTHER                 -> Bridge(<<>>, FALSE)

ReadFrame ==
    /\ read = "reading" /\ peer # <<>>
    /\ incoming' = incoming \o Bridged(Head(peer)).msgs
    /\ peer' = Tail(peer)
    /\ read' = IF Bridged(Head(peer)).ends THEN "done" ELSE read
    /\ UNCHANGED <<peerSent, got, states, outbound>>

\* Mutant: the outbound task goes on after a close frame.
AfterWrite_GoesOn(f) == "writing"

AfterWrite(f) == IF f.kind = "close" THEN "closing" ELSE "writing"

\* write.send, which may fail at any time, whether or not the inbound task
\* has noticed anything.
WriteFrame ==
    /\ write = "writing" /\ outgoing # <<>>
    /\ outgoing' = Tail(outgoing)
    /\ \/ /\ wire' = Append(wire, Head(outgoing))
          /\ write' = AfterWrite(Head(outgoing)) /\ UNCHANGED broken
       \/ /\ write' = "closing" /\ broken' = TRUE
          /\ UNCHANGED wire
    /\ UNCHANGED <<sent, inbound, states>>

\* The channel is drained and its sender gone, or the loop was left:
\* write.close.
CloseSink ==
    /\ \/ write = "closing"
       \/ write = "writing" /\ outgoing = <<>> /\ handler = "done"
    /\ write' = "done"
    /\ UNCHANGED <<outgoing, sent, wire, broken, inbound, states>>

-----------------------------------------------------------------------------
(* The handler: it awaits each call before the next.                       *)

\* No handler has the path, or it cannot be called: the object is dropped.
StartHandler ==
    /\ handler = "new" /\ handler' \in {"running", "done"}
    /\ UNCHANGED <<clientState, appState, inbound, outbound>>

AcceptSocket ==
    /\ handler = "running"
    /\ clientState' = CONNECTED /\ appState' = CONNECTED
    /\ UNCHANGED <<handler, inbound, outbound>>

\* What a message is for a receive call: receive_bytes gives the bytes of a
\* text; receive, receive_text and receive_json decode bytes to a text, in
\* which what is not UTF-8 is replaced.  None and EOFError stand for the end.
Readings(m) ==
    CASE m.kind = "text"  -> {Text(m.n), Bytes(m.n)}
      [] m.kind = "bytes" -> {Bytes(m.n), Text(m.n), Garbled}
      [] OTHER            -> {Close}

\* receive, receive_text, receive_bytes and receive_json take one message off
\* the channel.
Receive ==
    /\ handler = "running"
    /\ \/ /\ incoming # <<>>
          /\ \E m \in Readings(Head(incoming)) : got' = Append(got, m)
          /\ incoming' = Tail(incoming)
       \/ /\ incoming = <<>> /\ read = "done"
          /\ Len(got) <= MaxIn + 1
          /\ got' = Append(got, Close) /\ UNCHANGED incoming
    /\ UNCHANGED <<peer, peerSent, read, states, outbound>>

\* send, send_text, send_bytes and send_json: an error once the outbound task
\* has left its loop.
Send(f) ==
    /\ handler = "running" /\ Len(sent) < MaxOut
    /\ write = "writing"
    /\ outgoing' = Append(outgoing, f) /\ sent' = Append(sent, f)
    /\ UNCHANGED <<write, wire, broken, inbound, states>>

CloseSocket ==
    /\ handler = "running" /\ Len(sent) < MaxOut
    /\ clientState' = DISCONNECTED /\ appState' = DISCONNECTED
    /\ IF write = "writing"
       THEN outgoing' = Append(outgoing, Close) /\ sent' = Append(sent, Close)
       ELSE UNCHANGED <<outgoing, sent>>
    /\ UNCHANGED <<handler, write, wire, broken, inbound>>

\* The handler returns or raises; the WebSocket object and its channel ends go.
EndHandler ==
    /\ handler = "running" /\ handler' = "done"
    /\ UNCHANGED <<clientState, appState, inbound, outbound>>

-----------------------------------------------------------------------------

SessionNext ==
    \/ \E f \in {Text(Len(peerSent)), Bytes(Len(peerSent)), Ping, Close, Broken, Eof} : PeerSends(f)
    \/ ReadFrame \/ WriteFrame \/ CloseSink
    \/ StartHandler \/ AcceptSocket \/ Receive \/ EndHandler
    \/ \E f \in {Text(Len(sent)), Bytes(Len(sent))} : Send(f)
    \/ CloseSocket

\* The two tasks are polled; a handler is called, and awaits until it gets
\* what it awaits.
Fairness ==
    /\ WF_wsVars(ReadFrame) /\ WF_wsVars(WriteFrame) /\ WF_wsVars(CloseSink)
    /\ WF_wsVars(StartHandler) /\ WF_wsVars(Receive)

SessionSpec == SessionInit /\ [][SessionNext]_wsVars /\ Fairness

-----------------------------------------------------------------------------
(* Properties.                                                             *)

\* The handler sees the peer's data frames, all of them and in order (of bytes
\* that are not UTF-8 possibly no more than a garbled text, of a text always
\* what was sent), and then the end of the connection at every further receive;
\* nothing follows the first close on the wire, and what is on the wire is what
\* send calls were told was accepted, in their order.
StreamsInOrder ==
    /\ \A i \in DOMAIN got : got[i] # Close =>
          /\ i \in DOMAIN peerSent /\ IsData(peerSent[i])
          /\ IF got[i] = Garbled THEN peerSent[i].kind = "bytes" ELSE got[i].n = peerSent[i].n
    /\ \A i \in DOMAIN got : got[i] = Close =>
          /\ \A j \in DOMAIN peerSent : IsData(peerSent[j]) => j < i
          /\ \A j \in i..Len(got) : got[j] = Close
    /\ Len(wire) <= Len(sent) /\ wire = SubSeq(sent, 1, Len(wire))
    /\ \A i \in DOMAIN wire : wire[i] = Close => i = Len(wire)

Closed(q) == \E i \in DOMAIN q : q[i] = Close

\* A peer that leaves is noticed by a handler that keeps receiving, and a
\* handler that ends gets its socket closed, after the messages it had sent,
\* unless a close of its own came first or a write failed.
EndsReachTheOtherSide ==
    /\ Over(peerSent) ~> (handler = "done" \/ Closed(got))
    /\ (handler = "done") ~>
          /\ write = "done"
          /\ wire = sent \/ Closed(wire) \/ broken
=============================================================================
