----------------------- MODULE WebSocketSessionProofs -----------------------
(***************************************************************************)
(* A proof that both directions of a WebSocket keep their order, for any   *)
(* number of frames and messages.                                          *)
(*                                                                         *)
(* The property speaks of the two ends of each direction; the invariant of *)
(* all that lies between them.  Inbound, the frames the handler has got,   *)
(* those in its channel and those still in the socket make up what the     *)
(* peer sent, until the frame that ends the stream has been read; from     *)
(* then on every further place holds a close.  Outbound, the wire and the  *)
(* channel make up what was accepted, until the loop is left.              *)
(***************************************************************************)
EXTENDS WebSocketSession, TLAPS

Kinds  == {"text", "bytes", "ping", "close", "error", "eof"}
Frames == {f \in [kind : Kinds, n : Nat] : IsData(f) \/ f.n = 0}
Read   == Frames \cup {Garbled}

InboundType ==
    /\ peer \in Seq(Frames) /\ peerSent \in Seq(Frames)
    /\ incoming \in Seq(Frames) /\ got \in Seq(Read)
    /\ read \in {"reading", "done"}

OutboundType ==
    /\ outgoing \in Seq(Frames) /\ sent \in Seq(Frames) /\ wire \in Seq(Frames)
    /\ write \in {"writing", "closing", "done"}

\* The peer's frames are data, up to one that ends the stream.
EndComesLast ==
    /\ \A i \in 1..Len(peerSent) : i < Len(peerSent) => IsData(peerSent[i])
    /\ \A i \in 1..Len(peerSent) : IsData(peerSent[i]) \/ EndsStream(peerSent[i])

\* The i-th message for the handler of the frames q.
Message(q, i) == IF i \in 1..Len(q) /\ IsData(q[i]) THEN q[i] ELSE Close

\* A ping waits at the head of the socket.
Pings == IF peer # <<>> /\ peer[1] = Ping THEN 1 ELSE 0

Arrived == Len(got) + Len(incoming)

MessagesMatch ==
    /\ \A i \in 1..Len(got) : got[i] \in Readings(Message(peerSent, i))
    /\ \A i \in 1..Len(incoming) : incoming[i] = Message(peerSent, Len(got) + i)

Reading ==
    /\ Arrived + Len(peer) - Pings = Len(peerSent)
    /\ \A i \in 1..Arrived : IsData(peerSent[i])
    /\ \A i \in 1..Len(peer) : i > Pings => peer[i] = peerSent[Arrived + i - Pings]

ReadToTheEnd ==
    /\ peer = <<>>
    /\ Len(peerSent) > 0 /\ EndsStream(peerSent[Len(peerSent)])
    /\ Arrived >= Len(peerSent) - 1

InboundInv ==
    /\ EndComesLast
    /\ MessagesMatch
    /\ read = "reading" => Reading
    /\ read = "done" => ReadToTheEnd

OutboundInv ==
    /\ Len(wire) <= Len(sent)
    /\ \A i \in 1..Len(wire) : wire[i] = sent[i]
    /\ \A i \in 1..Len(wire) : wire[i] = Close => i = Len(wire)
    /\ write = "writing" =>
          /\ Len(wire) + Len(outgoing) = Len(sent)
          /\ \A i \in 1..Len(outgoing) : outgoing[i] = sent[Len(wire) + i]
          /\ \A i \in 1..Len(wire) : wire[i] # Close

SessionInv == InboundType /\ InboundInv /\ OutboundType /\ OutboundInv

-----------------------------------------------------------------------------
(* Channels *)

\* Sending on a channel adds one element behind all others.
LEMMA Sending ==
    ASSUME NEW S, NEW q \in Seq(S), NEW e \in S
    PROVE  /\ Append(q, e) \in Seq(S)
           /\ Len(Append(q, e)) = Len(q) + 1
           /\ \A i \in 1..Len(q) : Append(q, e)[i] = q[i]
           /\ Append(q, e)[Len(q) + 1] = e
  OBVIOUS

\* Receiving from a channel takes the first element.
LEMMA Receiving ==
    ASSUME NEW S, NEW q \in Seq(S), q # <<>>
    PROVE  /\ Head(q) \in S /\ Head(q) = q[1]
           /\ Tail(q) \in Seq(S)
           /\ Len(q) \in Nat \ {0}
           /\ Len(Tail(q)) = Len(q) - 1
           /\ \A i \in 1..(Len(q) - 1) : Tail(q)[i] = q[i + 1]
  OBVIOUS

\* The bridge passes a data frame on, and at most one close.
LEMMA BridgeShape ==
    ASSUME NEW f \in Frames, NEW q \in Seq(Frames)
    PROVE  \/ IsData(f) /\ ~Bridged(f).ends /\ q \o Bridged(f).msgs = Append(q, f)
           \/ f = Ping /\ ~Bridged(f).ends /\ q \o Bridged(f).msgs = q
           \/ EndsStream(f) /\ Bridged(f).ends /\ q \o Bridged(f).msgs = Append(q, Close)
           \/ EndsStream(f) /\ Bridged(f).ends /\ q \o Bridged(f).msgs = q
<1>1. f \in [kind : Kinds, n : Nat] /\ (IsData(f) \/ f.n = 0)
  BY DEF Frames
<1>2. f = [kind |-> f.kind, n |-> f.n]
  BY <1>1
<1>3. /\ \A msgs, ends : Bridge(msgs, ends).msgs = msgs /\ Bridge(msgs, ends).ends = ends
      /\ q \o <<>> = q
  BY DEF Bridge
<1>4. q \o <<f>> = Append(q, f) /\ q \o <<Close>> = Append(q, Close)
  <2>1. Close \in Frames
    BY DEF Close, Frames, Kinds, IsData
  <2> QED BY <2>1
<1>5. CASE IsData(f)
  <2>1. f \notin {Close, Broken, Eof}
    BY <1>5 DEF Close, Broken, Eof, IsData
  <2>2. Bridged(f) = Bridge(<<f>>, FALSE)
    BY <1>5, <2>1 DEF Bridged
  <2> QED BY <1>3, <1>4, <1>5, <2>2
<1>6. CASE f.kind \in {"close", "error"}
  <2>1. f \in {Close, Broken} /\ f # Eof /\ ~IsData(f) /\ EndsStream(f)
    BY <1>1, <1>2, <1>6 DEF Close, Broken, Eof, IsData, EndsStream
  <2>2. Bridged(f) = Bridge(<<Close>>, TRUE)
    BY <2>1 DEF Bridged
  <2> QED BY <1>3, <1>4, <2>1, <2>2
<1>7. CASE f.kind = "eof"
  <2>1. f = Eof /\ f \notin {Close, Broken} /\ ~IsData(f) /\ EndsStream(f)
    BY <1>1, <1>2, <1>7 DEF Close, Broken, Eof, IsData, EndsStream
  <2> QED BY <1>3, <2>1 DEF Bridged
<1>8. CASE f.kind = "ping"
  <2>1. f = Ping /\ f \notin {Close, Broken, Eof} /\ ~IsData(f)
    BY <1>1, <1>2, <1>8 DEF Ping, Close, Broken, Eof, IsData
  <2> QED BY <1>3, <2>1 DEF Bridged
<1> QED BY <1>1, <1>5, <1>6, <1>7, <1>8 DEF Kinds, IsData

\* No frame both carries data and ends the stream, and a ping does neither.
LEMMA FrameKinds ==
    /\ Close \in Frames /\ Ping \in Frames /\ Broken \in Frames /\ Eof \in Frames
    /\ \A n \in Nat : Text(n) \in Frames /\ Bytes(n) \in Frames
    /\ \A n : IsData(Text(n)) /\ IsData(Bytes(n))
    /\ ~IsData(Close) /\ ~IsData(Ping) /\ ~IsData(Broken) /\ ~IsData(Eof)
    /\ ~EndsStream(Ping) /\ EndsStream(Close) /\ EndsStream(Broken) /\ EndsStream(Eof)
    /\ \A f : IsData(f) => ~EndsStream(f) /\ f # Ping /\ f # Close
  BY DEF Frames, Kinds, Close, Ping, Broken, Eof, Text, Bytes, IsData, EndsStream

\* A receive gives data for data, with the payload unless bytes were garbled,
\* and the end for anything else.
LEMMA ReadingsAreFaithful ==
    ASSUME NEW f \in Frames
    PROVE  /\ Readings(f) \subseteq Read
           /\ ~IsData(f) => Readings(f) = {Close}
           /\ IsData(f) => \A m \in Readings(f) :
                 m # Close /\ IF m = Garbled THEN f.kind = "bytes" ELSE m.n = f.n
<1>1. f.kind \in Kinds /\ f.n \in Nat
  BY DEF Frames
<1>2. /\ Text(f.n) \in Read /\ Bytes(f.n) \in Read /\ Close \in Read /\ Garbled \in Read
      /\ Text(f.n).n = f.n /\ Bytes(f.n).n = f.n
      /\ Close \notin {Text(f.n), Bytes(f.n), Garbled} /\ Garbled \notin {Text(f.n), Bytes(f.n)}
  BY <1>1 DEF Read, Frames, Kinds, Text, Bytes, Close, Garbled, IsData
<1>3. CASE f.kind = "text"
  <2>1. Readings(f) = {Text(f.n), Bytes(f.n)} /\ IsData(f)
    BY <1>3 DEF Readings, IsData
  <2> QED BY <1>2, <2>1
<1>4. CASE f.kind = "bytes"
  <2>1. Readings(f) = {Bytes(f.n), Text(f.n), Garbled} /\ IsData(f)
    BY <1>4 DEF Readings, IsData
  <2> QED BY <1>2, <1>4, <2>1
<1>5. CASE f.kind \notin {"text", "bytes"}
  <2>1. Readings(f) = {Close} /\ ~IsData(f)
    BY <1>5 DEF Readings, IsData
  <2> QED BY <1>2, <2>1
<1> QED BY <1>3, <1>4, <1>5

-----------------------------------------------------------------------------
(* The inbound direction *)

\* A frame from the peer goes to the end of the socket's buffer; none comes
\* after one that ended the stream.
LEMMA PeerSendsKeeps ==
    ASSUME InboundType, InboundInv, NEW f \in Frames, IsData(f) \/ f = Ping \/ EndsStream(f), PeerSends(f)
    PROVE  InboundType' /\ InboundInv'
<1>1. /\ peer' = Append(peer, f) /\ (f = Ping => peer = <<>>) /\ ~Over(peerSent)
      /\ peerSent' = IF f = Ping THEN peerSent ELSE Append(peerSent, f)
      /\ UNCHANGED <<read, incoming, got>>
  BY DEF PeerSends
<1>2. /\ peer' \in Seq(Frames) /\ Len(peer') = Len(peer) + 1 /\ peer'[Len(peer) + 1] = f
      /\ \A i \in 1..Len(peer) : peer'[i] = peer[i]
      /\ {Len(peer), Len(peerSent), Len(got), Len(incoming), Arrived} \subseteq Nat
      /\ peer' # <<>>
  BY <1>1, Sending DEF InboundType, Arrived
<1>3. \A i \in 1..Len(peerSent) : IsData(peerSent[i])
  BY <1>1 DEF Over, InboundInv, EndComesLast, InboundType
<1>4. read = "reading" /\ read' = "reading" /\ Reading
  BY <1>1, <1>2, <1>3, FrameKinds DEF InboundType, InboundInv, ReadToTheEnd
<1>5. CASE f = Ping
  <2>1. peer = <<>> /\ Len(peer) = 0 /\ Pings = 0 /\ peer'[1] = Ping /\ Pings' = 1
    BY <1>1, <1>2, <1>5 DEF Pings
  <2>2. Reading'
    BY <1>1, <1>2, <1>4, <1>5, <2>1 DEF Reading, Arrived
  <2>3. EndComesLast' /\ MessagesMatch'
    BY <1>1, <1>5 DEF InboundInv, EndComesLast, MessagesMatch, Message
  <2> QED BY <1>1, <1>2, <1>4, <1>5, <2>2, <2>3 DEF InboundInv, InboundType
<1>6. CASE f # Ping
  <2>1. /\ peerSent' \in Seq(Frames) /\ Len(peerSent') = Len(peerSent) + 1
        /\ peerSent'[Len(peerSent) + 1] = f
        /\ \A i \in 1..Len(peerSent) : peerSent'[i] = peerSent[i]
    BY <1>1, <1>6, Sending DEF InboundType
  <2>2. EndComesLast'
    BY <1>2, <1>3, <1>6, <2>1 DEF EndComesLast
  <2>3. Pings \in {0, 1} /\ Pings' = Pings /\ Pings <= Len(peer) /\ Arrived <= Len(peerSent)
    <3>1. CASE Len(peer) = 0
      BY <1>1, <1>2, <1>4, <1>6, <3>1 DEF Pings, InboundType, Reading
    <3>2. CASE Len(peer) # 0
      BY <1>1, <1>2, <1>4, <3>2 DEF Pings, InboundType, Reading
    <3> QED BY <3>1, <3>2
  <2>4. Reading'
    <3>1. Arrived' = Arrived
      BY <1>1 DEF Arrived
    <3>2. \A i \in 1..Arrived' : IsData(peerSent'[i])
      BY <1>2, <1>4, <2>1, <2>3, <3>1 DEF Reading
    <3>3. Arrived' + Len(peer') - Pings' = Len(peerSent')
      BY <1>2, <1>4, <2>1, <2>3, <3>1 DEF Reading
    <3>4. ASSUME NEW i \in 1..Len(peer'), i > Pings'
          PROVE  peer'[i] = peerSent'[Arrived' + i - Pings']
      <4>1. CASE i = Len(peer) + 1
        BY <1>2, <1>4, <2>1, <2>3, <3>1, <4>1 DEF Reading
      <4>2. CASE i # Len(peer) + 1
        <5>1. i \in 1..Len(peer) /\ i > Pings
          BY <1>2, <2>3, <3>4, <4>2
        <5>2. Arrived + i - Pings \in 1..Len(peerSent)
          BY <1>2, <1>4, <2>3, <5>1 DEF Reading
        <5> QED BY <1>2, <1>4, <2>1, <2>3, <3>1, <5>1, <5>2 DEF Reading
      <4> QED BY <4>1, <4>2
    <3> QED BY <3>2, <3>3, <3>4 DEF Reading
  <2>5. MessagesMatch'
    <3>1. \A i \in 1..Arrived : Message(peerSent', i) = Message(peerSent, i)
      BY <1>2, <1>4, <2>1, <2>3 DEF Message, Reading
    <3>2. \A i \in 1..Len(got) : i \in 1..Arrived
      BY <1>2 DEF Arrived
    <3>3. \A i \in 1..Len(incoming) : Len(got) + i \in 1..Arrived
      BY <1>2 DEF Arrived
    <3> QED BY <1>1, <3>1, <3>2, <3>3 DEF MessagesMatch, InboundInv
  <2> QED BY <1>1, <1>2, <1>4, <2>1, <2>2, <2>4, <2>5 DEF InboundInv, InboundType
<1> QED BY <1>5, <1>6

\* The inbound task moves the first frame to the channel, passes over a ping,
\* or ends.
LEMMA ReadFrameKeeps ==
    ASSUME InboundType, InboundInv, ReadFrame
    PROVE  InboundType' /\ InboundInv'
<1> DEFINE f == Head(peer)
           n == Len(peerSent)
<1>1. /\ read = "reading" /\ peer # <<>> /\ peer' = Tail(peer)
      /\ incoming' = incoming \o Bridged(f).msgs
      /\ read' = IF Bridged(f).ends THEN "done" ELSE read
      /\ UNCHANGED <<peerSent, got>> /\ Reading
  BY DEF ReadFrame, InboundInv
<1>0. \A j \in 1..Len(peer) : j > Pings => peer[j] = peerSent[Arrived + j - Pings]
  BY <1>1 DEF Reading
<1>2. /\ f \in Frames /\ f = peer[1] /\ peer' \in Seq(Frames)
      /\ Len(peer') = Len(peer) - 1 /\ Len(peer) \in Nat \ {0}
      /\ \A i \in 1..(Len(peer) - 1) : peer'[i] = peer[i + 1]
  BY <1>1, Receiving DEF InboundType
<1>3. {n, Len(got), Len(incoming), Arrived} \subseteq Nat
  BY DEF InboundType, Arrived
<1>4. Pings = IF f = Ping THEN 1 ELSE 0
  BY <1>1, <1>2 DEF Pings
<1>5. \A i \in 1..n : peerSent[i] # Ping
  BY FrameKinds DEF InboundInv, EndComesLast
<1>6. Pings' = 0
  <2>1. CASE Len(peer) = 1
    BY <1>2, <2>1 DEF Pings
  <2>2. CASE Len(peer) > 1
    <3>1. peer'[1] = peer[2] /\ peer[2] = peerSent[Arrived + 2 - Pings]
      BY <1>1, <1>2, <1>4, <2>2 DEF Reading
    <3>2. Arrived + 2 - Pings \in 1..n
      BY <1>1, <1>2, <1>3, <1>4, <2>2 DEF Reading
    <3> QED BY <1>5, <3>1, <3>2 DEF Pings
  <2> QED BY <1>2, <2>1, <2>2
<1>7. EndComesLast'
  BY <1>1 DEF EndComesLast, InboundInv
<1>9. CASE f = Ping /\ ~Bridged(f).ends /\ incoming' = incoming
  <2>1. Arrived' = Arrived /\ read' = "reading" /\ Pings = 1
    BY <1>1, <1>4, <1>9 DEF Arrived
  <2>2. \A i \in 1..Len(peer') : peer'[i] = peerSent'[Arrived' + i]
    <3> SUFFICES ASSUME NEW i \in 1..Len(peer') PROVE peer'[i] = peerSent[Arrived + i]
      BY <1>1, <2>1
    <3>1. i \in Nat /\ i + 1 \in 1..Len(peer) /\ i + 1 > Pings /\ peer'[i] = peer[i + 1]
      BY <1>2, <2>1
    <3>2. peer[i + 1] = peerSent[Arrived + (i + 1) - Pings]
      BY <1>0, <3>1
    <3>3. Arrived + (i + 1) - Pings = Arrived + i
      BY <1>3, <2>1, <3>1
    <3> QED BY <3>1, <3>2, <3>3
  <2>3. Reading'
    BY <1>1, <1>2, <1>3, <1>6, <2>1, <2>2 DEF Reading
  <2>4. MessagesMatch'
    BY <1>1, <1>9 DEF MessagesMatch, InboundInv
  <2> QED BY <1>1, <1>2, <1>7, <1>9, <2>1, <2>3, <2>4 DEF InboundInv, InboundType
<1>10. ASSUME f # Ping
       PROVE  f = peerSent[Arrived + 1] /\ Arrived + 1 \in 1..n /\ Pings = 0
  BY <1>1, <1>2, <1>3, <1>4, <1>10 DEF Reading
<1>11. ASSUME NEW e \in Frames, incoming' = Append(incoming, e), e = Message(peerSent, Arrived + 1)
       PROVE  Arrived' = Arrived + 1 /\ MessagesMatch' /\ incoming' \in Seq(Frames)
  <2>1. /\ incoming' \in Seq(Frames) /\ Len(incoming') = Len(incoming) + 1
        /\ \A i \in 1..Len(incoming) : incoming'[i] = incoming[i]
        /\ incoming'[Len(incoming) + 1] = e
    BY <1>11, Sending DEF InboundType
  <2>2. Arrived' = Arrived + 1 /\ Len(got) + (Len(incoming) + 1) = Arrived + 1
    BY <1>1, <1>3, <2>1 DEF Arrived
  <2>3. incoming'[Len(incoming) + 1] = Message(peerSent, Len(got) + (Len(incoming) + 1))
    BY <1>11, <2>1, <2>2
  <2>4. \A i \in 1..Len(incoming) : incoming'[i] = Message(peerSent, Len(got) + i)
    BY <2>1 DEF MessagesMatch, InboundInv
  <2>5. \A i \in 1..Len(incoming') : i \in 1..Len(incoming) \/ i = Len(incoming) + 1
    BY <1>3, <2>1
  <2> QED BY <1>1, <2>1, <2>2, <2>3, <2>4, <2>5 DEF MessagesMatch, InboundInv
<1>12. CASE IsData(f) /\ ~Bridged(f).ends /\ incoming' = Append(incoming, f)
  <2>1. f # Ping /\ read' = "reading"
    BY <1>1, <1>12, FrameKinds
  <2>2. f = Message(peerSent, Arrived + 1)
    BY <1>10, <1>12, <2>1 DEF Message
  <2>3. Arrived' = Arrived + 1 /\ MessagesMatch' /\ incoming' \in Seq(Frames)
    BY <1>2, <1>11, <1>12, <2>2
  <2>4. \A i \in 1..Len(peer') : peer'[i] = peerSent'[Arrived' + i]
    <3> SUFFICES ASSUME NEW i \in 1..Len(peer') PROVE peer'[i] = peerSent[Arrived + 1 + i]
      BY <1>1, <2>3
    <3>1. i \in Nat /\ i + 1 \in 1..Len(peer) /\ i + 1 > Pings /\ peer'[i] = peer[i + 1]
      BY <1>2, <1>10, <2>1
    <3>2. peer[i + 1] = peerSent[Arrived + (i + 1) - Pings]
      BY <1>0, <3>1
    <3>3. Arrived + (i + 1) - Pings = Arrived + 1 + i
      BY <1>3, <1>10, <2>1, <3>1
    <3> QED BY <3>1, <3>2, <3>3
  <2>5. Reading'
    <3>1. \A i \in 1..Arrived' : IsData(peerSent'[i])
      BY <1>1, <1>3, <1>10, <1>12, <2>1, <2>3 DEF Reading
    <3>2. Arrived' + Len(peer') = Len(peerSent')
      BY <1>1, <1>2, <1>3, <1>10, <2>1, <2>3 DEF Reading
    <3>3. \A i \in 1..Len(peer') : Arrived' + i - Pings' = Arrived' + i /\ Len(peer') \in Nat
      BY <1>2, <1>3, <1>6, <2>3
    <3>4. Arrived' + Len(peer') - Pings' = Len(peerSent')
      BY <1>2, <1>3, <1>6, <2>3, <3>2
    <3> QED BY <2>4, <3>1, <3>3, <3>4 DEF Reading
  <2> QED BY <1>1, <1>2, <1>7, <2>1, <2>3, <2>5 DEF InboundInv, InboundType
<1>13. CASE EndsStream(f) /\ Bridged(f).ends /\ incoming' \in {Append(incoming, Close), incoming}
  <2>1. f # Ping /\ read' = "done" /\ ~IsData(f)
    BY <1>1, <1>13, FrameKinds
  <2>2. Arrived + 1 = n /\ Message(peerSent, n) = Close /\ EndsStream(peerSent[n])
    BY <1>3, <1>10, <1>13, <2>1 DEF Message, InboundInv, EndComesLast
  <2>3. Len(peer') = 0
    BY <1>1, <1>2, <1>3, <1>10, <2>1, <2>2 DEF Reading
  <2>4. peer' = <<>>
    BY <1>2, <2>3
  <2>5. Arrived' >= n - 1 /\ MessagesMatch' /\ incoming' \in Seq(Frames)
    <3>1. CASE incoming' = incoming
      <4>1. Arrived' = Arrived
        BY <1>1, <3>1 DEF Arrived
      <4>2. MessagesMatch'
        BY <1>1, <3>1 DEF MessagesMatch, InboundInv
      <4> QED BY <1>3, <2>2, <3>1, <4>1, <4>2 DEF InboundType
    <3>2. CASE incoming' = Append(incoming, Close)
      BY <1>3, <1>11, <2>2, <3>2, FrameKinds
    <3> QED BY <1>13, <3>1, <3>2
  <2>6. ReadToTheEnd'
    BY <1>1, <1>3, <2>2, <2>4, <2>5 DEF ReadToTheEnd
  <2> QED BY <1>1, <1>2, <1>7, <2>1, <2>5, <2>6 DEF InboundInv, InboundType
<1> QED
  <2>1. incoming \in Seq(Frames)
    BY DEF InboundType
  <2> QED BY <1>1, <1>2, <1>9, <1>12, <1>13, <2>1, BridgeShape

\* receive() takes the next message, or reports the end when none can come.
LEMMA ReceiveKeeps ==
    ASSUME InboundType, InboundInv, Receive
    PROVE  InboundType' /\ InboundInv'
<1>1. UNCHANGED <<peer, peerSent, read>> /\ Pings' = Pings
  BY DEF Receive, Pings
<1>2. EndComesLast'
  BY <1>1 DEF EndComesLast, InboundInv
<1>3. {Len(peerSent), Len(got), Len(incoming), Arrived} \subseteq Nat
  BY DEF InboundType, Arrived
<1>4. ASSUME incoming # <<>>, NEW m \in Readings(Head(incoming)), got' = Append(got, m), incoming' = Tail(incoming)
      PROVE  InboundType' /\ InboundInv'
  <2>1. /\ Head(incoming) \in Frames /\ Head(incoming) = incoming[1]
        /\ incoming' \in Seq(Frames) /\ Len(incoming') = Len(incoming) - 1 /\ Len(incoming) > 0
        /\ \A i \in 1..(Len(incoming) - 1) : incoming'[i] = incoming[i + 1]
    BY <1>4, Receiving DEF InboundType
  <2>2. /\ got' \in Seq(Read) /\ Len(got') = Len(got) + 1
        /\ \A i \in 1..Len(got) : got'[i] = got[i]
        /\ got'[Len(got) + 1] = m
    <3>1. m \in Read
      BY <1>4, <2>1, ReadingsAreFaithful
    <3> QED BY <1>4, <3>1, Sending DEF InboundType
  <2>3. Arrived' = Arrived
    BY <1>3, <2>1, <2>2 DEF Arrived
  <2>4. \A i \in 1..Len(got') : got'[i] \in Readings(Message(peerSent, i))
    <3>1. incoming[1] = Message(peerSent, Len(got) + 1)
      BY <1>3, <2>1 DEF MessagesMatch, InboundInv
    <3>2. \A i \in 1..Len(got') : i \in 1..Len(got) \/ i = Len(got) + 1
      BY <1>3, <2>2
    <3> QED BY <1>4, <2>1, <2>2, <3>1, <3>2 DEF MessagesMatch, InboundInv
  <2>5. ASSUME NEW i \in 1..Len(incoming') PROVE incoming'[i] = Message(peerSent, Len(got') + i)
    <3>1. i + 1 \in 1..Len(incoming) /\ incoming'[i] = incoming[i + 1]
      BY <1>3, <2>1
    <3>2. incoming[i + 1] = Message(peerSent, Len(got) + (i + 1))
      BY <3>1 DEF MessagesMatch, InboundInv
    <3>3. Len(got) + (i + 1) = Len(got') + i
      BY <1>3, <2>1, <2>2
    <3> QED BY <3>1, <3>2, <3>3
  <2>6. (Reading => Reading') /\ (ReadToTheEnd => ReadToTheEnd')
    BY <1>1, <2>3 DEF Reading, ReadToTheEnd
  <2> QED BY <1>1, <1>2, <2>1, <2>2, <2>4, <2>5, <2>6 DEF InboundInv, InboundType, MessagesMatch
<1>5. CASE incoming = <<>> /\ read = "done" /\ got' = Append(got, Close) /\ UNCHANGED incoming
  <2>1. /\ got' \in Seq(Read) /\ Len(got') = Len(got) + 1
        /\ \A i \in 1..Len(got) : got'[i] = got[i]
        /\ got'[Len(got) + 1] = Close
    <3>1. Close \in Read
      BY FrameKinds DEF Read
    <3> QED BY <1>5, <3>1, Sending DEF InboundType
  <2>2. ReadToTheEnd /\ Arrived = Len(got) /\ Arrived' = Arrived + 1
    BY <1>3, <1>5, <2>1 DEF InboundInv, Arrived
  <2>3. Message(peerSent, Len(got) + 1) = Close
    BY <1>3, <2>2, FrameKinds DEF Message, ReadToTheEnd
  <2>4. MessagesMatch'
    <3>1. \A i \in 1..Len(got') : i \in 1..Len(got) \/ i = Len(got) + 1
      BY <1>3, <2>1
    <3>0. Close \in Readings(Message(peerSent, Len(got) + 1))
      BY <2>3, FrameKinds, ReadingsAreFaithful
    <3>2. \A i \in 1..Len(got') : got'[i] \in Readings(Message(peerSent, i))
      BY <2>1, <3>0, <3>1 DEF MessagesMatch, InboundInv
    <3>3. Len(incoming') = 0
      BY <1>5
    <3> QED BY <1>1, <3>2, <3>3 DEF MessagesMatch
  <2>5. ReadToTheEnd' /\ read' = "done"
    BY <1>1, <1>3, <1>5, <2>2 DEF ReadToTheEnd
  <2> QED BY <1>1, <1>2, <1>5, <2>1, <2>4, <2>5 DEF InboundInv, InboundType
<1> QED BY <1>4, <1>5 DEF Receive

-----------------------------------------------------------------------------
(* The outbound direction *)

\* A send or a close that is accepted goes to the end of the channel.
LEMMA SendingKeeps ==
    ASSUME OutboundType, OutboundInv, write = "writing", NEW f \in Frames,
           outgoing' = Append(outgoing, f), sent' = Append(sent, f), UNCHANGED <<write, wire>>
    PROVE  OutboundType' /\ OutboundInv'
<1>1. /\ outgoing' \in Seq(Frames) /\ Len(outgoing') = Len(outgoing) + 1
      /\ \A i \in 1..Len(outgoing) : outgoing'[i] = outgoing[i]
      /\ outgoing'[Len(outgoing) + 1] = f
  BY Sending DEF OutboundType
<1>2. /\ sent' \in Seq(Frames) /\ Len(sent') = Len(sent) + 1
      /\ \A i \in 1..Len(sent) : sent'[i] = sent[i]
      /\ sent'[Len(sent) + 1] = f
  BY Sending DEF OutboundType
<1>3. {Len(wire), Len(outgoing), Len(sent)} \subseteq Nat
  BY DEF OutboundType
<1>4. Len(wire) + Len(outgoing) = Len(sent)
  BY DEF OutboundInv
<1>5. Len(wire) + (Len(outgoing) + 1) = Len(sent) + 1
  BY <1>3, <1>4
<1>6. ASSUME NEW i \in 1..Len(outgoing') PROVE outgoing'[i] = sent'[Len(wire) + i]
  <2>1. CASE i = Len(outgoing) + 1
    BY <1>1, <1>2, <1>5, <2>1
  <2>2. CASE i \in 1..Len(outgoing)
    <3>1. Len(wire) + i \in 1..Len(sent)
      BY <1>3, <1>4, <2>2
    <3> QED BY <1>1, <1>2, <2>2, <3>1 DEF OutboundInv
  <2>3. i = Len(outgoing) + 1 \/ i \in 1..Len(outgoing)
    BY <1>1, <1>3
  <2> QED BY <2>1, <2>2, <2>3
<1>7. \A i \in 1..Len(wire) : i \in 1..Len(sent) /\ wire[i] = sent'[i]
  BY <1>2, <1>3, <1>4 DEF OutboundInv
<1>8. Len(wire) <= Len(sent') /\ Len(wire) + Len(outgoing') = Len(sent')
  BY <1>1, <1>2, <1>3, <1>4, <1>5
<1> QED BY <1>1, <1>2, <1>6, <1>7, <1>8 DEF OutboundInv, OutboundType

\* The outbound task writes the first message, and leaves its loop after a
\* close or when the socket fails.
LEMMA WriteFrameKeeps ==
    ASSUME OutboundType, OutboundInv, WriteFrame
    PROVE  OutboundType' /\ OutboundInv'
<1>1. /\ write = "writing" /\ outgoing # <<>> /\ outgoing' = Tail(outgoing) /\ sent' = sent
  BY DEF WriteFrame
<1>2. /\ Head(outgoing) \in Frames /\ Head(outgoing) = outgoing[1]
      /\ outgoing' \in Seq(Frames) /\ Len(outgoing') = Len(outgoing) - 1 /\ Len(outgoing) > 0
      /\ \A i \in 1..(Len(outgoing) - 1) : outgoing'[i] = outgoing[i + 1]
  BY <1>1, Receiving DEF OutboundType
<1>3. {Len(wire), Len(outgoing), Len(sent)} \subseteq Nat
  BY DEF OutboundType
<1>4. /\ Len(wire) + Len(outgoing) = Len(sent)
      /\ \A i \in 1..Len(outgoing) : outgoing[i] = sent[Len(wire) + i]
      /\ \A i \in 1..Len(wire) : wire[i] # Close /\ wire[i] = sent[i]
  BY <1>1 DEF OutboundInv
<1>5. CASE wire' = Append(wire, Head(outgoing)) /\ write' = AfterWrite(Head(outgoing))
  <2>1. /\ wire' \in Seq(Frames) /\ Len(wire') = Len(wire) + 1
        /\ \A i \in 1..Len(wire) : wire'[i] = wire[i]
        /\ wire'[Len(wire) + 1] = outgoing[1]
    BY <1>2, <1>5, Sending DEF OutboundType
  <2>2. \A i \in 1..Len(wire') : i \in 1..Len(wire) \/ i = Len(wire) + 1
    BY <1>3, <2>1
  <2>3. outgoing[1] = sent[Len(wire) + 1]
    BY <1>2, <1>3, <1>4
  <2>4. \A i \in 1..Len(wire') : wire'[i] = sent'[i]
    BY <1>1, <1>4, <2>1, <2>2, <2>3
  <2>5. \A i \in 1..Len(wire') : wire'[i] = Close => i = Len(wire')
    BY <1>4, <2>1, <2>2
  <2>6. write' = "writing" => outgoing[1] # Close
    BY <1>2, <1>5 DEF AfterWrite, Close
  <2>7. write' = "writing" => \A i \in 1..Len(wire') : wire'[i] # Close
    BY <1>4, <2>1, <2>2, <2>6
  <2>8. ASSUME NEW i \in 1..Len(outgoing') PROVE outgoing'[i] = sent'[Len(wire') + i]
    <3>1. i + 1 \in 1..Len(outgoing) /\ outgoing'[i] = outgoing[i + 1]
      BY <1>2, <1>3
    <3>2. Len(wire) + (i + 1) = Len(wire') + i
      BY <1>2, <1>3, <2>1
    <3> QED BY <1>1, <1>4, <3>1, <3>2
  <2>9. Len(wire') + Len(outgoing') = Len(sent') /\ Len(wire') <= Len(sent')
    BY <1>1, <1>2, <1>3, <1>4, <2>1
  <2>10. write' \in {"writing", "closing", "done"}
    BY <1>5 DEF AfterWrite
  <2> QED BY <1>1, <1>2, <2>1, <2>4, <2>5, <2>7, <2>8, <2>9, <2>10 DEF OutboundInv, OutboundType
<1>6. CASE write' = "closing" /\ UNCHANGED wire
  BY <1>1, <1>2, <1>6 DEF OutboundInv, OutboundType
<1> QED BY <1>5, <1>6 DEF WriteFrame

-----------------------------------------------------------------------------
\* Every step of the peer, the two tasks and the handler keeps both directions.
LEMMA SessionStep == SessionInv /\ [SessionNext]_wsVars => SessionInv'
<1> SUFFICES ASSUME SessionInv, [SessionNext]_wsVars PROVE SessionInv'
  OBVIOUS
<1> USE DEF inbound, outbound, states, SessionInv
<1>1. ASSUME UNCHANGED inbound PROVE InboundType' /\ InboundInv'
  BY <1>1 DEF InboundType, InboundInv, EndComesLast, MessagesMatch, Reading, ReadToTheEnd, Arrived, Pings
<1>2. ASSUME UNCHANGED outbound PROVE OutboundType' /\ OutboundInv'
  BY <1>2 DEF OutboundType, OutboundInv
<1>3. Len(peerSent) \in Nat /\ Len(sent) \in Nat
  BY DEF InboundType, OutboundType
<1>4. ASSUME NEW f \in {Text(Len(peerSent)), Bytes(Len(peerSent)), Ping, Close, Broken, Eof}, PeerSends(f)
      PROVE  SessionInv'
  <2>1. f \in Frames /\ (IsData(f) \/ f = Ping \/ EndsStream(f))
    BY <1>3, FrameKinds
  <2> QED BY <1>2, <1>4, <2>1, PeerSendsKeeps DEF PeerSends
<1>5. CASE ReadFrame
  BY <1>2, <1>5, ReadFrameKeeps DEF ReadFrame
<1>6. CASE WriteFrame
  BY <1>1, <1>6, WriteFrameKeeps DEF WriteFrame
<1>7. CASE CloseSink
  <2>1. OutboundType' /\ OutboundInv'
    BY <1>7 DEF CloseSink, OutboundType, OutboundInv
  <2> QED BY <1>1, <1>7, <2>1 DEF CloseSink
<1>8. CASE StartHandler \/ AcceptSocket \/ EndHandler
  BY <1>1, <1>2, <1>8 DEF StartHandler, AcceptSocket, EndHandler
<1>9. CASE Receive
  BY <1>2, <1>9, ReceiveKeeps DEF Receive
<1>10. ASSUME NEW f \in {Text(Len(sent)), Bytes(Len(sent))}, Send(f) PROVE SessionInv'
  <2>1. f \in Frames
    BY <1>3, FrameKinds
  <2> QED BY <1>1, <1>10, <2>1, SendingKeeps DEF Send
<1>11. CASE CloseSocket
  BY <1>1, <1>2, <1>11, SendingKeeps, FrameKinds DEF CloseSocket
<1>12. CASE UNCHANGED wsVars
  BY <1>1, <1>2, <1>12 DEF wsVars
<1> QED BY <1>4, <1>5, <1>6, <1>7, <1>8, <1>9, <1>10, <1>11, <1>12 DEF SessionNext

\* In every state that satisfies the invariant the two ends of each direction
\* agree.
LEMMA OrderFollows == SessionInv => StreamsInOrder
<1> SUFFICES ASSUME SessionInv PROVE StreamsInOrder
  OBVIOUS
<1> USE DEF SessionInv
<1>1. /\ DOMAIN got = 1..Len(got) /\ DOMAIN peerSent = 1..Len(peerSent) /\ DOMAIN wire = 1..Len(wire)
      /\ {Len(got), Len(incoming), Len(peerSent), Len(wire), Len(sent), Len(peer)} \subseteq Nat
  BY DEF InboundType, OutboundType
<1>2. \A i \in 1..Len(got) : got[i] \in Readings(Message(peerSent, i)) /\ Message(peerSent, i) \in Frames
  BY FrameKinds DEF InboundInv, MessagesMatch, Message, InboundType
<1>3. ASSUME NEW i \in 1..Len(got), got[i] # Close
      PROVE  /\ i \in 1..Len(peerSent) /\ IsData(peerSent[i])
             /\ IF got[i] = Garbled THEN peerSent[i].kind = "bytes" ELSE got[i].n = peerSent[i].n
  <2>1. IsData(Message(peerSent, i))
    BY <1>2, <1>3, ReadingsAreFaithful
  <2>2. i \in 1..Len(peerSent) /\ IsData(peerSent[i]) /\ Message(peerSent, i) = peerSent[i]
    BY <2>1, FrameKinds DEF Message
  <2> QED BY <1>2, <1>3, <2>2, ReadingsAreFaithful
<1>4. ASSUME NEW i \in 1..Len(got), got[i] = Close
      PROVE  /\ \A j \in 1..Len(peerSent) : IsData(peerSent[j]) => j < i
             /\ \A j \in i..Len(got) : got[j] = Close
  <2>1. ~(i \in 1..Len(peerSent) /\ IsData(peerSent[i]))
    <3> SUFFICES ASSUME i \in 1..Len(peerSent), IsData(peerSent[i]) PROVE FALSE
      OBVIOUS
    <3>1. Message(peerSent, i) = peerSent[i]
      BY DEF Message
    <3> QED BY <1>2, <1>4, <3>1, ReadingsAreFaithful
  <2>2. \A j \in 1..Len(peerSent) : IsData(peerSent[j]) => j < i
    BY <1>1, <2>1 DEF InboundInv, EndComesLast
  <2>3. ASSUME NEW j \in i..Len(got) PROVE got[j] = Close
    <3>1. Message(peerSent, j) = Close /\ j \in 1..Len(got)
      BY <1>1, <2>2 DEF Message
    <3> QED BY <1>2, <3>1, FrameKinds, ReadingsAreFaithful
  <2> QED BY <2>2, <2>3
<1>5. Len(wire) <= Len(sent) /\ wire = SubSeq(sent, 1, Len(wire))
  <2>1. Len(wire) <= Len(sent) /\ \A i \in 1..Len(wire) : wire[i] = sent[i]
    BY DEF OutboundInv
  <2>2. wire = SubSeq(sent, 1, Len(wire))
    BY <1>1, <2>1 DEF OutboundType
  <2> QED BY <2>1, <2>2
<1>6. \A i \in 1..Len(wire) : wire[i] = Close => i = Len(wire)
  BY DEF OutboundInv
<1> QED BY <1>1, <1>3, <1>4, <1>5, <1>6 DEF StreamsInOrder

\* Whatever the peer sends and wherever it stops, and however the handler mixes
\* its calls, websocket.rs and its bridge lose, repeat and reorder nothing: the
\* handler gets the peer's frames in their order (a binary one possibly as a
\* garbled text) and then only the end, and the wire carries what the sends were
\* told was accepted, up to the first close.
THEOREM StreamsStayInOrder == SessionSpec => []StreamsInOrder
<1>1. SessionInit => SessionInv
  BY DEF SessionInit, SessionInv, InboundType, OutboundType, InboundInv, OutboundInv, EndComesLast,
         MessagesMatch, Reading, Arrived, Pings
<1> QED BY <1>1, SessionStep, OrderFollows, PTL DEF SessionSpec
=============================================================================
