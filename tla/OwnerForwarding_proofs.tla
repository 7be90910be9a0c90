----------------------- MODULE OwnerForwarding_proofs -----------------------
(***************************************************************************)
(* The owner-aware edge, for any nodes and any bounds: edge and owner      *)
(* agree on the epoch of a relay, handles balance, and the browser misses  *)
(* no update.  The invariant says whose every open connection is, which    *)
(* node a connection's epoch still speaks for, and where the newest update *)
(* is while the browser does not have it.                                  *)
(***************************************************************************)
EXTENDS OwnerForwarding, FiniteSetTheorems, SequenceTheorems, TLAPS

Message == [type : {"handshake", "ack", "sync", "update", "close", "disconnect"}, k : Nat]

\* The endpoint has the connection open, and the ownership handle.
Opened == {"opened", "acked", "serving", "closing"}
Holding == {"acquired"} \cup Opened

Stream ==
  [node : Nodes, epoch : Nat, up : Seq(Message), down : Seq(Message), edge : BOOLEAN,
   own : {"handshake", "done"} \cup Holding]

EdgeSteps == {"route", "acquire", "open", "bootstrap", "local", "ack", "bridge", "rebind", "done"}

EdgeState ==
  [at : EdgeSteps, prev : Nat, epoch : Nat, first : BOOLEAN, allowLocal : BOOLEAN,
   kind : {"remote", "local"}, tracked : BOOLEAN, promote : BOOLEAN]

\* The edge has a local connection, or the handle for one.
Session == {"bootstrap", "local"}
Handled == {"open"} \cup Session

\* The endpoint has not answered the handshake.
Unanswered == {"handshake", "acquired", "opened"}

Typed ==
  /\ owner \in Nodes \cup {None} /\ epoch \in Nat \ {0}
  /\ conn \in [Nodes -> [by : {None, Edge} \cup Nat, epoch : Nat]]
  /\ edge \in EdgeState
  /\ reader \in [at : {"new", "off", "idle", "deliver"}, to : {None, Edge} \cup Nat]
  /\ target \in {None, Edge} \cup Nat
  /\ clientErr \in {None, "closed", "error"}
  /\ streams \in Seq(Stream)
  /\ written \in Nat /\ seen \in 0..written

\* A connection is the local session's or a stream's, of the epoch the edge asked
\* for once that is compared, and a stream past its open has its node's connection.
Bindings ==
  /\ \A n \in Nodes : conn[n].by \in Nat =>
       /\ conn[n].by \in 1..Current
       /\ streams[conn[n].by].node = n
       /\ streams[conn[n].by].own \in Opened /\ conn[n].epoch # 0
       /\ streams[conn[n].by].own # "opened" => conn[n].epoch = streams[conn[n].by].epoch
  /\ \A n \in Nodes : conn[n].by = Edge <=> (n = Edge /\ edge.at \in Session)
  /\ \A s \in 1..Current : /\ streams[s].node # Edge
                           /\ streams[s].own \in Opened => conn[streams[s].node].by = s

Local(n) == IF n = Edge /\ edge.at \in Handled THEN 1 ELSE 0

Balanced ==
  /\ handles \in [Nodes -> Nat]
  /\ \A n \in Nodes : handles[n] = Cardinality(Holders(n)) + Local(n)

\* The newest epoch speaks for one node, which may have let its lease expire.
EpochsHeld ==
  \A n \in Nodes : conn[n].epoch <= epoch /\ (conn[n].epoch = epoch => owner \in {n, None})

Asked(s) == \E i \in 1..Len(streams[s].up) : streams[s].up[i].type = "sync"
Sent(s) == \E i \in 1..Len(streams[s].down) : streams[s].down[i].k = written

\* A stream that serves the newest epoch has been asked for the document, or has
\* sent the newest update, or the browser has it.
Fed(s) ==
  streams[s].own \in {"acked", "serving"} /\ conn[streams[s].node].epoch = epoch =>
    Asked(s) \/ (streams[s].own = "serving" /\ (seen = written \/ Sent(s)))

SentKnown == \A s \in 1..Current : \A i \in 1..Len(streams[s].down) : streams[s].down[i].k <= written
HasStream == edge.at \in {"ack", "bridge"} => Current # 0
LocalComplete == edge.at = "local" /\ conn[Edge].epoch = epoch => seen = written
RelayComplete == \A s \in 1..Current : edge.at = "bridge" /\ s = Current => Fed(s)

Complete == SentKnown /\ HasStream /\ LocalComplete /\ RelayComplete

\* An endpoint that has not read its handshake has it before it.
Greeting == \A s \in 1..Current : streams[s].own = "handshake" => streams[s].up # <<>>

\* Nothing comes back, and nothing is relayed, before the endpoint has opened.
Early ==
  \A s \in 1..Current : streams[s].own \in Unanswered =>
    streams[s].down = <<>> /\ ~(edge.at = "bridge" /\ s = Current)

Core == Greeting /\ Early /\ Bindings /\ Balanced /\ EpochsHeld /\ Complete

Inv == Typed /\ Core

-----------------------------------------------------------------------------
(* Streams.                                                                *)

Owns == {"handshake", "done"} \cup Holding

\* Stream s, and no other, changes, in what is under way and in its two ends.
Touched(s, up, down, on, own) ==
  /\ streams' \in Seq(Stream) /\ Current' = Current
  /\ \A t \in 1..Current : t # s => streams'[t] = streams[t]
  /\ \A t \in 1..Current : streams'[t].node = streams[t].node /\ streams'[t].epoch = streams[t].epoch
  /\ streams'[s].up = up /\ streams'[s].down = down /\ streams'[s].edge = on /\ streams'[s].own = own

\* What is known of a stream that was dialled.
LEMMA StreamFields ==
  ASSUME Typed, NEW s \in 1..Current
  PROVE  /\ streams[s] \in Stream /\ streams \in Seq(Stream) /\ s \in 1..Len(streams)
         /\ streams[s].node \in Nodes /\ streams[s].epoch \in Nat
         /\ streams[s].up \in Seq(Message) /\ streams[s].down \in Seq(Message)
         /\ streams[s].edge \in BOOLEAN /\ streams[s].own \in Owns
<1>1. streams[s] \in Stream BY ElementOfSeq DEF Typed, Current
<1> QED BY <1>1 DEF Stream, Owns, Typed, Current

\* A change of one stream keeps their number, their types and the other streams.
LEMMA Touching ==
  ASSUME Typed, NEW s \in 1..Current, NEW r \in Stream,
         r.node = streams[s].node, r.epoch = streams[s].epoch, streams' = [streams EXCEPT ![s] = r]
  PROVE  Touched(s, r.up, r.down, r.edge, r.own)
<1>1. streams \in Seq(Stream) /\ s \in 1..Len(streams) BY DEF Typed, Current
<1>2. /\ streams' \in Seq(Stream) /\ Len(streams') = Len(streams)
      /\ \A j \in 1..Len(streams) : streams'[j] = IF j = s THEN r ELSE streams[j]
  BY <1>1, ExceptSeq
<1> QED BY <1>1, <1>2 DEF Current, Touched

\* The messages under way stay messages.
LEMMA MessageSeqs ==
  ASSUME NEW q \in Seq(Message), NEW m \in Message
  PROVE  Append(q, m) \in Seq(Message) /\ (q # <<>> => Tail(q) \in Seq(Message) /\ Head(q) \in Message)
BY AppendProperties, HeadTailProperties

\* What the edge and the endpoint send are messages.
LEMMA Frames ==
  /\ \A t \in {"handshake", "ack", "sync", "update", "close", "disconnect"} :
       Frame(t) \in Message /\ Frame(t).type = t /\ Frame(t).k = 0
  /\ \A k \in Nat : \A t \in {"sync", "update"} :
       Msg(t, k) \in Message /\ Msg(t, k).type = t /\ Msg(t, k).k = k
BY DEF Frame, Msg, Message

\* What the edge's handler and reader do to a stream.
LEMMA EdgeTouches ==
  ASSUME Typed, Greeting, NEW s \in 1..Current
  PROVE  /\ ReceiveAck(s) /\ edge.first =>
              Touched(s, Append(streams[s].up, Frame("sync")), Tail(streams[s].down),
                      streams[s].edge, streams[s].own)
         /\ ReceiveAck(s) /\ ~edge.first =>
              Touched(s, Append(streams[s].up, Frame("sync")), Tail(streams[s].down),
                      streams[s].edge, streams[s].own)
         /\ HandshakeFails(s) =>
              Touched(s, streams[s].up, <<>>, FALSE, streams[s].own)
         /\ Relay(s) =>
              Touched(s, streams[s].up, Tail(streams[s].down), streams[s].edge, streams[s].own)
         /\ RelayClose(s) =>
              Touched(s, streams[s].up, <<>>, FALSE, streams[s].own)
         /\ EndBridge(s) \/ RelayFails(s) =>
              \/ Touched(s, streams[s].up, streams[s].down, streams[s].edge, streams[s].own)
              \/ Touched(s, streams[s].up, <<>>, FALSE, streams[s].own)
              \/ Touched(s, Append(streams[s].up, Frame("disconnect")), <<>>, FALSE, streams[s].own)
         /\ DeliverRemote(s) /\ streams[s].edge /\ streams[s].own # "done" =>
              Touched(s, Append(streams[s].up, Frame("update")), streams[s].down,
                      streams[s].edge, streams[s].own)
<1> USE StreamFields
<1> DEFINE r == streams[s]
<1>1. ASSUME ReceiveAck(s), edge.first
      PROVE  Touched(s, Append(r.up, Frame("sync")), Tail(r.down), r.edge, r.own)
  <2> DEFINE w == [r EXCEPT !.down = Tail(@), !.up = @, !.up = Append(@, Frame("sync"))]
  <2>1. streams' = [streams EXCEPT ![s] = w]
    <3>1. Bound(s) = [streams EXCEPT ![s] = [r EXCEPT !.down = Tail(@), !.up = @]]
      BY <1>1 DEF Bound
    <3>2. streams' = [Bound(s) EXCEPT ![s].up = Append(@, Frame("sync"))] BY <1>1 DEF ReceiveAck
    <3> DEFINE b == [r EXCEPT !.down = Tail(@), !.up = @]
    <3>3. Bound(s)[s] = b
      <4>1. Bound(s) = [streams EXCEPT ![s] = b] BY <3>1
      <4> HIDE DEF b
      <4> QED BY <4>1
    <3>4. streams' = [Bound(s) EXCEPT ![s] = [Bound(s)[s] EXCEPT !.up = Append(@, Frame("sync"))]]
      BY <3>2
    <3>5. [Bound(s)[s] EXCEPT !.up = Append(@, Frame("sync"))] = w BY <3>3
    <3>6. streams' = [Bound(s) EXCEPT ![s] = w] BY <3>4, <3>5
    <3> HIDE DEF w
    <3> QED BY <3>1, <3>6
  <2>2. Tail(r.down) \in Seq(Message) /\ Append(r.up, Frame("sync")) \in Seq(Message)
    BY <1>1, Frames, MessageSeqs, EmptySeq DEF ReceiveAck, Greeting, Typed
  <2>3. w \in Stream /\ w.node = r.node /\ w.epoch = r.epoch
    BY <2>2 DEF Stream, Owns, Holding, Opened
  <2>4. w.up = Append(r.up, Frame("sync")) /\ w.down = Tail(r.down) /\ w.edge = r.edge /\ w.own = r.own
    BY <2>2 DEF Stream
  <2> HIDE DEF w, r
  <2> QED BY <2>1, <2>3, <2>4, Touching DEF r
<1>2. ASSUME ReceiveAck(s), ~edge.first
      PROVE  Touched(s, Append(r.up, Frame("sync")), Tail(r.down), r.edge, r.own)
  <2> DEFINE w == [r EXCEPT !.down = Tail(@), !.up = Append(@, Frame("sync"))]
  <2>1. streams' = [streams EXCEPT ![s] = w] BY <1>2 DEF ReceiveAck, Bound
  <2>2. Tail(r.down) \in Seq(Message) /\ Append(r.up, Frame("sync")) \in Seq(Message)
    BY <1>2, Frames, MessageSeqs, EmptySeq DEF ReceiveAck, Greeting, Typed
  <2>3. w \in Stream /\ w.node = r.node /\ w.epoch = r.epoch
    BY <2>2 DEF Stream, Owns, Holding, Opened
  <2>4. w.up = Append(r.up, Frame("sync")) /\ w.down = Tail(r.down) /\ w.edge = r.edge /\ w.own = r.own
    BY <2>2 DEF Stream
  <2> HIDE DEF w, r
  <2> QED BY <2>1, <2>3, <2>4, Touching DEF r
<1>3. ASSUME HandshakeFails(s)
      PROVE  Touched(s, r.up, <<>>, FALSE, r.own)
  <2> DEFINE w == [r EXCEPT !.edge = FALSE, !.down = <<>>]
  <2>1. streams' = [streams EXCEPT ![s] = w] BY <1>3 DEF HandshakeFails, Shut
  <2>2. <<>> \in Seq(Message) /\ r.up \in Seq(Message)
    BY <1>3, Frames, MessageSeqs, EmptySeq DEF HandshakeFails, Greeting, Typed
  <2>3. w \in Stream /\ w.node = r.node /\ w.epoch = r.epoch
    BY <2>2 DEF Stream, Owns, Holding, Opened
  <2>4. w.up = r.up /\ w.down = <<>> /\ w.edge = FALSE /\ w.own = r.own
    BY <2>2 DEF Stream
  <2> HIDE DEF w, r
  <2> QED BY <2>1, <2>3, <2>4, Touching DEF r
<1>4. ASSUME Relay(s)
      PROVE  Touched(s, r.up, Tail(r.down), r.edge, r.own)
  <2> DEFINE w == [r EXCEPT !.down = Tail(@)]
  <2>1. streams' = [streams EXCEPT ![s] = w] BY <1>4 DEF Relay
  <2>2. Tail(r.down) \in Seq(Message) /\ r.up \in Seq(Message)
    BY <1>4, Frames, MessageSeqs, EmptySeq DEF Relay, Greeting, Typed
  <2>3. w \in Stream /\ w.node = r.node /\ w.epoch = r.epoch
    BY <2>2 DEF Stream, Owns, Holding, Opened
  <2>4. w.up = r.up /\ w.down = Tail(r.down) /\ w.edge = r.edge /\ w.own = r.own
    BY <2>2 DEF Stream
  <2> HIDE DEF w, r
  <2> QED BY <2>1, <2>3, <2>4, Touching DEF r
<1>5. ASSUME RelayClose(s)
      PROVE  Touched(s, r.up, <<>>, FALSE, r.own)
  <2> DEFINE w == [r EXCEPT !.edge = FALSE, !.down = <<>>]
  <2>1. streams' = [streams EXCEPT ![s] = w] BY <1>5 DEF RelayClose, Shut
  <2>2. <<>> \in Seq(Message) /\ r.up \in Seq(Message)
    BY <1>5, Frames, MessageSeqs, EmptySeq DEF RelayClose, Greeting, Typed
  <2>3. w \in Stream /\ w.node = r.node /\ w.epoch = r.epoch
    BY <2>2 DEF Stream, Owns, Holding, Opened
  <2>4. w.up = r.up /\ w.down = <<>> /\ w.edge = FALSE /\ w.own = r.own
    BY <2>2 DEF Stream
  <2> HIDE DEF w, r
  <2> QED BY <2>1, <2>3, <2>4, Touching DEF r
<1>6. ASSUME streams' = Shut(s)
      PROVE  Touched(s, r.up, <<>>, FALSE, r.own)
  <2> DEFINE w == [r EXCEPT !.edge = FALSE, !.down = <<>>]
  <2>1. streams' = [streams EXCEPT ![s] = w] BY <1>6 DEF Shut
  <2>2. <<>> \in Seq(Message) /\ r.up \in Seq(Message) BY EmptySeq
  <2>3. w \in Stream /\ w.node = r.node /\ w.epoch = r.epoch
    BY <2>2 DEF Stream, Owns, Holding, Opened
  <2>4. w.up = r.up /\ w.down = <<>> /\ w.edge = FALSE /\ w.own = r.own
    BY <2>2 DEF Stream
  <2> HIDE DEF w, r
  <2> QED BY <2>1, <2>3, <2>4, Touching DEF r
<1>7. ASSUME streams' = [Shut(s) EXCEPT ![s].up = Append(@, Frame("disconnect"))]
      PROVE  Touched(s, Append(r.up, Frame("disconnect")), <<>>, FALSE, r.own)
  <2> DEFINE w == [r EXCEPT !.edge = FALSE, !.down = <<>>, !.up = Append(@, Frame("disconnect"))]
  <2>1. streams' = [streams EXCEPT ![s] = w] BY <1>7 DEF Shut
  <2>2. <<>> \in Seq(Message) /\ Append(r.up, Frame("disconnect")) \in Seq(Message)
    BY Frames, MessageSeqs, EmptySeq
  <2>3. w \in Stream /\ w.node = r.node /\ w.epoch = r.epoch
    BY <2>2 DEF Stream, Owns, Holding, Opened
  <2>4. w.up = Append(r.up, Frame("disconnect")) /\ w.down = <<>> /\ w.edge = FALSE /\ w.own = r.own
    BY <2>2 DEF Stream
  <2> HIDE DEF w, r
  <2> QED BY <2>1, <2>3, <2>4, Touching DEF r
<1>9. ASSUME EndBridge(s) \/ RelayFails(s)
      PROVE  \/ Touched(s, r.up, r.down, r.edge, r.own)
             \/ Touched(s, r.up, <<>>, FALSE, r.own)
             \/ Touched(s, Append(r.up, Frame("disconnect")), <<>>, FALSE, r.own)
  <2>1. \/ streams' = streams
        \/ streams' = Shut(s)
        \/ streams' = [Shut(s) EXCEPT ![s].up = Append(@, Frame("disconnect"))]
    BY <1>9 DEF EndBridge, RelayFails, Cleaned
  <2>2. CASE streams' = streams BY <2>2 DEF Touched, Current
  <2> QED BY <1>6, <1>7, <2>1, <2>2
<1>8. ASSUME DeliverRemote(s), r.edge /\ r.own # "done"
      PROVE  Touched(s, Append(r.up, Frame("update")), r.down, r.edge, r.own)
  <2> DEFINE w == [r EXCEPT !.up = Append(@, Frame("update"))]
  <2>1. streams' = [streams EXCEPT ![s] = w] BY <1>8 DEF DeliverRemote, Send
  <2>2. r.down \in Seq(Message) /\ Append(r.up, Frame("update")) \in Seq(Message)
    BY <1>8, Frames, MessageSeqs, EmptySeq DEF DeliverRemote, Greeting, Typed
  <2>3. w \in Stream /\ w.node = r.node /\ w.epoch = r.epoch
    BY <2>2 DEF Stream, Owns, Holding, Opened
  <2>4. w.up = Append(r.up, Frame("update")) /\ w.down = r.down /\ w.edge = r.edge /\ w.own = r.own
    BY <2>2 DEF Stream
  <2> HIDE DEF w, r
  <2> QED BY <2>1, <2>3, <2>4, Touching DEF r
<1> QED BY <1>1, <1>2, <1>3, <1>4, <1>5, <1>8, <1>9

\* The node's connection is free, and the node owns the document.
Fits(s) == conn[streams[s].node] = Free /\ owner = streams[s].node

\* The connection has the epoch the edge asked for.
Agrees(s) == SameEpoch(streams[s].epoch, conn[streams[s].node].epoch)

\* What an endpoint does to its stream.
LEMMA EndpointTouches ==
  ASSUME Typed, Greeting, NEW s \in 1..Current
  PROVE  /\ EndpointAcquire(s) /\ CanAcquire(streams[s].node) =>
              Touched(s, Tail(streams[s].up), streams[s].down, streams[s].edge, "acquired")
         /\ EndpointAcquire(s) /\ ~CanAcquire(streams[s].node) =>
              Touched(s, <<>>, Append(streams[s].down, Frame("close")), streams[s].edge, "done")
         /\ EndpointOpen(s) /\ Fits(s) =>
              Touched(s, streams[s].up, streams[s].down, streams[s].edge, "opened")
         /\ EndpointOpen(s) /\ conn[streams[s].node] # Free =>
              Touched(s, streams[s].up, streams[s].down, streams[s].edge, "done")
         /\ EndpointOpen(s) /\ conn[streams[s].node] = Free /\ ~Fits(s) =>
              Touched(s, <<>>, Append(streams[s].down, Frame("close")), streams[s].edge, "done")
         /\ EndpointAck(s) /\ Agrees(s) =>
              \/ Touched(s, streams[s].up, Append(streams[s].down, Frame("ack")), streams[s].edge, "acked")
              \/ Touched(s, streams[s].up, streams[s].down, streams[s].edge, "closing")
         /\ EndpointAck(s) /\ ~Agrees(s) =>
              Touched(s, <<>>, Append(streams[s].down, Frame("close")), streams[s].edge, "done")
         /\ EndpointRegister(s) =>
              Touched(s, streams[s].up, streams[s].down, streams[s].edge, "serving")
         /\ EndpointReceive(s) =>
              \/ Touched(s, Tail(streams[s].up), streams[s].down, streams[s].edge, "closing")
              \/ Touched(s, Tail(streams[s].up), Append(streams[s].down, Frame("close")),
                         streams[s].edge, "closing")
              \/ /\ Head(streams[s].up).type = "sync"
                 /\ \E k \in Answers(streams[s].node) :
                      Touched(s, Tail(streams[s].up), Append(streams[s].down, Msg("sync", k)),
                              streams[s].edge, streams[s].own)
              \/ /\ Head(streams[s].up).type = "update"
                 /\ Touched(s, Tail(streams[s].up), streams[s].down, streams[s].edge, streams[s].own)
         /\ EndpointEOF(s) =>
              Touched(s, streams[s].up, streams[s].down, streams[s].edge, "closing")
         /\ EndpointRevalidate(s) /\ streams' = At(s, "closing") =>
              Touched(s, streams[s].up, streams[s].down, streams[s].edge, "closing")
         /\ EndpointRevalidate(s) /\ streams' # At(s, "closing") =>
              Touched(s, streams[s].up, Append(streams[s].down, Frame("close")), streams[s].edge, "closing")
         /\ EndpointCleanup(s) =>
              Touched(s, <<>>, streams[s].down, streams[s].edge, "done")
<1> USE StreamFields
<1> DEFINE r == streams[s]
<1>1. ASSUME EndpointAcquire(s), CanAcquire(streams[s].node)
      PROVE  Touched(s, Tail(r.up), r.down, r.edge, "acquired")
  <2> DEFINE w == [r EXCEPT !.own = "acquired", !.up = Tail(@)]
  <2>1. streams' = [streams EXCEPT ![s] = w] BY <1>1 DEF EndpointAcquire, At
  <2>2. r.down \in Seq(Message) /\ Tail(r.up) \in Seq(Message)
    BY <1>1, Frames, MessageSeqs, EmptySeq DEF EndpointAcquire, Greeting, Typed
  <2>3. w \in Stream /\ w.node = r.node /\ w.epoch = r.epoch
    BY <2>2 DEF Stream, Owns, Holding, Opened
  <2>4. w.up = Tail(r.up) /\ w.down = r.down /\ w.edge = r.edge /\ w.own = "acquired"
    BY <2>2 DEF Stream
  <2> HIDE DEF w, r
  <2> QED BY <2>1, <2>3, <2>4, Touching DEF r
<1>2. ASSUME EndpointAcquire(s), ~CanAcquire(streams[s].node)
      PROVE  Touched(s, <<>>, Append(r.down, Frame("close")), r.edge, "done")
  <2> DEFINE w == [r EXCEPT !.own = "done", !.up = <<>>, !.down = Append(@, Frame("close"))]
  <2>1. streams' = [streams EXCEPT ![s] = w] BY <1>2 DEF EndpointAcquire, Refuse
  <2>2. Append(r.down, Frame("close")) \in Seq(Message) /\ <<>> \in Seq(Message)
    BY <1>2, Frames, MessageSeqs, EmptySeq DEF EndpointAcquire, Greeting, Typed
  <2>3. w \in Stream /\ w.node = r.node /\ w.epoch = r.epoch
    BY <2>2 DEF Stream, Owns, Holding, Opened
  <2>4. w.up = <<>> /\ w.down = Append(r.down, Frame("close")) /\ w.edge = r.edge /\ w.own = "done"
    BY <2>2 DEF Stream
  <2> HIDE DEF w, r
  <2> QED BY <2>1, <2>3, <2>4, Touching DEF r
<1>3. ASSUME EndpointOpen(s), Fits(s)
      PROVE  Touched(s, r.up, r.down, r.edge, "opened")
  <2> DEFINE w == [r EXCEPT !.own = "opened"]
  <2>1. streams' = [streams EXCEPT ![s] = w]
    <3>1. streams' = At(s, "opened") BY <1>3 DEF EndpointOpen, Fits
    <3> QED BY <3>1 DEF At
  <2>2. r.down \in Seq(Message) /\ r.up \in Seq(Message) OBVIOUS
  <2>3. w \in Stream /\ w.node = r.node /\ w.epoch = r.epoch
    BY <2>2 DEF Stream, Owns, Holding, Opened
  <2>4. w.up = r.up /\ w.down = r.down /\ w.edge = r.edge /\ w.own = "opened"
    BY <2>2 DEF Stream
  <2> HIDE DEF w, r
  <2> QED BY <2>1, <2>3, <2>4, Touching DEF r
<1>4. ASSUME EndpointOpen(s), conn[streams[s].node] # Free
      PROVE  Touched(s, r.up, r.down, r.edge, "done")
  <2> DEFINE w == [r EXCEPT !.own = "done"]
  <2>1. streams' = [streams EXCEPT ![s] = w] BY <1>4 DEF EndpointOpen, At
  <2>2. r.down \in Seq(Message) /\ r.up \in Seq(Message)
    BY <1>4, Frames, MessageSeqs, EmptySeq DEF EndpointOpen, Greeting, Typed
  <2>3. w \in Stream /\ w.node = r.node /\ w.epoch = r.epoch
    BY <2>2 DEF Stream, Owns, Holding, Opened
  <2>4. w.up = r.up /\ w.down = r.down /\ w.edge = r.edge /\ w.own = "done"
    BY <2>2 DEF Stream
  <2> HIDE DEF w, r
  <2> QED BY <2>1, <2>3, <2>4, Touching DEF r
<1>5. ASSUME EndpointOpen(s), conn[streams[s].node] = Free /\ ~Fits(s)
      PROVE  Touched(s, <<>>, Append(r.down, Frame("close")), r.edge, "done")
  <2> DEFINE w == [r EXCEPT !.own = "done", !.up = <<>>, !.down = Append(@, Frame("close"))]
  <2>1. streams' = [streams EXCEPT ![s] = w] BY <1>5 DEF EndpointOpen, Refuse, Fits
  <2>2. Append(r.down, Frame("close")) \in Seq(Message) /\ <<>> \in Seq(Message)
    BY <1>5, Frames, MessageSeqs, EmptySeq DEF EndpointOpen, Greeting, Typed
  <2>3. w \in Stream /\ w.node = r.node /\ w.epoch = r.epoch
    BY <2>2 DEF Stream, Owns, Holding, Opened
  <2>4. w.up = <<>> /\ w.down = Append(r.down, Frame("close")) /\ w.edge = r.edge /\ w.own = "done"
    BY <2>2 DEF Stream
  <2> HIDE DEF w, r
  <2> QED BY <2>1, <2>3, <2>4, Touching DEF r
<1>6. ASSUME EndpointRegister(s)
      PROVE  Touched(s, r.up, r.down, r.edge, "serving")
  <2> DEFINE w == [r EXCEPT !.own = "serving"]
  <2>1. streams' = [streams EXCEPT ![s] = w] BY <1>6 DEF EndpointRegister, At
  <2>2. r.down \in Seq(Message) /\ r.up \in Seq(Message)
    BY <1>6, Frames, MessageSeqs, EmptySeq DEF EndpointRegister, Greeting, Typed
  <2>3. w \in Stream /\ w.node = r.node /\ w.epoch = r.epoch
    BY <2>2 DEF Stream, Owns, Holding, Opened
  <2>4. w.up = r.up /\ w.down = r.down /\ w.edge = r.edge /\ w.own = "serving"
    BY <2>2 DEF Stream
  <2> HIDE DEF w, r
  <2> QED BY <2>1, <2>3, <2>4, Touching DEF r
<1> DEFINE read == [streams EXCEPT ![s].up = Tail(@)]
           closed == [read EXCEPT ![s].own = "closing", ![s].down = Append(@, Frame("close"))]
<1>7. ASSUME EndpointReceive(s), streams' = [read EXCEPT ![s].own = "closing"]
      PROVE  Touched(s, Tail(r.up), r.down, r.edge, "closing")
  <2> DEFINE w == [r EXCEPT !.up = Tail(@), !.own = "closing"]
  <2>1. streams' = [streams EXCEPT ![s] = w] BY <1>7
  <2>2. r.down \in Seq(Message) /\ Tail(r.up) \in Seq(Message)
    BY <1>7, Frames, MessageSeqs, EmptySeq DEF EndpointReceive, Greeting, Typed
  <2>3. w \in Stream /\ w.node = r.node /\ w.epoch = r.epoch
    BY <2>2 DEF Stream, Owns, Holding, Opened
  <2>4. w.up = Tail(r.up) /\ w.down = r.down /\ w.edge = r.edge /\ w.own = "closing"
    BY <2>2 DEF Stream
  <2> HIDE DEF w, r
  <2> QED BY <2>1, <2>3, <2>4, Touching DEF r
<1>8. ASSUME EndpointReceive(s), streams' = closed
      PROVE  Touched(s, Tail(r.up), Append(r.down, Frame("close")), r.edge, "closing")
  <2> DEFINE w == [r EXCEPT !.up = Tail(@), !.own = "closing", !.down = Append(@, Frame("close"))]
  <2>1. streams' = [streams EXCEPT ![s] = w] BY <1>8
  <2>2. Append(r.down, Frame("close")) \in Seq(Message) /\ Tail(r.up) \in Seq(Message)
    BY <1>8, Frames, MessageSeqs, EmptySeq DEF EndpointReceive, Greeting, Typed
  <2>3. w \in Stream /\ w.node = r.node /\ w.epoch = r.epoch
    BY <2>2 DEF Stream, Owns, Holding, Opened
  <2>4. w.up = Tail(r.up) /\ w.down = Append(r.down, Frame("close")) /\ w.edge = r.edge /\ w.own = "closing"
    BY <2>2 DEF Stream
  <2> HIDE DEF w, r
  <2> QED BY <2>1, <2>3, <2>4, Touching DEF r
<1>9. ASSUME EndpointReceive(s), NEW k \in Nat, streams' = [read EXCEPT ![s].down = Append(@, Msg("sync", k))]
      PROVE  Touched(s, Tail(r.up), Append(r.down, Msg("sync", k)), r.edge, r.own)
  <2> DEFINE w == [r EXCEPT !.up = Tail(@), !.down = Append(@, Msg("sync", k))]
  <2>1. streams' = [streams EXCEPT ![s] = w] BY <1>9
  <2>2. Append(r.down, Msg("sync", k)) \in Seq(Message) /\ Tail(r.up) \in Seq(Message)
    BY <1>9, Frames, MessageSeqs, EmptySeq DEF EndpointReceive, Greeting, Typed
  <2>3. w \in Stream /\ w.node = r.node /\ w.epoch = r.epoch
    BY <2>2 DEF Stream, Owns, Holding, Opened
  <2>4. w.up = Tail(r.up) /\ w.down = Append(r.down, Msg("sync", k)) /\ w.edge = r.edge /\ w.own = r.own
    BY <2>2 DEF Stream
  <2> HIDE DEF w, r
  <2> QED BY <2>1, <2>3, <2>4, Touching DEF r
<1>10. ASSUME EndpointReceive(s), streams' = read
      PROVE  Touched(s, Tail(r.up), r.down, r.edge, r.own)
  <2> DEFINE w == [r EXCEPT !.up = Tail(@)]
  <2>1. streams' = [streams EXCEPT ![s] = w] BY <1>10
  <2>2. r.down \in Seq(Message) /\ Tail(r.up) \in Seq(Message)
    BY <1>10, Frames, MessageSeqs, EmptySeq DEF EndpointReceive, Greeting, Typed
  <2>3. w \in Stream /\ w.node = r.node /\ w.epoch = r.epoch
    BY <2>2 DEF Stream, Owns, Holding, Opened
  <2>4. w.up = Tail(r.up) /\ w.down = r.down /\ w.edge = r.edge /\ w.own = r.own
    BY <2>2 DEF Stream
  <2> HIDE DEF w, r
  <2> QED BY <2>1, <2>3, <2>4, Touching DEF r
<1>15. ASSUME EndpointReceive(s)
       PROVE  \/ Touched(s, Tail(r.up), r.down, r.edge, "closing")
              \/ Touched(s, Tail(r.up), Append(r.down, Frame("close")), r.edge, "closing")
              \/ /\ Head(r.up).type = "sync"
                 /\ \E k \in Answers(r.node) :
                      Touched(s, Tail(r.up), Append(r.down, Msg("sync", k)), r.edge, r.own)
              \/ Head(r.up).type = "update" /\ Touched(s, Tail(r.up), r.down, r.edge, r.own)
  <2>1. \A k \in Answers(r.node) : k \in Nat BY DEF Answers, Typed
  <2>2. \/ streams' = [read EXCEPT ![s].own = "closing"]
        \/ streams' = closed
        \/ /\ Head(r.up).type = "sync"
           /\ \E k \in Answers(r.node) : streams' = [read EXCEPT ![s].down = Append(@, Msg("sync", k))]
        \/ Head(r.up).type = "update" /\ streams' = read
    BY <1>15 DEF EndpointReceive
  <2> HIDE DEF r, read, closed
  <2> QED BY <1>7, <1>8, <1>9, <1>10, <1>15, <2>1, <2>2
<1>16. ASSUME EndpointAck(s), streams' = [At(s, "acked") EXCEPT ![s].down = Append(@, Frame("ack"))]
      PROVE  Touched(s, r.up, Append(r.down, Frame("ack")), r.edge, "acked")
  <2> DEFINE w == [r EXCEPT !.own = "acked", !.down = Append(@, Frame("ack"))]
  <2>1. streams' = [streams EXCEPT ![s] = w] BY <1>16 DEF At
  <2>2. Append(r.down, Frame("ack")) \in Seq(Message) /\ r.up \in Seq(Message)
    BY Frames, MessageSeqs
  <2>3. w \in Stream /\ w.node = r.node /\ w.epoch = r.epoch
    BY <2>2 DEF Stream, Owns, Holding, Opened
  <2>4. w.up = r.up /\ w.down = Append(r.down, Frame("ack")) /\ w.edge = r.edge /\ w.own = "acked"
    BY <2>2 DEF Stream
  <2> HIDE DEF w, r
  <2> QED BY <2>1, <2>3, <2>4, Touching DEF r
<1>17. ASSUME EndpointAck(s), streams' = At(s, "closing")
      PROVE  Touched(s, r.up, r.down, r.edge, "closing")
  <2> DEFINE w == [r EXCEPT !.own = "closing"]
  <2>1. streams' = [streams EXCEPT ![s] = w] BY <1>17 DEF At
  <2>2. r.down \in Seq(Message) /\ r.up \in Seq(Message)
    OBVIOUS
  <2>3. w \in Stream /\ w.node = r.node /\ w.epoch = r.epoch
    BY <2>2 DEF Stream, Owns, Holding, Opened
  <2>4. w.up = r.up /\ w.down = r.down /\ w.edge = r.edge /\ w.own = "closing"
    BY <2>2 DEF Stream
  <2> HIDE DEF w, r
  <2> QED BY <2>1, <2>3, <2>4, Touching DEF r
<1>18. ASSUME EndpointAck(s), ~Agrees(s)
      PROVE  Touched(s, <<>>, Append(r.down, Frame("close")), r.edge, "done")
  <2> DEFINE w == [r EXCEPT !.own = "done", !.up = <<>>, !.down = Append(@, Frame("close"))]
  <2>1. streams' = [streams EXCEPT ![s] = w] BY <1>18 DEF EndpointAck, Refuse, Agrees
  <2>2. Append(r.down, Frame("close")) \in Seq(Message) /\ <<>> \in Seq(Message)
    BY Frames, MessageSeqs, EmptySeq
  <2>3. w \in Stream /\ w.node = r.node /\ w.epoch = r.epoch
    BY <2>2 DEF Stream, Owns, Holding, Opened
  <2>4. w.up = <<>> /\ w.down = Append(r.down, Frame("close")) /\ w.edge = r.edge /\ w.own = "done"
    BY <2>2 DEF Stream
  <2> HIDE DEF w, r
  <2> QED BY <2>1, <2>3, <2>4, Touching DEF r
<1>19. ASSUME EndpointAck(s), Agrees(s)
       PROVE  \/ Touched(s, r.up, Append(r.down, Frame("ack")), r.edge, "acked")
              \/ Touched(s, r.up, r.down, r.edge, "closing")
  <2>1. \/ streams' = [At(s, "acked") EXCEPT ![s].down = Append(@, Frame("ack"))]
        \/ streams' = At(s, "closing")
    BY <1>19 DEF EndpointAck, Agrees, Acked
  <2> QED BY <1>16, <1>17, <1>19, <2>1
<1>11. ASSUME EndpointEOF(s)
      PROVE  Touched(s, r.up, r.down, r.edge, "closing")
  <2> DEFINE w == [r EXCEPT !.own = "closing"]
  <2>1. streams' = [streams EXCEPT ![s] = w] BY <1>11 DEF EndpointEOF, At
  <2>2. r.down \in Seq(Message) /\ r.up \in Seq(Message)
    BY <1>11, Frames, MessageSeqs, EmptySeq DEF EndpointEOF, Greeting, Typed
  <2>3. w \in Stream /\ w.node = r.node /\ w.epoch = r.epoch
    BY <2>2 DEF Stream, Owns, Holding, Opened
  <2>4. w.up = r.up /\ w.down = r.down /\ w.edge = r.edge /\ w.own = "closing"
    BY <2>2 DEF Stream
  <2> HIDE DEF w, r
  <2> QED BY <2>1, <2>3, <2>4, Touching DEF r
<1>12. ASSUME EndpointRevalidate(s), streams' = At(s, "closing")
      PROVE  Touched(s, r.up, r.down, r.edge, "closing")
  <2> DEFINE w == [r EXCEPT !.own = "closing"]
  <2>1. streams' = [streams EXCEPT ![s] = w] BY <1>12 DEF EndpointRevalidate, At
  <2>2. r.down \in Seq(Message) /\ r.up \in Seq(Message)
    BY <1>12, Frames, MessageSeqs, EmptySeq DEF EndpointRevalidate, Greeting, Typed
  <2>3. w \in Stream /\ w.node = r.node /\ w.epoch = r.epoch
    BY <2>2 DEF Stream, Owns, Holding, Opened
  <2>4. w.up = r.up /\ w.down = r.down /\ w.edge = r.edge /\ w.own = "closing"
    BY <2>2 DEF Stream
  <2> HIDE DEF w, r
  <2> QED BY <2>1, <2>3, <2>4, Touching DEF r
<1>13. ASSUME EndpointRevalidate(s), streams' # At(s, "closing")
      PROVE  Touched(s, r.up, Append(r.down, Frame("close")), r.edge, "closing")
  <2> DEFINE w == [r EXCEPT !.own = "closing", !.down = Append(@, Frame("close"))]
  <2>1. streams' = [streams EXCEPT ![s] = w] BY <1>13 DEF EndpointRevalidate, At
  <2>2. Append(r.down, Frame("close")) \in Seq(Message) /\ r.up \in Seq(Message)
    BY <1>13, Frames, MessageSeqs, EmptySeq DEF EndpointRevalidate, Greeting, Typed
  <2>3. w \in Stream /\ w.node = r.node /\ w.epoch = r.epoch
    BY <2>2 DEF Stream, Owns, Holding, Opened
  <2>4. w.up = r.up /\ w.down = Append(r.down, Frame("close")) /\ w.edge = r.edge /\ w.own = "closing"
    BY <2>2 DEF Stream
  <2> HIDE DEF w, r
  <2> QED BY <2>1, <2>3, <2>4, Touching DEF r
<1>14. ASSUME EndpointCleanup(s)
      PROVE  Touched(s, <<>>, r.down, r.edge, "done")
  <2> DEFINE w == [r EXCEPT !.own = "done", !.up = <<>>]
  <2>1. streams' = [streams EXCEPT ![s] = w] BY <1>14 DEF EndpointCleanup, At
  <2>2. r.down \in Seq(Message) /\ <<>> \in Seq(Message)
    BY <1>14, Frames, MessageSeqs, EmptySeq DEF EndpointCleanup, Greeting, Typed
  <2>3. w \in Stream /\ w.node = r.node /\ w.epoch = r.epoch
    BY <2>2 DEF Stream, Owns, Holding, Opened
  <2>4. w.up = <<>> /\ w.down = r.down /\ w.edge = r.edge /\ w.own = "done"
    BY <2>2 DEF Stream
  <2> HIDE DEF w, r
  <2> QED BY <2>1, <2>3, <2>4, Touching DEF r
<1> QED BY <1>1, <1>2, <1>3, <1>4, <1>5, <1>6, <1>11, <1>12, <1>13, <1>14, <1>15, <1>18, <1>19

-----------------------------------------------------------------------------
(* The edge's handler.                                                     *)

\* The handler's state, and where it goes.
EdgeGoes(from, to) == edge \in EdgeState /\ edge' \in EdgeState /\ edge.at \in from /\ edge'.at \in to

\* Where each step of the handler takes it.
LEMMA EdgeMoves ==
  ASSUME Typed
  PROVE  /\ RouteRemote \/ RebindRemote => EdgeGoes({"route", "rebind"}, {"ack"})
         /\ RouteLocal \/ RouteUnavailable \/ RebindLocal \/ RebindTimeout =>
              EdgeGoes({"route", "rebind"}, {"acquire", "done"})
         /\ AcquireLocal /\ CanAcquire(Edge) => EdgeGoes({"acquire"}, {"open"})
         /\ AcquireLocal /\ ~CanAcquire(Edge) => EdgeGoes({"acquire"}, {"done"})
         /\ OpenLocal /\ owner = Edge /\ conn[Edge] = Free => EdgeGoes({"open"}, {"bootstrap"})
         /\ OpenLocal /\ ~(owner = Edge /\ conn[Edge] = Free) => EdgeGoes({"open"}, {"done"})
         /\ BootstrapLocal => EdgeGoes({"bootstrap"}, {"local"})
         /\ LeaveLocal \/ EndLocal \/ BootstrapLost \/ BootstrapFails => EdgeGoes(Session, {"rebind", "done"})
         /\ \A s \in 1..Current :
              /\ ReceiveAck(s) => EdgeGoes({"ack"}, {"bridge"})
              /\ HandshakeFails(s) => EdgeGoes({"ack"}, {"rebind", "done"})
              /\ RelayClose(s) \/ EndBridge(s) \/ RelayFails(s) => EdgeGoes({"bridge"}, {"rebind", "done"})
<1>0. edge \in EdgeState /\ epoch \in Nat BY DEF Typed
<1>1. \A a \in EdgeSteps : Goto(a) => edge' \in EdgeState /\ edge'.at = a BY <1>0 DEF Goto, EdgeState
<1>2. RouteRemote \/ RebindRemote => EdgeGoes({"route", "rebind"}, {"ack"})
  BY <1>0 DEF RouteRemote, RebindRemote, EdgeGoes, EdgeState, EdgeSteps
<1>3. RouteLocal \/ RouteUnavailable \/ RebindLocal \/ RebindTimeout =>
        EdgeGoes({"route", "rebind"}, {"acquire", "done"})
  <2>1. RouteLocal => EdgeGoes({"route", "rebind"}, {"acquire", "done"})
    BY <1>0 DEF RouteLocal, EdgeGoes, EdgeState, EdgeSteps
  <2>2. RebindLocal => EdgeGoes({"route", "rebind"}, {"acquire", "done"})
    BY <1>0 DEF RebindLocal, EdgeGoes, EdgeState, EdgeSteps
  <2> QED BY <2>1, <2>2, <1>0, <1>1 DEF RouteUnavailable, RebindTimeout, EdgeGoes, EdgeSteps
<1>4. /\ AcquireLocal /\ CanAcquire(Edge) => EdgeGoes({"acquire"}, {"open"})
      /\ AcquireLocal /\ ~CanAcquire(Edge) => EdgeGoes({"acquire"}, {"done"})
  BY <1>0, <1>1 DEF AcquireLocal, EdgeGoes, EdgeSteps
<1>5. OpenLocal /\ owner = Edge /\ conn[Edge] = Free => EdgeGoes({"open"}, {"bootstrap"})
  BY <1>0 DEF OpenLocal, EdgeGoes, EdgeState, EdgeSteps
<1>6. OpenLocal /\ ~(owner = Edge /\ conn[Edge] = Free) => EdgeGoes({"open"}, {"done"})
  BY <1>0, <1>1 DEF OpenLocal, EdgeGoes, EdgeSteps
<1>7. LeaveLocal \/ EndLocal \/ BootstrapLost \/ BootstrapFails => EdgeGoes(Session, {"rebind", "done"})
  <2>1. LeaveLocal => EdgeGoes(Session, {"rebind", "done"})
    BY <1>0 DEF LeaveLocal, EdgeGoes, EdgeState, EdgeSteps, Session
  <2>2. BootstrapLost => EdgeGoes(Session, {"rebind", "done"})
    BY <1>0 DEF BootstrapLost, EdgeGoes, EdgeState, EdgeSteps, Session
  <2> QED BY <2>1, <2>2, <1>0, <1>1 DEF EndLocal, BootstrapFails, EdgeGoes, EdgeSteps, Session
<1>9. BootstrapLocal => EdgeGoes({"bootstrap"}, {"local"})
  BY <1>0 DEF BootstrapLocal, EdgeGoes, EdgeState, EdgeSteps
<1>8. ASSUME NEW s \in 1..Current
      PROVE  /\ ReceiveAck(s) => EdgeGoes({"ack"}, {"bridge"})
             /\ HandshakeFails(s) => EdgeGoes({"ack"}, {"rebind", "done"})
             /\ RelayClose(s) \/ EndBridge(s) \/ RelayFails(s) => EdgeGoes({"bridge"}, {"rebind", "done"})
  <2>1. ReceiveAck(s) => EdgeGoes({"ack"}, {"bridge"})
    BY <1>0 DEF ReceiveAck, EdgeGoes, EdgeState, EdgeSteps
  <2>2. RelayClose(s) => EdgeGoes({"bridge"}, {"rebind", "done"})
    <3>1. (edge.tracked /\ edge.kind = "remote") \in BOOLEAN OBVIOUS
    <3>2. ASSUME NEW t \in BOOLEAN,
                 edge' = [edge EXCEPT !.at = "rebind", !.prev = edge.epoch, !.allowLocal = TRUE, !.tracked = t]
          PROVE  edge' \in EdgeState /\ edge'.at = "rebind"
      BY <1>0, <3>2 DEF EdgeState, EdgeSteps
    <3>3. RelayClose(s) =>
            edge' = [edge EXCEPT !.at = "rebind", !.prev = edge.epoch, !.allowLocal = TRUE,
                                 !.tracked = edge.tracked /\ edge.kind = "remote"]
      BY DEF RelayClose
    <3>4. RelayClose(s) => edge.at = "bridge" BY DEF RelayClose
    <3> QED BY <1>0, <3>1, <3>2, <3>3, <3>4 DEF EdgeGoes
  <2> QED BY <2>1, <2>2, <1>0, <1>1 DEF HandshakeFails, EndBridge, RelayFails, EdgeGoes, EdgeSteps
<1> QED BY <1>2, <1>3, <1>4, <1>5, <1>6, <1>7, <1>8, <1>9

-----------------------------------------------------------------------------
(* Types.                                                                  *)

\* What is left of the types when the streams and the handler have theirs.
Rest ==
  /\ owner \in Nodes \cup {None} /\ epoch \in Nat \ {0}
  /\ conn \in [Nodes -> [by : {None, Edge} \cup Nat, epoch : Nat]]
  /\ reader \in [at : {"new", "off", "idle", "deliver"}, to : {None, Edge} \cup Nat]
  /\ target \in {None, Edge} \cup Nat
  /\ clientErr \in {None, "closed", "error"}
  /\ written \in Nat /\ seen \in 0..written

\* The reader's steps keep the types.
LEMMA ReaderTyped ==
  ASSUME Typed, Reader \/ ReadFrame PROVE Rest' /\ edge' = edge
<1>1. CASE ReadFrame BY <1>1 DEF ReadFrame, Typed, Rest, lease
<1>2. CASE ReadFails BY <1>2 DEF ReadFails, ReaderEnds, Typed, Rest, lease
<1>3. CASE PickTarget BY <1>3 DEF PickTarget, Typed, Rest, lease
<1>4. CASE DeliverTimeout BY <1>4 DEF DeliverTimeout, ReaderEnds, Typed, Rest, lease
<1>5. CASE DeliverLocal BY <1>5 DEF DeliverLocal, ReaderEnds, Typed, Rest, lease
<1>6. ASSUME NEW s \in 1..Current, DeliverRemote(s) PROVE Rest' /\ edge' = edge
  BY <1>6 DEF DeliverRemote, ReaderEnds, Typed, Rest, lease
<1> QED BY <1>1, <1>2, <1>3, <1>4, <1>5, <1>6 DEF Reader

\* A claim of the lease keeps the types.
LEMMA ClaimTyped ==
  ASSUME Typed, NEW n \in Nodes, Acquired(n)
  PROVE  owner' \in Nodes \cup {None} /\ epoch' \in Nat \ {0}
BY DEF Acquired, Typed

\* A connection that opens or closes.
LEMMA ConnTyped ==
  ASSUME Typed, NEW n \in Nodes, NEW by \in {None, Edge} \cup Nat, NEW e \in Nat
  PROVE  [conn EXCEPT ![n] = [by |-> by, epoch |-> e]] \in [Nodes -> [by : {None, Edge} \cup Nat, epoch : Nat]]
BY DEF Typed

\* The handler's steps keep the types.
LEMMA HandlerTyped ==
  ASSUME Typed, Complete, Route \/ Handler \/ Failure PROVE Rest'
<1>1. CASE Route BY <1>1 DEF Route, RouteRemote, RouteLocal, RouteUnavailable, Typed, Rest, lease, client
<1>2. CASE AcquireLocal
  <2>1. owner' \in Nodes \cup {None} /\ epoch' \in Nat \ {0}
    BY <1>2, ClaimTyped, ForwardingAssumption DEF AcquireLocal, Typed, lease
  <2> QED BY <1>2, <2>1 DEF AcquireLocal, Typed, Rest, client
<1>3. CASE OpenLocal
  <2>1. conn' \in [Nodes -> [by : {None, Edge} \cup Nat, epoch : Nat]]
    <3>1. Edge \in Nodes /\ epoch \in Nat BY ForwardingAssumption DEF Typed
    <3>2. conn' = conn \/ conn' = [conn EXCEPT ![Edge] = [by |-> Edge, epoch |-> epoch]]
      BY <1>3 DEF OpenLocal
    <3> QED BY <3>1, <3>2, ConnTyped DEF Typed
  <2> QED BY <1>3, <2>1 DEF OpenLocal, Typed, Rest, lease, client
<1>9. CASE BootstrapLocal
  <2>1. reader' \in [at : {"new", "off", "idle", "deliver"}, to : {None, Edge} \cup Nat]
    BY <1>9 DEF BootstrapLocal, Reading, Typed
  <2>2. seen' \in 0..written
    <3>1. PICK k \in Answers(Edge) : seen' = Later(k) BY <1>9 DEF BootstrapLocal
    <3>2. k \in 0..written BY DEF Answers, Typed
    <3> QED BY <3>1, <3>2 DEF Later, Typed
  <2> QED BY <1>9, <2>1, <2>2 DEF BootstrapLocal, Typed, Rest, lease
<1>4. CASE LeaveLocal \/ EndLocal \/ BootstrapLost \/ BootstrapFails
  <2>1. conn' \in [Nodes -> [by : {None, Edge} \cup Nat, epoch : Nat]]
    BY <1>4, ConnTyped, ForwardingAssumption
    DEF LeaveLocal, EndLocal, BootstrapLost, BootstrapFails, ClosedLocal, Free
  <2> QED BY <1>4, <2>1 DEF LeaveLocal, EndLocal, BootstrapLost, BootstrapFails, Typed, Rest, lease, client
<1>5. CASE RebindRemote \/ RebindLocal \/ RebindTimeout
  BY <1>5 DEF RebindRemote, RebindLocal, RebindTimeout, Typed, Rest, lease, client
<1>6. ASSUME NEW s \in 1..Current, ReceiveAck(s) PROVE Rest'
  <2>1. reader' \in [at : {"new", "off", "idle", "deliver"}, to : {None, Edge} \cup Nat]
    BY <1>6 DEF ReceiveAck, Reading, Typed
  <2>2. s \in Nat BY StreamFields
  <2> QED BY <1>6, <2>1, <2>2 DEF ReceiveAck, Typed, Rest, lease
<1>7. ASSUME NEW s \in 1..Current, HandshakeFails(s) \/ RelayClose(s) \/ EndBridge(s) \/ RelayFails(s) PROVE Rest'
  BY <1>7 DEF HandshakeFails, RelayClose, EndBridge, RelayFails, Typed, Rest, lease, client
<1>8. ASSUME NEW s \in 1..Current, Relay(s) PROVE Rest'
  <2>1. seen' \in 0..written
    <3>1. Head(streams[s].down) = streams[s].down[1] /\ Len(streams[s].down) >= 1
      BY <1>8, StreamFields DEF Relay
    <3>2. Head(streams[s].down).k \in Nat
      <4>1. Head(streams[s].down) \in Message BY <1>8, StreamFields, HeadTailProperties DEF Relay
      <4> QED BY <4>1 DEF Message
    <3>3. Head(streams[s].down).k <= written BY <1>8, <3>1, StreamFields DEF Complete, SentKnown
    <3> QED BY <1>8, <3>2, <3>3 DEF Relay, Later, Typed
  <2> QED BY <1>8, <2>1 DEF Relay, Typed, Rest, lease, client
<1> QED BY <1>1, <1>2, <1>3, <1>4, <1>5, <1>6, <1>7, <1>8, <1>9 DEF Handler, Failure

\* The endpoints' steps keep the types.
LEMMA EndpointTyped ==
  ASSUME Typed, NEW s \in 1..Current, Endpoint(s) PROVE Rest' /\ edge' = edge
<1>0. streams[s].node \in Nodes /\ s \in Nat BY StreamFields
<1>1. CASE EndpointAcquire(s)
  <2>1. owner' \in Nodes \cup {None} /\ epoch' \in Nat \ {0}
    BY <1>0, <1>1, ClaimTyped DEF EndpointAcquire, Typed, lease
  <2> QED BY <1>1, <2>1 DEF EndpointAcquire, Typed, Rest, client
<1>2. CASE EndpointOpen(s)
  <2>1. conn' \in [Nodes -> [by : {None, Edge} \cup Nat, epoch : Nat]]
    BY <1>0, <1>2, ConnTyped DEF EndpointOpen, Typed
  <2> QED BY <1>2, <2>1 DEF EndpointOpen, Typed, Rest, lease, client
<1>8. CASE EndpointAck(s)
  <2>1. conn' \in [Nodes -> [by : {None, Edge} \cup Nat, epoch : Nat]]
    BY <1>0, <1>8, ConnTyped DEF EndpointAck, Typed, Free
  <2> QED BY <1>8, <2>1 DEF EndpointAck, Typed, Rest, lease, client
<1>3. CASE EndpointRegister(s) BY <1>3 DEF EndpointRegister, Typed, Rest, lease, client
<1>4. CASE EndpointReceive(s) BY <1>4 DEF EndpointReceive, Typed, Rest, lease, client
<1>5. CASE EndpointEOF(s) BY <1>5 DEF EndpointEOF, Typed, Rest, lease, client
<1>6. CASE EndpointRevalidate(s) BY <1>6 DEF EndpointRevalidate, Typed, Rest, lease, client
<1>7. CASE EndpointCleanup(s)
  <2>1. conn' \in [Nodes -> [by : {None, Edge} \cup Nat, epoch : Nat]]
    BY <1>0, <1>7, ConnTyped DEF EndpointCleanup, Free
  <2> QED BY <1>7, <2>1 DEF EndpointCleanup, Typed, Rest, lease, client
<1> QED BY <1>1, <1>2, <1>3, <1>4, <1>5, <1>6, <1>7, <1>8 DEF Endpoint

\* The steps of the lease, of the other clients and of the browser keep the types.
LEMMA EnvironmentTyped ==
  ASSUME Typed, NEW n \in Nodes,
         MoveOwner(n) \/ OtherWrites(n) \/ Expire \/ BrowserLeaves \/ RevalidateLocal
  PROVE  Rest' /\ edge' = edge
<1>1. CASE MoveOwner(n) BY <1>1 DEF MoveOwner, Typed, Rest, client
<1>2. CASE OtherWrites(n) BY <1>2 DEF OtherWrites, Typed, Rest, lease, client
<1>3. CASE Expire BY <1>3 DEF Expire, Typed, Rest, client
<1>4. CASE BrowserLeaves BY <1>4 DEF BrowserLeaves, Typed, Rest, lease, client
<1>5. CASE RevalidateLocal BY <1>5 DEF RevalidateLocal, Typed, Rest, lease, client
<1> QED BY <1>1, <1>2, <1>3, <1>4, <1>5

\* A dial adds one stream, whose endpoint has yet to read the handshake.
LEMMA Dialling ==
  ASSUME Typed, RouteRemote \/ RebindRemote
  PROVE  /\ streams' \in Seq(Stream) /\ Current' = Current + 1 /\ Current \in Nat
         /\ \A s \in 1..Current : streams'[s] = streams[s]
         /\ streams'[Current + 1].node # Edge
         /\ streams'[Current + 1].own = "handshake" /\ streams'[Current + 1].up # <<>>
         /\ streams'[Current + 1].down = <<>>
<1>1. /\ owner \in Nodes \ {Edge} /\ epoch \in Nat /\ streams \in Seq(Stream)
      /\ streams' = Append(streams, Dialled(owner))
  BY DEF RouteRemote, RebindRemote, NextOwner, Typed
<1>2. <<Frame("handshake")>> \in Seq(Message) /\ <<Frame("handshake")>> # <<>> BY Frames
<1>3. Dialled(owner) \in Stream BY <1>1, <1>2, EmptySeq DEF Dialled, Stream
<1>4. /\ Dialled(owner).node = owner /\ Dialled(owner).own = "handshake"
      /\ Dialled(owner).up = <<Frame("handshake")>> /\ Dialled(owner).down = <<>>
  BY DEF Dialled
<1>5. /\ streams' \in Seq(Stream) /\ Len(streams') = Len(streams) + 1 /\ Len(streams) \in Nat
      /\ \A s \in 1..Len(streams) : streams'[s] = streams[s]
      /\ streams'[Len(streams) + 1] = Dialled(owner)
  BY <1>1, <1>3, AppendProperties, LenProperties
<1> QED BY <1>1, <1>2, <1>4, <1>5 DEF Current

\* A write of another client is sent to the stream that serves the writer's node.
LEMMA Writing ==
  ASSUME Typed, NEW n \in Nodes, OtherWrites(n)
  PROVE  /\ streams' \in Seq(Stream) /\ Current' = Current
         /\ \A s \in 1..Current :
              /\ streams'[s].node = streams[s].node /\ streams'[s].epoch = streams[s].epoch
              /\ streams'[s].own = streams[s].own /\ streams'[s].up = streams[s].up
              /\ streams'[s].down = IF conn[n].by = s /\ streams[s].own = "serving"
                                      THEN Append(streams[s].down, Msg("update", written + 1))
                                      ELSE streams[s].down
<1> DEFINE to(s) == conn[n].by = s /\ streams[s].own = "serving"
           new(s) == IF to(s) THEN [streams[s] EXCEPT !.down = Append(@, Msg("update", written + 1))]
                     ELSE streams[s]
<1>1. ASSUME NEW s \in 1..Current
      PROVE  /\ new(s) \in Stream
             /\ new(s).node = streams[s].node /\ new(s).epoch = streams[s].epoch
             /\ new(s).own = streams[s].own /\ new(s).up = streams[s].up
             /\ new(s).down = IF to(s) THEN Append(streams[s].down, Msg("update", written + 1))
                              ELSE streams[s].down
  <2>1. Msg("update", written + 1) \in Message BY Frames DEF Typed
  <2>2. Append(streams[s].down, Msg("update", written + 1)) \in Seq(Message)
    BY <2>1, StreamFields, MessageSeqs
  <2>3. streams[s] \in Stream BY StreamFields
  <2> QED BY <2>2, <2>3 DEF Stream
<1>2. streams' = [s \in 1..Current |-> new(s)] BY DEF OtherWrites
<1>3. Current \in Nat BY LenProperties DEF Typed, Current
<1> HIDE DEF new, to
<1>4. streams' \in Seq(Stream) BY <1>1, <1>2, <1>3, IsASeq
<1>5. Len(streams') = Current /\ \A s \in 1..Current : streams'[s] = new(s)
  BY <1>2, <1>3, <1>4, LenProperties
<1> QED BY <1>1, <1>4, <1>5 DEF Current, to

-----------------------------------------------------------------------------
(* Who has a connection, and the handles.                                  *)

\* A stream that stays on its side of the open leaves the bindings as they are.
LEMMA TouchBinds ==
  ASSUME Typed, Bindings, NEW s \in 1..Current, NEW up, NEW down, NEW on, NEW own,
         Touched(s, up, down, on, own), conn' = conn,
         edge'.at \in Session <=> edge.at \in Session,
         own \in Opened <=> streams[s].own \in Opened,
         own = "opened" \/ streams[s].own # "opened" \/ conn[streams[s].node].epoch = streams[s].epoch
  PROVE  Bindings'
<1>1. \A t \in 1..Current : streams'[t].own \in Opened <=> streams[t].own \in Opened BY DEF Touched
<1> QED BY <1>1 DEF Touched, Bindings

\* A stream keeps its handshake until the endpoint reads it.
LEMMA TouchGreets ==
  ASSUME Typed, Greeting, NEW s \in 1..Current, NEW up, NEW down, NEW on, NEW own,
         Touched(s, up, down, on, own), own = "handshake" => up # <<>>
  PROVE  Greeting'
BY DEF Touched, Greeting

\* A stream that has not opened has sent nothing, and is not the relay's.
LEMMA TouchEarly ==
  ASSUME Typed, Early, NEW s \in 1..Current, NEW up, NEW down, NEW on, NEW own,
         Touched(s, up, down, on, own),
         own \in Unanswered => down = <<>> /\ ~(edge'.at = "bridge" /\ s = Current),
         edge'.at = "bridge" => edge.at = "bridge" \/ s = Current
  PROVE  Early'
BY DEF Touched, Early

\* A stream that keeps or has no handle leaves the holders as they are.
LEMMA TouchHolds ==
  ASSUME Typed, NEW s \in 1..Current, NEW up, NEW down, NEW on, NEW own,
         Touched(s, up, down, on, own), own \in Holding <=> streams[s].own \in Holding
  PROVE  \A n \in Nodes : Holders(n)' = Holders(n)
<1>1. \A t \in 1..Current : streams'[t].own \in Holding <=> streams[t].own \in Holding BY DEF Touched
<1> QED BY <1>1 DEF Touched, Holders, Holding, Opened

\* The endpoint's handle is the first thing it has, and the last.
LEMMA TouchGains ==
  ASSUME Typed, NEW s \in 1..Current, NEW up, NEW down, NEW on, NEW own,
         Touched(s, up, down, on, own), NEW m, m = streams[s].node
  PROVE  /\ \A n \in Nodes \ {m} : Holders(n)' = Holders(n)
         /\ own \in Holding => Holders(m)' = Holders(m) \cup {s}
         /\ own \notin Holding => Holders(m)' = Holders(m) \ {s}
<1>1. \A t \in 1..Current : t # s => streams'[t].own = streams[t].own BY DEF Touched
<1> QED BY <1>1 DEF Touched, Holders, Holding, Opened

\* There are finitely many streams.
LEMMA HoldersFinite == ASSUME Typed, NEW n PROVE IsFiniteSet(Holders(n)) /\ Cardinality(Holders(n)) \in Nat
<1>1. IsFiniteSet(1..Current) BY FS_Interval, LenProperties DEF Typed, Current
<1>2. Holders(n) \subseteq 1..Current BY DEF Holders
<1> QED BY <1>1, <1>2, FS_Subset, FS_CardinalityType

\* The accounts when neither holders nor handles change.
LEMMA SameAccounts ==
  ASSUME Balanced, handles' = handles, \A n \in Nodes : Holders(n)' = Holders(n),
         edge'.at \in Handled <=> edge.at \in Handled
  PROVE  Balanced'
BY DEF Balanced, Local

\* An endpoint takes its handle, or gives it back.
LEMMA EndpointAccounts ==
  ASSUME Typed, Balanced, NEW s \in 1..Current, NEW up, NEW down, NEW on, NEW own,
         Touched(s, up, down, on, own), edge' = edge,
         \/ /\ own \in Holding /\ streams[s].own \notin Holding
            /\ handles' = [handles EXCEPT ![streams[s].node] = @ + 1]
         \/ /\ own \notin Holding /\ streams[s].own \in Holding
            /\ handles' = [handles EXCEPT ![streams[s].node] = @ - 1]
  PROVE  Balanced'
<1> PICK m \in Nodes : m = streams[s].node BY StreamFields
<1>0. handles \in [Nodes -> Nat] BY DEF Balanced
<1>1. IsFiniteSet(Holders(m)) /\ Cardinality(Holders(m)) \in Nat BY HoldersFinite
<1>2. s \in Holders(m) <=> streams[s].own \in Holding BY DEF Holders, Holding, Opened
<1>3. \A n \in Nodes : Local(n) \in {0, 1} /\ Local(n)' = Local(n) BY DEF Local
<1>4. \A n \in Nodes \ {m} : Holders(n)' = Holders(n) BY TouchGains
<1>5. CASE own \in Holding /\ streams[s].own \notin Holding
  <2>1. Holders(m)' = Holders(m) \cup {s} BY <1>5, TouchGains
  <2>2. Cardinality(Holders(m)') = Cardinality(Holders(m)) + 1 BY <1>1, <1>2, <1>5, <2>1, FS_AddElement
  <2>3. handles' = [handles EXCEPT ![m] = @ + 1] BY <1>5
  <2> QED BY <1>0, <1>1, <1>3, <1>4, <2>2, <2>3 DEF Balanced
<1>6. CASE own \notin Holding /\ streams[s].own \in Holding
  <2>1. Holders(m)' = Holders(m) \ {s} BY <1>6, TouchGains
  <2>2. Cardinality(Holders(m)') = Cardinality(Holders(m)) - 1 /\ Cardinality(Holders(m)') \in Nat
    BY <1>1, <1>2, <1>6, <2>1, FS_RemoveElement, FS_CardinalityType
  <2>3. handles' = [handles EXCEPT ![m] = @ - 1] BY <1>6
  <2> QED BY <1>0, <1>1, <1>3, <1>4, <2>2, <2>3 DEF Balanced
<1> QED BY <1>5, <1>6

-----------------------------------------------------------------------------
(* What the browser has been sent.                                         *)

\* What an appended or a read message does to the messages under way.
LEMMA Queues ==
  ASSUME NEW q \in Seq(Message), NEW m \in Message
  PROVE  /\ \A i \in 1..Len(Append(q, m)) : Append(q, m)[i] = m \/ \E j \in 1..Len(q) : Append(q, m)[i] = q[j]
         /\ \E i \in 1..Len(Append(q, m)) : Append(q, m)[i] = m
         /\ \A j \in 1..Len(q) : \E i \in 1..Len(Append(q, m)) : Append(q, m)[i] = q[j]
         /\ q # <<>> => /\ \A i \in 1..Len(Tail(q)) : \E j \in 1..Len(q) : Tail(q)[i] = q[j]
                        /\ \A j \in 1..Len(q) : \/ q[j] = Head(q)
                                                \/ \E i \in 1..Len(Tail(q)) : Tail(q)[i] = q[j]
<1>0. Len(q) \in Nat BY LenProperties
<1>1. /\ Len(Append(q, m)) = Len(q) + 1 /\ Append(q, m)[Len(q) + 1] = m
      /\ \A i \in 1..Len(q) : Append(q, m)[i] = q[i]
  BY AppendProperties
<1>2. ASSUME q # <<>>
      PROVE  /\ \A i \in 1..Len(Tail(q)) : \E j \in 1..Len(q) : Tail(q)[i] = q[j]
             /\ \A j \in 1..Len(q) : q[j] = Head(q) \/ \E i \in 1..Len(Tail(q)) : Tail(q)[i] = q[j]
  <2>1. Len(q) >= 1 /\ Head(q) = q[1] BY <1>0, <1>2
  <2>2. Len(Tail(q)) = Len(q) - 1 /\ \A i \in 1..Len(Tail(q)) : Tail(q)[i] = q[i + 1]
    BY <1>2, HeadTailProperties
  <2>3. ASSUME NEW i \in 1..Len(Tail(q)) PROVE \E j \in 1..Len(q) : Tail(q)[i] = q[j]
    <3>1. i + 1 \in 1..Len(q) BY <1>0, <2>2
    <3> QED BY <2>2, <3>1
  <2>4. ASSUME NEW j \in 1..Len(q) PROVE q[j] = Head(q) \/ \E i \in 1..Len(Tail(q)) : Tail(q)[i] = q[j]
    <3>1. CASE j = 1 BY <2>1, <3>1
    <3>2. CASE j # 1
      <4>1. j - 1 \in 1..Len(Tail(q)) /\ (j - 1) + 1 = j BY <1>0, <2>2, <3>2
      <4> QED BY <2>2, <4>1
    <3> QED BY <3>1, <3>2
  <2> QED BY <2>3, <2>4
<1>3. \A i \in 1..Len(Append(q, m)) : Append(q, m)[i] = m \/ \E j \in 1..Len(q) : Append(q, m)[i] = q[j]
  <2> SUFFICES ASSUME NEW i \in 1..Len(Append(q, m))
               PROVE  Append(q, m)[i] = m \/ \E j \in 1..Len(q) : Append(q, m)[i] = q[j]
    OBVIOUS
  <2>1. i = Len(q) + 1 \/ i \in 1..Len(q) BY <1>0, <1>1
  <2> QED BY <1>1, <2>1
<1>4. \E i \in 1..Len(Append(q, m)) : Append(q, m)[i] = m
  <2>1. Len(q) + 1 \in 1..Len(Append(q, m)) BY <1>0, <1>1
  <2> QED BY <1>1, <2>1
<1>5. \A j \in 1..Len(q) : \E i \in 1..Len(Append(q, m)) : Append(q, m)[i] = q[j]
  <2>1. \A j \in 1..Len(q) : j \in 1..Len(Append(q, m)) BY <1>0, <1>1
  <2> QED BY <1>1, <2>1
<1> QED BY <1>2, <1>3, <1>4, <1>5

\* A stream whose new messages are known leaves them all known.
LEMMA TouchKnown ==
  ASSUME Typed, SentKnown, NEW s \in 1..Current, NEW up, NEW down, NEW on, NEW own,
         Touched(s, up, down, on, own), written' = written,
         \A i \in 1..Len(down) : down[i].k <= written
  PROVE  SentKnown'
BY DEF Touched, SentKnown

\* A stream that does not change, and that no connection is opened for, stays fed.
LEMMA FedKept ==
  ASSUME NEW c, Fed(c), streams'[c] = streams[c], written' = written, seen' = seen,
         streams[c].own \in {"acked", "serving"} /\ conn'[streams[c].node].epoch = epoch' =>
           conn[streams[c].node].epoch = epoch
  PROVE  Fed(c)'
BY DEF Fed, Asked, Sent

\* A relay whose stream gets its messages in order stays fed: the document asked
\* for is still asked for, or sent as it is now.
LEMMA FedOn ==
  ASSUME Typed, NEW s \in 1..Current, Fed(s), NEW up, NEW down, NEW on, NEW own,
         Touched(s, up, down, on, own), UNCHANGED <<conn, epoch, written>>,
         own \in {"acked", "serving"} =>
           own = streams[s].own \/ (own = "serving" /\ streams[s].own = "acked"),
         own \in {"acked", "serving"} =>
           /\ Asked(s) => \/ \E i \in 1..Len(up) : up[i].type = "sync"
                          \/ own = "serving" /\ \E i \in 1..Len(down) : down[i].k = written
           /\ Sent(s) \/ seen = written => seen' = written \/ \E i \in 1..Len(down) : down[i].k = written
  PROVE  Fed(s)'
<1>1. /\ Asked(s)' <=> \E i \in 1..Len(up) : up[i].type = "sync"
      /\ Sent(s)' <=> \E i \in 1..Len(down) : down[i].k = written
      /\ streams'[s].own = own /\ streams'[s].node = streams[s].node
  BY DEF Touched, Asked, Sent
<1> QED BY <1>1 DEF Fed

-----------------------------------------------------------------------------
(* The steps that leave streams, connections and lease alone.              *)

\* A step of the handler before or after its sessions, or of somebody else.
Quiet ==
  /\ UNCHANGED <<owner, epoch, conn, handles, streams, written, seen>>
  /\ edge' = edge \/ EdgeGoes({"route", "rebind"}, {"acquire", "done"})

\* Which steps are of that kind.
LEMMA QuietSteps ==
  ASSUME Typed
  PROVE  /\ RouteLocal \/ RouteUnavailable \/ RebindLocal \/ RebindTimeout => Quiet
         /\ RevalidateLocal \/ ReadFrame \/ ReadFails \/ PickTarget \/ DeliverTimeout \/ DeliverLocal => Quiet
         /\ BrowserLeaves => Quiet
         /\ UNCHANGED vars => Quiet
<1>1. RouteLocal \/ RouteUnavailable \/ RebindLocal \/ RebindTimeout => Quiet
  BY EdgeMoves DEF RouteLocal, RouteUnavailable, RebindLocal, RebindTimeout, Quiet, lease
<1>2. RevalidateLocal \/ ReadFrame \/ ReadFails \/ PickTarget \/ DeliverTimeout \/ DeliverLocal => Quiet
  BY DEF RevalidateLocal, ReadFrame, ReadFails, PickTarget, DeliverTimeout, DeliverLocal, Quiet, lease
<1>3. BrowserLeaves => Quiet BY DEF BrowserLeaves, Quiet, lease
<1>4. UNCHANGED vars => Quiet BY DEF vars, Quiet, lease
<1> QED BY <1>1, <1>2, <1>3, <1>4

\* They keep the invariant.
LEMMA QuietKeeps == ASSUME Typed, Core, Quiet PROVE Core'
<1>1. UNCHANGED <<owner, epoch, conn, handles, streams, written, seen>> /\ Current' = Current
  BY DEF Quiet, Current
<1>2. /\ edge'.at \in Session <=> edge.at \in Session
      /\ edge'.at = "local" => edge.at = "local"
      /\ edge'.at \in Handled <=> edge.at \in Handled
      /\ edge'.at \in {"ack", "bridge"} => edge' = edge
  BY DEF Quiet, EdgeGoes, Handled, Session
<1>3. Greeting' /\ Early' BY <1>1, <1>2 DEF Core, Greeting, Early
<1>4. Bindings' BY <1>1, <1>2 DEF Core, Bindings
<1>5. Balanced'
  <2>1. \A n \in Nodes : Holders(n)' = Holders(n) BY <1>1 DEF Holders
  <2> QED BY <1>1, <1>2, <2>1, SameAccounts DEF Core
<1>6. EpochsHeld' BY <1>1 DEF Core, EpochsHeld
<1>7. Complete'
  <2>1. SentKnown' /\ LocalComplete' BY <1>1, <1>2 DEF Core, Complete, SentKnown, LocalComplete
  <2>2. HasStream' BY <1>1, <1>2 DEF Core, Complete, HasStream
  <2>3. RelayComplete' BY <1>1, <1>2, FedKept DEF Core, Complete, RelayComplete
  <2> QED BY <2>1, <2>2, <2>3 DEF Complete
<1> QED BY <1>3, <1>4, <1>5, <1>6, <1>7 DEF Core

-----------------------------------------------------------------------------
(* The edge's side of a stream.                                            *)

\* A dial: the new stream has no connection, no handle and nothing to show.
LEMMA DialKeeps == ASSUME Typed, Core, RouteRemote \/ RebindRemote PROVE Core'
<1>1. UNCHANGED <<owner, epoch, conn, handles, written, seen>> BY DEF RouteRemote, RebindRemote, lease
<1>2. EdgeGoes({"route", "rebind"}, {"ack"}) BY EdgeMoves
<1>3. PICK c \in Nat :
        /\ c = Current /\ Current' = c + 1
        /\ \A s \in 1..c : streams'[s] = streams[s]
        /\ streams'[c + 1].node # Edge
        /\ streams'[c + 1].own = "handshake" /\ streams'[c + 1].up # <<>> /\ streams'[c + 1].down = <<>>
  BY Dialling
<1>4. \A s \in 1..Current' : s \in 1..c \/ s = c + 1 BY <1>3
<1>5. Greeting' /\ Early' BY <1>2, <1>3, <1>4 DEF Core, Greeting, Early, EdgeGoes
<1>6. Bindings'
  <2>1. \A n \in Nodes : conn[n].by \in Nat => conn[n].by \in 1..Current' BY <1>3 DEF Core, Bindings
  <2>2. ASSUME NEW n \in Nodes, conn[n].by \in Nat
        PROVE  /\ conn[n].by \in 1..Current'
               /\ streams'[conn[n].by].node = n
               /\ streams'[conn[n].by].own \in Opened /\ conn[n].epoch # 0
               /\ streams'[conn[n].by].own # "opened" => conn[n].epoch = streams'[conn[n].by].epoch
    BY <1>3, <2>1, <2>2 DEF Core, Bindings
  <2>3. \A n \in Nodes : conn[n].by = Edge <=> (n = Edge /\ edge'.at \in Session)
    BY <1>2 DEF EdgeGoes, Core, Bindings, Session
  <2>4. ASSUME NEW s \in 1..Current'
        PROVE  streams'[s].node # Edge /\ (streams'[s].own \in Opened => conn[streams'[s].node].by = s)
    <3>1. CASE s \in 1..c BY <1>3, <3>1 DEF Core, Bindings
    <3>2. CASE s = c + 1 BY <1>3, <3>2 DEF Opened
    <3> QED BY <1>4, <3>1, <3>2
  <2> QED BY <1>1, <2>2, <2>3, <2>4 DEF Bindings
<1>7. Balanced'
  <2>1. \A n \in Nodes : Holders(n)' = Holders(n) BY <1>3, <1>4 DEF Holders
  <2> QED BY <1>1, <1>2, <2>1, SameAccounts DEF Core, EdgeGoes, Handled, Session
<1>8. EpochsHeld' BY <1>1 DEF Core, EpochsHeld
<1>9. Complete'
  <2>1. SentKnown'
    <3>1. ASSUME NEW s \in 1..Current', NEW i \in 1..Len(streams'[s].down)
          PROVE  streams'[s].down[i].k <= written
      <4>1. CASE s \in 1..c BY <1>3, <3>1, <4>1 DEF Core, Complete, SentKnown
      <4>2. CASE s = c + 1
        <5>1. i \in 1..Len(<<>>) BY <1>3, <3>1, <4>2
        <5> QED BY <5>1, EmptySeq
      <4> QED BY <1>4, <3>1, <4>1, <4>2
    <3> QED BY <1>1, <3>1 DEF SentKnown
  <2>2. HasStream' BY <1>3 DEF HasStream
  <2>3. LocalComplete' /\ RelayComplete' BY <1>2 DEF EdgeGoes, LocalComplete, RelayComplete
  <2> QED BY <2>1, <2>2, <2>3 DEF Complete
<1> QED BY <1>5, <1>6, <1>7, <1>8, <1>9 DEF Core

\* The edge changes a stream: nothing moves at the endpoints, and what is left to
\* show is that the relay stays complete.
LEMMA EdgeSide ==
  ASSUME Typed, Core, NEW s \in 1..Current, NEW up \in Seq(Message), NEW down \in Seq(Message), NEW on,
         Touched(s, up, down, on, streams[s].own),
         UNCHANGED <<owner, epoch, conn, handles, written>>,
         \/ edge' = edge /\ (edge.at = "local" => seen' = seen)
         \/ /\ edge.at \notin Handled /\ edge'.at \notin Handled
            /\ edge'.at \in {"ack", "bridge"} => edge.at \in {"ack", "bridge"} /\ s = Current,
         streams[s].own = "handshake" => up # <<>>,
         streams[s].own \in Unanswered => down = <<>> /\ (edge' = edge \/ edge'.at # "bridge"),
         \A i \in 1..Len(down) : down[i].k <= written
  PROVE  /\ Greeting' /\ Early' /\ Bindings' /\ Balanced' /\ EpochsHeld'
         /\ SentKnown' /\ HasStream' /\ LocalComplete'
<1>1. /\ edge'.at \in Session <=> edge.at \in Session
      /\ edge'.at \in Handled <=> edge.at \in Handled
  BY DEF Handled, Session
<1>2. Greeting' /\ Early'
  <2>1. Greeting' BY TouchGreets DEF Core
  <2>2. /\ streams[s].own \in Unanswered => ~(edge'.at = "bridge" /\ s = Current)
        /\ edge'.at = "bridge" => edge.at = "bridge" \/ s = Current
    BY DEF Core, Early
  <2>3. Early' BY <2>2, TouchEarly DEF Core
  <2> QED BY <2>1, <2>3
<1>3. Bindings' BY <1>1, TouchBinds DEF Core
<1>4. Balanced'
  <2>1. \A n \in Nodes : Holders(n)' = Holders(n) BY TouchHolds
  <2> QED BY <1>1, <2>1, SameAccounts DEF Core
<1>5. EpochsHeld' BY DEF Core, EpochsHeld
<1>6. SentKnown' BY TouchKnown DEF Core, Complete
<1>7. HasStream' BY DEF Core, Complete, HasStream, Touched
<1>8. LocalComplete' BY DEF Core, Complete, LocalComplete, Handled, Session
<1> QED BY <1>2, <1>3, <1>4, <1>5, <1>6, <1>7, <1>8

\* The acknowledgement: the relay starts by asking for the document.
LEMMA AckKeeps == ASSUME Typed, Core, NEW s \in 1..Current, ReceiveAck(s) PROVE Core'
<1> DEFINE up == Append(streams[s].up, Frame("sync"))
           down == Tail(streams[s].down)
<1>1. UNCHANGED <<owner, epoch, conn, handles, written, seen>> /\ streams[s].down # <<>>
  BY DEF ReceiveAck, lease
<1>2. EdgeGoes({"ack"}, {"bridge"}) BY EdgeMoves
<1>3. Touched(s, up, down, streams[s].edge, streams[s].own) BY EdgeTouches DEF Core
<1>4. Frame("sync") \in Message /\ Frame("sync").type = "sync" BY Frames
<1>5. up \in Seq(Message) /\ down \in Seq(Message) /\ up # <<>>
  <2>1. streams[s].up \in Seq(Message) /\ streams[s].down \in Seq(Message) BY StreamFields
  <2>2. up \in Seq(Message) /\ down \in Seq(Message) BY <1>1, <1>4, <2>1, MessageSeqs
  <2>3. up # <<>>
    <3>1. Len(up) = Len(streams[s].up) + 1 /\ Len(streams[s].up) \in Nat
      BY <1>4, <2>1, AppendProperties, LenProperties
    <3>2. Len(up) # 0 BY <3>1
    <3> QED BY <3>2, EmptySeq
  <2> QED BY <2>2, <2>3
<1>6. \A i \in 1..Len(down) : down[i].k <= written
  BY <1>1, <1>4, StreamFields, Queues DEF Core, Complete, SentKnown
<1>7. \E i \in 1..Len(up) : up[i].type = "sync"
  <2>1. streams[s].up \in Seq(Message) BY StreamFields
  <2>2. \E i \in 1..Len(up) : up[i] = Frame("sync") BY <1>4, <2>1, Queues
  <2> QED BY <1>4, <2>2
<1> HIDE DEF up, down
<1>8. /\ Greeting' /\ Early' /\ Bindings' /\ Balanced' /\ EpochsHeld'
      /\ SentKnown' /\ HasStream' /\ LocalComplete'
  <2>1. s = Current /\ streams[s].own \notin Unanswered BY <1>1 DEF ReceiveAck, Core, Early
  <2> QED BY <1>1, <1>2, <1>3, <1>5, <1>6, <2>1, EdgeSide DEF EdgeGoes, Handled, Session
<1>9. RelayComplete'
  <2>1. s = Current /\ Current' = Current BY <1>3 DEF ReceiveAck, Touched
  <2>2. Fed(s)' BY <1>3, <1>7 DEF Fed, Asked, Touched
  <2> QED BY <2>1, <2>2 DEF RelayComplete
<1> QED BY <1>8, <1>9 DEF Core, Complete

\* A session that ends or a handshake that fails: nothing is relayed any more.
LEMMA ShutKeeps ==
  ASSUME Typed, Core, NEW s \in 1..Current,
         HandshakeFails(s) \/ RelayClose(s) \/ EndBridge(s) \/ RelayFails(s)
  PROVE  Core'
<1>1. UNCHANGED <<owner, epoch, conn, handles, written, seen>>
  BY DEF HandshakeFails, RelayClose, EndBridge, RelayFails, lease
<1>2. EdgeGoes({"ack", "bridge"}, {"rebind", "done"}) BY EdgeMoves DEF EdgeGoes
<1>3. Frame("disconnect") \in Message BY Frames
<1>4. PICK up \in {streams[s].up, Append(streams[s].up, Frame("disconnect"))},
           down \in {streams[s].down, <<>>}, on \in BOOLEAN :
        Touched(s, up, down, on, streams[s].own)
  <2>1. \/ Touched(s, streams[s].up, streams[s].down, streams[s].edge, streams[s].own)
        \/ Touched(s, streams[s].up, <<>>, FALSE, streams[s].own)
        \/ Touched(s, Append(streams[s].up, Frame("disconnect")), <<>>, FALSE, streams[s].own)
    BY EdgeTouches DEF Core
  <2>2. streams[s].edge \in BOOLEAN BY StreamFields
  <2> QED BY <2>1, <2>2, Zenon
<1>5. up \in Seq(Message) BY <1>3, <1>4, StreamFields, MessageSeqs
<1>6. streams[s].own = "handshake" => up # <<>>
  BY <1>3, <1>4, StreamFields, AppendProperties DEF Core, Greeting
<1>7. down \in Seq(Message) /\ \A i \in 1..Len(down) : down[i].k <= written
  <2>1. CASE down = <<>> BY <2>1, EmptySeq
  <2>2. CASE down = streams[s].down BY <2>2, StreamFields DEF Core, Complete, SentKnown
  <2> QED BY <1>4, <2>1, <2>2
<1>10. streams[s].own \in Unanswered => down = <<>> BY <1>4 DEF Core, Early
<1>8. /\ Greeting' /\ Early' /\ Bindings' /\ Balanced' /\ EpochsHeld'
      /\ SentKnown' /\ HasStream' /\ LocalComplete'
  BY <1>1, <1>2, <1>4, <1>5, <1>6, <1>7, <1>10, EdgeSide DEF EdgeGoes, Handled, Session
<1>9. RelayComplete' BY <1>2 DEF RelayComplete, EdgeGoes
<1> QED BY <1>8, <1>9 DEF Core, Complete

\* An update relayed to the browser: it has it, or a later one.
LEMMA RelayKeeps == ASSUME Typed, Core, NEW s \in 1..Current, Relay(s) PROVE Core'
<1> DEFINE up == streams[s].up
           q == streams[s].down
           down == Tail(q)
<1>1. UNCHANGED <<owner, epoch, conn, handles, written, edge>> /\ q # <<>> /\ edge.at = "bridge" /\ s = Current
  BY DEF Relay, lease
<1>2. Touched(s, up, down, streams[s].edge, streams[s].own) BY EdgeTouches DEF Core
<1>3. up \in Seq(Message) /\ q \in Seq(Message) BY StreamFields
<1>4. Frame("sync") \in Message BY Frames
<1>5. down \in Seq(Message) /\ Head(q) \in Message BY <1>1, <1>3, <1>4, MessageSeqs
<1>6. /\ \A i \in 1..Len(down) : \E j \in 1..Len(q) : down[i] = q[j]
      /\ \A j \in 1..Len(q) : q[j] = Head(q) \/ \E i \in 1..Len(down) : down[i] = q[j]
  BY <1>1, <1>3, <1>4, Queues
<1>7. \A i \in 1..Len(down) : down[i].k <= written
  BY <1>6 DEF Core, Complete, SentKnown
<1>8. Head(q).k \in Nat /\ Head(q).k <= written
  <2>1. Head(q) = q[1] /\ 1 \in 1..Len(q) BY <1>1, <1>3
  <2> QED BY <1>5, <2>1 DEF Core, Complete, SentKnown, Message
<1>9. /\ Head(q).k = written => seen' = written
      /\ seen = written => seen' = written
  BY <1>8 DEF Relay, Later, Typed
<1>10. Sent(s) <=> \E j \in 1..Len(q) : q[j].k = written BY DEF Sent
<1>11. streams[s].own \notin Unanswered BY <1>1 DEF Core, Early
<1>12. Fed(s) /\ (Asked(s) <=> \E i \in 1..Len(up) : up[i].type = "sync")
  BY <1>1 DEF Core, Complete, RelayComplete, Asked
<1> HIDE DEF up, down, q
<1>13. /\ Greeting' /\ Early' /\ Bindings' /\ Balanced' /\ EpochsHeld'
       /\ SentKnown' /\ HasStream' /\ LocalComplete'
  <2>1. streams[s].own # "handshake" BY <1>11 DEF Unanswered
  <2> QED BY <1>1, <1>2, <1>3, <1>5, <1>7, <1>11, <2>1, EdgeSide
<1>14. Fed(s)'
  <2>1. Sent(s) \/ seen = written => seen' = written \/ \E i \in 1..Len(down) : down[i].k = written
    BY <1>6, <1>9, <1>10
  <2> QED BY <1>1, <1>2, <1>12, <2>1, FedOn
<1>15. RelayComplete' BY <1>1, <1>2, <1>14 DEF RelayComplete, Touched
<1> QED BY <1>13, <1>15 DEF Core, Complete

\* A frame of the browser: the stream has one more message to read.
LEMMA DeliverKeeps == ASSUME Typed, Core, NEW s \in 1..Current, DeliverRemote(s) PROVE Core'
<1>1. UNCHANGED <<owner, epoch, conn, handles, written, seen, edge>> BY DEF DeliverRemote, lease
<1>2. CASE ~(streams[s].edge /\ streams[s].own # "done")
  <2>1. Quiet BY <1>1, <1>2 DEF DeliverRemote, Quiet
  <2> QED BY <2>1, QuietKeeps
<1>3. CASE streams[s].edge /\ streams[s].own # "done"
  <2> DEFINE q == streams[s].up
             up == Append(q, Frame("update"))
             down == streams[s].down
  <2>1. Touched(s, up, down, streams[s].edge, streams[s].own) BY <1>3, EdgeTouches DEF Core
  <2>2. q \in Seq(Message) /\ down \in Seq(Message) /\ Frame("update") \in Message BY StreamFields, Frames
  <2>3. up \in Seq(Message) /\ up # <<>> BY <2>2, AppendProperties
  <2>4. \A i \in 1..Len(down) : down[i].k <= written BY DEF Core, Complete, SentKnown
  <2>5. \A j \in 1..Len(q) : \E i \in 1..Len(up) : up[i] = q[j] BY <2>2, Queues
  <2>6. Asked(s) => \E i \in 1..Len(up) : up[i].type = "sync" BY <2>5 DEF Asked
  <2>7. Sent(s) => \E i \in 1..Len(down) : down[i].k = written BY DEF Sent
  <2> HIDE DEF q, up, down
  <2>8. /\ Greeting' /\ Early' /\ Bindings' /\ Balanced' /\ EpochsHeld'
        /\ SentKnown' /\ HasStream' /\ LocalComplete'
    <3>1. streams[s].own \in Unanswered => down = <<>> BY DEF Core, Early, down
    <3> QED BY <1>1, <2>1, <2>2, <2>3, <2>4, <3>1, EdgeSide
  <2>9. RelayComplete'
    <3>1. Fed(s) => Fed(s)' BY <1>1, <2>1, <2>6, <2>7, FedOn
    <3>2. \A c \in 1..Current : c # s /\ Fed(c) => Fed(c)' BY <1>1, <2>1, FedKept DEF Touched
    <3> QED BY <1>1, <2>1, <3>1, <3>2 DEF Core, Complete, RelayComplete, Touched
  <2> QED BY <2>8, <2>9 DEF Core, Complete
<1> QED BY <1>2, <1>3

-----------------------------------------------------------------------------
(* The endpoint's side.                                                    *)

\* A claim moves the lease to the claimant in a new epoch, or leaves it: the newest
\* epoch goes on speaking for one node, and nobody else's connection becomes current.
LEMMA ClaimHolds ==
  ASSUME Typed, EpochsHeld, NEW n \in Nodes, CanAcquire(n), Acquired(n), conn' = conn
  PROVE  /\ EpochsHeld'
         /\ \A m \in Nodes : conn'[m].epoch = epoch' => conn[m].epoch = epoch
<1>1. \A m \in Nodes : conn[m].epoch \in Nat BY DEF Typed
<1>2. epoch \in Nat /\ owner' = n /\ conn' = conn BY DEF Typed, Acquired
<1>3. CASE owner = None
  <2>1. epoch' = epoch + 1 BY <1>3 DEF Acquired
  <2>2. \A m \in Nodes : conn[m].epoch <= epoch BY DEF EpochsHeld
  <2>3. \A m \in Nodes : conn[m].epoch <= epoch' /\ conn[m].epoch # epoch' BY <1>1, <1>2, <2>1, <2>2
  <2> QED BY <1>2, <2>3 DEF EpochsHeld
<1>4. CASE owner # None
  <2>1. epoch' = epoch /\ owner = n BY <1>4 DEF Acquired, CanAcquire
  <2> QED BY <1>2, <2>1 DEF EpochsHeld
<1> QED BY <1>3, <1>4

\* What an endpoint does to the messages it sends and reads.
LEMMA EndpointQueues ==
  ASSUME Typed, Core, NEW s \in 1..Current
  PROVE  /\ \A i \in 1..Len(streams[s].down) : streams[s].down[i].k <= written
         /\ \A t \in {"ack", "close"} : \A i \in 1..Len(Append(streams[s].down, Frame(t))) :
              Append(streams[s].down, Frame(t))[i].k <= written
         /\ \A k \in 0..written : \A i \in 1..Len(Append(streams[s].down, Msg("sync", k))) :
              Append(streams[s].down, Msg("sync", k))[i].k <= written
<1>1. \A i \in 1..Len(streams[s].down) : streams[s].down[i].k <= written BY DEF Core, Complete, SentKnown
<1>2. streams[s].down \in Seq(Message) /\ written \in Nat BY StreamFields DEF Typed
<1>3. ASSUME NEW m \in Message, m.k <= written
      PROVE  \A i \in 1..Len(Append(streams[s].down, m)) : Append(streams[s].down, m)[i].k <= written
  BY <1>1, <1>2, <1>3, Queues
<1>4. \A t \in {"ack", "close"} : Frame(t) \in Message /\ Frame(t).k <= written BY <1>2, Frames
<1>5. \A k \in 0..written : Msg("sync", k) \in Message /\ Msg("sync", k).k <= written BY <1>2, Frames
<1> QED BY <1>1, <1>3, <1>4, <1>5

\* The handshake: the endpoint has a handle or the edge a refusal, and nothing else.
LEMMA EndpointAcquireKeeps == ASSUME Typed, Core, NEW s \in 1..Current, EndpointAcquire(s) PROVE Core'
<1>1. UNCHANGED <<conn, written, seen, edge>> /\ streams[s].own = "handshake" BY DEF EndpointAcquire
<1>2. PICK n \in Nodes : n = streams[s].node BY StreamFields
<1>3. streams[s].own \notin Holding /\ streams[s].own \notin Opened BY <1>1 DEF Holding, Opened
<1>4. PICK up, down, own :
        /\ Touched(s, up, down, streams[s].edge, own)
        /\ \A i \in 1..Len(down) : down[i].k <= written
        /\ own # "handshake" /\ own \notin Opened
        /\ own = "acquired" => down = streams[s].down
        /\ own \in Holding <=> CanAcquire(n)
  <2>0. /\ "acquired" \in Holding \ Opened /\ "acquired" # "handshake"
        /\ "done" \notin Holding \cup Opened /\ "done" # "handshake"
    BY DEF Holding, Opened
  <2>1. CASE CanAcquire(n)
    <3>1. Touched(s, Tail(streams[s].up), streams[s].down, streams[s].edge, "acquired")
      BY <1>2, <2>1, EndpointTouches DEF Core
    <3> QED BY <2>0, <2>1, <3>1, EndpointQueues
  <2>2. CASE ~CanAcquire(n)
    <3>1. Touched(s, <<>>, Append(streams[s].down, Frame("close")), streams[s].edge, "done")
      BY <1>2, <2>2, EndpointTouches DEF Core
    <3> QED BY <2>0, <2>2, <3>1, EndpointQueues
  <2> QED BY <2>1, <2>2
<1>5. Greeting' /\ Early'
  <2>1. Greeting' BY <1>4, TouchGreets DEF Core
  <2>2. streams[s].down = <<>> /\ ~(edge.at = "bridge" /\ s = Current) BY <1>1 DEF Core, Early, Unanswered
  <2>3. own \in Unanswered => down = <<>> BY <1>4, <2>2 DEF Unanswered, Opened
  <2>4. Early' BY <1>1, <1>4, <2>2, <2>3, TouchEarly DEF Core
  <2> QED BY <2>1, <2>4
<1>6. Bindings'
  <2>1. streams[s].own # "opened" BY <1>1
  <2> QED BY <1>1, <1>3, <1>4, <2>1, TouchBinds DEF Core
<1>7. Balanced'
  <2>1. CASE CanAcquire(n)
    <3>1. handles' = [handles EXCEPT ![streams[s].node] = @ + 1]
      BY <1>2, <2>1 DEF EndpointAcquire, Acquired
    <3> QED BY <1>1, <1>3, <1>4, <2>1, <3>1, EndpointAccounts DEF Core
  <2>2. CASE ~CanAcquire(n)
    <3>1. handles' = handles BY <1>2, <2>2 DEF EndpointAcquire
    <3>2. \A m \in Nodes : Holders(m)' = Holders(m) BY <1>3, <1>4, <2>2, TouchHolds
    <3> QED BY <1>1, <3>1, <3>2, SameAccounts DEF Core
  <2> QED BY <2>1, <2>2
<1>8. EpochsHeld' /\ \A m \in Nodes : conn'[m].epoch = epoch' => conn[m].epoch = epoch
  <2>1. CASE CanAcquire(n)
    <3>1. Acquired(n) BY <1>2, <2>1 DEF EndpointAcquire
    <3> QED BY <1>1, <2>1, <3>1, ClaimHolds DEF Core
  <2>2. CASE ~CanAcquire(n)
    <3>1. UNCHANGED <<owner, epoch>> BY <1>2, <2>2 DEF EndpointAcquire, lease
    <3> QED BY <1>1, <3>1 DEF Core, EpochsHeld
  <2> QED BY <2>1, <2>2
<1>9. Complete'
  <2>1. SentKnown' BY <1>1, <1>4, TouchKnown DEF Core, Complete
  <2>2. HasStream' BY <1>1, <1>4 DEF Core, Complete, HasStream, Touched
  <2>3. LocalComplete' BY <1>1, <1>8, ForwardingAssumption DEF Core, Complete, LocalComplete
  <2>4. RelayComplete'
    <3>1. Fed(s)' BY <1>4 DEF Fed, Touched, Opened
    <3>2. ASSUME NEW c \in 1..Current, c # s, Fed(c) PROVE Fed(c)'
      <4>1. streams'[c] = streams[c] /\ streams[c].node \in Nodes BY <1>4, <3>2, StreamFields DEF Touched
      <4> QED BY <1>1, <1>8, <3>2, <4>1, FedKept
    <3> QED BY <1>1, <1>4, <3>1, <3>2 DEF Core, Complete, RelayComplete, Touched
  <2> QED BY <2>1, <2>2, <2>3, <2>4 DEF Complete
<1> QED BY <1>5, <1>6, <1>7, <1>8, <1>9 DEF Core

\* The open, when the node owns the document: the connection is the stream's, and
\* it is current.
LEMMA EndpointOpenFits ==
  ASSUME Typed, Core, NEW s \in 1..Current, EndpointOpen(s), NEW n \in Nodes, n = streams[s].node,
         conn[n] = Free, owner = n
  PROVE  Core'
<1> DEFINE down == streams[s].down
<1>1. /\ UNCHANGED <<owner, epoch, handles, written, seen, edge>> /\ streams[s].own = "acquired"
      /\ conn' = [conn EXCEPT ![n] = [by |-> s, epoch |-> epoch]]
  BY DEF EndpointOpen, lease
<1>2. Touched(s, streams[s].up, down, streams[s].edge, "opened") BY EndpointTouches DEF Core, Fits
<1>3. \A i \in 1..Len(down) : down[i].k <= written BY EndpointQueues
<1>4. conn[n].by = None /\ n # Edge /\ s \in Nat /\ epoch # 0
  BY StreamFields DEF Free, Core, Bindings, Typed
<1>12. down = <<>> /\ ~(edge.at = "bridge" /\ s = Current) BY <1>1 DEF Core, Early, Unanswered
<1>5. /\ conn'[n].by = s /\ conn'[n].epoch = epoch
      /\ \A m \in Nodes \ {n} : conn'[m] = conn[m]
  BY <1>1 DEF Typed
<1>6. s # Edge /\ s # None /\ None # Edge BY <1>4, ForwardingAssumption
<1> HIDE DEF down
<1>7. Greeting' /\ Early'
  <2>1. Greeting' BY <1>2, TouchGreets DEF Core
  <2>2. Early' BY <1>1, <1>2, <1>12, TouchEarly DEF Core
  <2> QED BY <2>1, <2>2
<1>8. Bindings'
  <2>1. ASSUME NEW m \in Nodes, conn'[m].by \in Nat
        PROVE  /\ conn'[m].by \in 1..Current'
               /\ streams'[conn'[m].by].node = m
               /\ streams'[conn'[m].by].own \in Opened /\ conn'[m].epoch # 0
               /\ streams'[conn'[m].by].own # "opened" => conn'[m].epoch = streams'[conn'[m].by].epoch
    <3>1. CASE m = n BY <1>2, <1>4, <1>5, <3>1 DEF Touched, Opened
    <3>2. CASE m # n
      <4>1. conn'[m] = conn[m] BY <1>5, <3>2
      <4>2. /\ conn[m].by \in 1..Current /\ streams[conn[m].by].node = m
            /\ streams[conn[m].by].own \in Opened /\ conn[m].epoch # 0
            /\ streams[conn[m].by].own # "opened" => conn[m].epoch = streams[conn[m].by].epoch
        BY <2>1, <4>1 DEF Core, Bindings
      <4>3. conn[m].by # s BY <3>2, <4>2
      <4> QED BY <1>2, <4>1, <4>2, <4>3 DEF Touched
    <3> QED BY <3>1, <3>2
  <2>2. ASSUME NEW m \in Nodes PROVE conn'[m].by = Edge <=> (m = Edge /\ edge'.at \in Session)
    BY <1>1, <1>4, <1>5, <1>6 DEF Core, Bindings
  <2>3. ASSUME NEW t \in 1..Current
        PROVE  streams'[t].node # Edge /\ (streams'[t].own \in Opened => conn'[streams'[t].node].by = t)
    <3>1. CASE t = s BY <1>2, <1>4, <1>5, <3>1 DEF Touched
    <3>2. CASE t # s
      <4>1. /\ streams'[t] = streams[t] /\ streams[t].node # Edge /\ streams[t].node \in Nodes
            /\ streams[t].own \in Opened => conn[streams[t].node].by = t
        BY <1>2, <3>2, StreamFields DEF Touched, Core, Bindings
      <4>2. t # None BY ForwardingAssumption, StreamFields
      <4> QED BY <1>4, <1>5, <4>1, <4>2
    <3> QED BY <3>1, <3>2
  <2> QED BY <1>2, <2>1, <2>2, <2>3 DEF Bindings, Touched
<1>9. Balanced'
  <2>1. \A m \in Nodes : Holders(m)' = Holders(m) BY <1>1, <1>2, TouchHolds DEF Holding, Opened
  <2> QED BY <1>1, <2>1, SameAccounts DEF Core
<1>10. EpochsHeld'
  <2>1. epoch <= epoch BY DEF Typed
  <2> QED BY <1>1, <1>5, <2>1 DEF Core, EpochsHeld
<1>11. Complete'
  <2>1. SentKnown' BY <1>1, <1>2, <1>3, TouchKnown DEF Core, Complete
  <2>2. HasStream' BY <1>1, <1>2 DEF Core, Complete, HasStream, Touched
  <2>3. LocalComplete' BY <1>1, <1>4, <1>5, ForwardingAssumption DEF Core, Complete, LocalComplete
  <2>4. RelayComplete'
    <3>1. ~(edge.at = "bridge" /\ s = Current) BY <1>12
    <3>2. ASSUME NEW c \in 1..Current, c # s, Fed(c) PROVE Fed(c)'
      <4>1. streams'[c] = streams[c] /\ streams[c].node \in Nodes /\ c # None
        BY <1>2, <3>2, StreamFields, ForwardingAssumption DEF Touched
      <4>2. streams[c].own \in {"acked", "serving"} => conn[streams[c].node].by = c
        BY DEF Core, Bindings, Opened
      <4>3. streams[c].own \in {"acked", "serving"} => streams[c].node # n BY <1>4, <4>1, <4>2
      <4> QED BY <1>1, <1>5, <3>2, <4>1, <4>3, FedKept
    <3> QED BY <1>1, <1>2, <3>1, <3>2 DEF Core, Complete, RelayComplete, Touched
  <2> QED BY <2>1, <2>2, <2>3, <2>4 DEF Complete
<1> QED BY <1>7, <1>8, <1>9, <1>10, <1>11 DEF Core

\* The stream is over: its handle is given back, and the connection if it was its own.
LEMMA EndpointOver ==
  ASSUME Typed, Core, NEW s \in 1..Current, NEW n \in Nodes, n = streams[s].node,
         NEW up, NEW down, Touched(s, up, down, streams[s].edge, "done"),
         \A i \in 1..Len(down) : down[i].k <= written,
         UNCHANGED <<owner, epoch, written, seen, edge>>, streams[s].own \in Holding,
         handles' = [handles EXCEPT ![n] = @ - 1],
         \/ streams[s].own \notin Opened /\ conn' = conn
         \/ streams[s].own \in Opened /\ conn' = [conn EXCEPT ![n] = Free]
  PROVE  Core'
<1>0. "done" \notin Holding /\ "done" \notin Opened BY DEF Holding, Opened
<1>1. n # Edge /\ s \in Nat BY StreamFields DEF Core, Bindings
<1>2. \A m \in Nodes \ {n} : conn'[m] = conn[m] BY DEF Typed
<1>3. conn'[n] = conn[n] \/ (conn'[n].by = None /\ conn'[n].epoch = 0) BY DEF Typed, Free
<1>4. conn'[n].by # s
  <2>1. CASE streams[s].own \in Opened
    <3>1. conn'[n].by = None BY <2>1 DEF Typed, Free
    <3> QED BY <1>1, <3>1, ForwardingAssumption
  <2>2. CASE streams[s].own \notin Opened BY <2>2 DEF Core, Bindings
  <2> QED BY <2>1, <2>2
<1>5. \A t \in 1..Current : t # s /\ streams[t].own \in Opened => conn'[streams[t].node] = conn[streams[t].node]
  <2> SUFFICES ASSUME NEW t \in 1..Current, t # s, streams[t].own \in Opened
               PROVE  conn'[streams[t].node] = conn[streams[t].node]
    OBVIOUS
  <2>1. streams[t].node \in Nodes /\ conn[streams[t].node].by = t BY StreamFields DEF Core, Bindings
  <2>2. CASE streams[s].own \in Opened
    <3>1. conn[n].by = s BY <2>2 DEF Core, Bindings
    <3> QED BY <1>2, <2>1, <3>1
  <2>3. CASE streams[s].own \notin Opened BY <2>3
  <2> QED BY <2>2, <2>3
<1>6. Greeting' /\ Early'
  <2>1. Greeting' BY TouchGreets DEF Core
  <2>2. Early' BY TouchEarly DEF Core, Unanswered
  <2> QED BY <2>1, <2>2
<1>7. Bindings'
  <2>1. ASSUME NEW m \in Nodes, conn'[m].by \in Nat
        PROVE  /\ conn'[m].by \in 1..Current'
               /\ streams'[conn'[m].by].node = m
               /\ streams'[conn'[m].by].own \in Opened /\ conn'[m].epoch # 0
               /\ streams'[conn'[m].by].own # "opened" => conn'[m].epoch = streams'[conn'[m].by].epoch
    <3>1. conn'[m] = conn[m] BY <1>2, <1>3, <2>1, ForwardingAssumption
    <3>2. /\ conn[m].by \in 1..Current /\ streams[conn[m].by].node = m
          /\ streams[conn[m].by].own \in Opened /\ conn[m].epoch # 0
          /\ streams[conn[m].by].own # "opened" => conn[m].epoch = streams[conn[m].by].epoch
      BY <2>1, <3>1 DEF Core, Bindings
    <3>3. conn[m].by # s BY <1>4, <3>1, <3>2
    <3> QED BY <3>1, <3>2, <3>3 DEF Touched
  <2>2. ASSUME NEW m \in Nodes PROVE conn'[m].by = Edge <=> (m = Edge /\ edge'.at \in Session)
    BY <1>1, <1>2, <1>3, ForwardingAssumption DEF Core, Bindings
  <2>3. ASSUME NEW t \in 1..Current
        PROVE  streams'[t].node # Edge /\ (streams'[t].own \in Opened => conn'[streams'[t].node].by = t)
    <3>1. CASE t = s BY <1>0, <1>1, <3>1 DEF Touched
    <3>2. CASE t # s BY <1>5, <3>2 DEF Touched, Core, Bindings
    <3> QED BY <3>1, <3>2
  <2> QED BY <2>1, <2>2, <2>3 DEF Bindings, Touched
<1>8. Balanced' BY <1>0, EndpointAccounts DEF Core
<1>9. EpochsHeld'
  <2>1. epoch \in Nat \ {0} BY DEF Typed
  <2>2. ASSUME NEW m \in Nodes PROVE conn'[m].epoch <= epoch /\ (conn'[m].epoch = epoch => owner \in {m, None})
    <3>1. CASE conn'[m] = conn[m] BY <3>1 DEF Core, EpochsHeld
    <3>2. CASE conn'[m].epoch = 0 BY <2>1, <3>2
    <3> QED BY <1>2, <1>3, <3>1, <3>2
  <2> QED BY <2>2 DEF EpochsHeld
<1>10. Complete'
  <2>1. SentKnown' BY TouchKnown DEF Core, Complete
  <2>2. HasStream' BY DEF Core, Complete, HasStream, Touched
  <2>3. LocalComplete' BY <1>1, <1>2, ForwardingAssumption DEF Core, Complete, LocalComplete
  <2>4. RelayComplete'
    <3>1. Fed(s)' BY DEF Fed, Touched
    <3>2. ASSUME NEW c \in 1..Current, c # s, Fed(c) PROVE Fed(c)'
      <4>1. streams'[c] = streams[c] BY <3>2 DEF Touched
      <4> QED BY <1>5, <3>2, <4>1, FedKept DEF Opened
    <3> QED BY <3>1, <3>2 DEF Core, Complete, RelayComplete, Touched
  <2> QED BY <2>1, <2>2, <2>3, <2>4 DEF Complete
<1> QED BY <1>6, <1>7, <1>8, <1>9, <1>10 DEF Core

\* An open that is refused, an epoch that is not the edge's, and the cleanup.
LEMMA EndpointEnds ==
  ASSUME Typed, Core, NEW s \in 1..Current,
         EndpointOpen(s) \/ (EndpointAck(s) /\ ~Agrees(s)) \/ EndpointCleanup(s)
  PROVE  Core'
<1>0. PICK n \in Nodes : n = streams[s].node BY StreamFields
<1> DEFINE fits == conn[n] = Free /\ owner = n
<1>1. CASE EndpointOpen(s) /\ fits BY <1>0, <1>1, EndpointOpenFits
<1>2. CASE EndpointOpen(s) /\ ~fits
  <2>1. /\ UNCHANGED <<owner, epoch, written, seen, edge, conn>> /\ streams[s].own = "acquired"
        /\ handles' = [handles EXCEPT ![n] = @ - 1]
    BY <1>0, <1>2 DEF EndpointOpen, lease
  <2>2. streams[s].own \in Holding /\ streams[s].own \notin Opened BY <2>1 DEF Holding, Opened
  <2>3. CASE conn[n] # Free
    <3>1. Touched(s, streams[s].up, streams[s].down, streams[s].edge, "done")
      BY <1>0, <1>2, <2>3, EndpointTouches DEF Core
    <3> QED BY <1>0, <2>1, <2>2, <3>1, EndpointQueues, EndpointOver
  <2>4. CASE conn[n] = Free
    <3>1. Touched(s, <<>>, Append(streams[s].down, Frame("close")), streams[s].edge, "done")
      BY <1>0, <1>2, <2>4, EndpointTouches DEF Core, Fits
    <3> QED BY <1>0, <2>1, <2>2, <3>1, EndpointQueues, EndpointOver
  <2> QED BY <2>3, <2>4
<1>4. CASE EndpointAck(s) /\ ~Agrees(s)
  <2>1. /\ UNCHANGED <<owner, epoch, written, seen, edge>> /\ streams[s].own = "opened"
        /\ handles' = [handles EXCEPT ![n] = @ - 1] /\ conn' = [conn EXCEPT ![n] = Free]
    BY <1>0, <1>4 DEF EndpointAck, Agrees, lease
  <2>2. streams[s].own \in Holding /\ streams[s].own \in Opened BY <2>1 DEF Holding, Opened
  <2>3. Touched(s, <<>>, Append(streams[s].down, Frame("close")), streams[s].edge, "done")
    BY <1>4, EndpointTouches DEF Core
  <2> QED BY <1>0, <2>1, <2>2, <2>3, EndpointQueues, EndpointOver
<1>3. CASE EndpointCleanup(s)
  <2>1. /\ UNCHANGED <<owner, epoch, written, seen, edge>> /\ streams[s].own = "closing"
        /\ handles' = [handles EXCEPT ![n] = @ - 1] /\ conn' = [conn EXCEPT ![n] = Free]
    BY <1>0, <1>3 DEF EndpointCleanup, lease
  <2>2. streams[s].own \in Holding /\ streams[s].own \in Opened BY <2>1 DEF Holding, Opened
  <2>3. Touched(s, <<>>, streams[s].down, streams[s].edge, "done") BY <1>3, EndpointTouches DEF Core
  <2> QED BY <1>0, <2>1, <2>2, <2>3, EndpointQueues, EndpointOver
<1> QED BY <1>1, <1>2, <1>3, <1>4

\* A step of a stream that is open stays on the same side of everything: what is
\* left is that the browser will be sent what it lacks.
LEMMA EndpointServes ==
  ASSUME Typed, Core, NEW s \in 1..Current, NEW up, NEW down, NEW own,
         Touched(s, up, down, streams[s].edge, own),
         UNCHANGED <<owner, epoch, conn, handles, written, seen, edge>>,
         own \in Opened \ {"opened"}, streams[s].own \in Opened,
         streams[s].own # "opened" \/ conn[streams[s].node].epoch = streams[s].epoch,
         \A i \in 1..Len(down) : down[i].k <= written,
         streams[s].own # "opened" /\ Fed(s) => Fed(s)'
  PROVE  Core'
<1>1. Greeting' BY TouchGreets DEF Core, Opened
<1>2. Early' BY TouchEarly DEF Core, Opened, Unanswered
<1>3. Bindings' BY TouchBinds DEF Core
<1>4. Balanced'
  <2>1. \A m \in Nodes : Holders(m)' = Holders(m) BY TouchHolds DEF Holding
  <2> QED BY <2>1, SameAccounts DEF Core
<1>5. EpochsHeld' BY DEF Core, EpochsHeld
<1>6. Complete'
  <2>1. SentKnown' BY TouchKnown DEF Core, Complete
  <2>2. HasStream' /\ LocalComplete' BY DEF Core, Complete, HasStream, LocalComplete, Touched
  <2>3. RelayComplete'
    <3>1. \A c \in 1..Current : c # s /\ Fed(c) => Fed(c)' BY FedKept DEF Touched
    <3>2. streams[s].own = "opened" => ~(edge.at = "bridge" /\ s = Current) BY DEF Core, Early, Unanswered
    <3> QED BY <3>1, <3>2 DEF Core, Complete, RelayComplete, Touched
  <2> QED BY <2>1, <2>2, <2>3 DEF Complete
<1> QED BY <1>1, <1>2, <1>3, <1>4, <1>5, <1>6 DEF Core

\* The endpoint acknowledges, registers, sees the end of the stream, or finds its
\* authority lost.
LEMMA EndpointTurns ==
  ASSUME Typed, Core, NEW s \in 1..Current,
         (EndpointAck(s) /\ Agrees(s)) \/ EndpointRegister(s) \/ EndpointEOF(s) \/ EndpointRevalidate(s)
  PROVE  Core'
<1>1. UNCHANGED <<owner, epoch, conn, handles, written, seen, edge>> /\ streams[s].own \in Opened
  BY DEF EndpointAck, Agrees, EndpointRegister, EndpointEOF, EndpointRevalidate, Opened, lease
<1>6. streams[s].own # "opened" \/ conn[streams[s].node].epoch = streams[s].epoch
  <2>1. CASE EndpointAck(s) /\ Agrees(s)
    <3>1. conn[streams[s].node].by = s /\ streams[s].node \in Nodes /\ s \in Nat
      BY <1>1, StreamFields DEF Core, Bindings
    <3>2. conn[streams[s].node].epoch # 0 BY <3>1 DEF Core, Bindings
    <3> QED BY <2>1, <3>2 DEF Agrees, SameEpoch
  <2>2. CASE EndpointRegister(s) \/ EndpointEOF(s) \/ EndpointRevalidate(s)
    BY <2>2 DEF EndpointRegister, EndpointEOF, EndpointRevalidate
  <2> QED BY <2>1, <2>2
<1>2. CASE EndpointRegister(s)
  <2>1. Touched(s, streams[s].up, streams[s].down, streams[s].edge, "serving")
    BY <1>2, EndpointTouches DEF Core
  <2>2. streams[s].own = "acked" BY <1>2 DEF EndpointRegister
  <2>3. Fed(s) => Fed(s)' BY <1>1, <2>1, <2>2 DEF Fed, Asked, Touched
  <2>4. "serving" \in Opened \ {"opened"} BY DEF Opened
  <2> QED BY <1>1, <1>6, <2>1, <2>3, <2>4, EndpointQueues, EndpointServes
<1>3. ASSUME NEW down, Touched(s, streams[s].up, down, streams[s].edge, "closing"),
             \A i \in 1..Len(down) : down[i].k <= written
      PROVE  Core'
  <2>1. Fed(s)' BY <1>3 DEF Fed, Touched
  <2> QED BY <1>1, <1>3, <1>6, <2>1, EndpointServes DEF Opened
<1>7. CASE EndpointAck(s) /\ Agrees(s)
  <2> DEFINE down == Append(streams[s].down, Frame("ack"))
  <2>1. CASE Touched(s, streams[s].up, down, streams[s].edge, "acked")
    <3>1. streams[s].own = "opened" BY <1>7 DEF EndpointAck
    <3>2. \A i \in 1..Len(down) : down[i].k <= written BY EndpointQueues
    <3>3. "acked" \in Opened \ {"opened"} BY DEF Opened
    <3> HIDE DEF down
    <3> QED BY <1>1, <1>6, <2>1, <3>1, <3>2, <3>3, EndpointServes
  <2>2. CASE Touched(s, streams[s].up, streams[s].down, streams[s].edge, "closing")
    BY <1>3, <2>2, EndpointQueues
  <2> QED BY <1>7, <2>1, <2>2, EndpointTouches DEF Core
<1>4. CASE EndpointEOF(s)
  <2>1. Touched(s, streams[s].up, streams[s].down, streams[s].edge, "closing")
    BY <1>4, EndpointTouches DEF Core
  <2> QED BY <1>3, <2>1, EndpointQueues
<1>5. CASE EndpointRevalidate(s)
  <2>1. \/ Touched(s, streams[s].up, streams[s].down, streams[s].edge, "closing")
        \/ Touched(s, streams[s].up, Append(streams[s].down, Frame("close")), streams[s].edge, "closing")
    BY <1>5, EndpointTouches DEF Core
  <2> QED BY <1>3, <2>1, EndpointQueues
<1> QED BY <1>2, <1>4, <1>5, <1>7

\* The endpoint reads a message: a request for the document is answered with all
\* that is written, or the stream closes.
LEMMA EndpointReceiveKeeps == ASSUME Typed, Core, NEW s \in 1..Current, EndpointReceive(s) PROVE Core'
<1> DEFINE q == streams[s].up
           m == Head(q)
           up == Tail(q)
<1>1. /\ UNCHANGED <<owner, epoch, conn, handles, written, seen, edge>>
      /\ streams[s].own = "serving" /\ streams[s].own \in Opened /\ q # <<>>
  BY DEF EndpointReceive, Opened, lease
<1>2. q \in Seq(Message) /\ streams[s].down \in Seq(Message) /\ Frame("sync") \in Message
  BY StreamFields, Frames
<1>3. \A j \in 1..Len(q) : q[j] = m \/ \E i \in 1..Len(up) : up[i] = q[j] BY <1>1, <1>2, Queues
<1>4. Asked(s) => m.type = "sync" \/ \E i \in 1..Len(up) : up[i].type = "sync" BY <1>3 DEF Asked
<1>5. ASSUME NEW down, Touched(s, up, down, streams[s].edge, "closing"),
             \A i \in 1..Len(down) : down[i].k <= written
      PROVE  Core'
  <2>1. Fed(s)' BY <1>5 DEF Fed, Touched
  <2>2. "closing" \in Opened \ {"opened"} /\ streams[s].own # "opened" BY <1>1 DEF Opened
  <2> QED BY <1>1, <1>5, <2>1, <2>2, EndpointServes
<1>6. CASE Touched(s, up, streams[s].down, streams[s].edge, "closing") BY <1>5, <1>6, EndpointQueues
<1>7. CASE Touched(s, up, Append(streams[s].down, Frame("close")), streams[s].edge, "closing")
  BY <1>5, <1>7, EndpointQueues
<1>8. ASSUME m.type = "sync", NEW k \in Answers(streams[s].node),
             Touched(s, up, Append(streams[s].down, Msg("sync", k)), streams[s].edge, streams[s].own)
      PROVE  Core'
  <2> DEFINE down == Append(streams[s].down, Msg("sync", k))
  <2>1. k \in 0..written /\ (conn[streams[s].node].epoch = epoch => k = written) BY DEF Answers, Typed
  <2>2. \A i \in 1..Len(down) : down[i].k <= written BY <2>1, EndpointQueues
  <2>3. Msg("sync", k) \in Message /\ Msg("sync", k).k = k BY <2>1, Frames DEF Typed
  <2>4. \E i \in 1..Len(down) : down[i].k = k
    <3>1. \E i \in 1..Len(down) : down[i] = Msg("sync", k) BY <1>2, <2>3, Queues
    <3> QED BY <2>3, <3>1
  <2>6. Touched(s, up, down, streams[s].edge, streams[s].own) BY <1>8
  <2> HIDE DEF down, up
  <2>5. Fed(s)' BY <1>1, <2>1, <2>4, <2>6 DEF Fed, Sent, Touched
  <2> QED BY <1>1, <2>2, <2>5, <2>6, EndpointServes
<1>9. CASE m.type = "update" /\ Touched(s, up, streams[s].down, streams[s].edge, streams[s].own)
  <2>2. Asked(s) => \E i \in 1..Len(up) : up[i].type = "sync" BY <1>4, <1>9
  <2>3. Sent(s) => \E i \in 1..Len(streams[s].down) : streams[s].down[i].k = written BY DEF Sent
  <2> HIDE DEF up
  <2>4. Fed(s) => Fed(s)' BY <1>1, <1>9, <2>2, <2>3, FedOn
  <2> QED BY <1>1, <1>9, <2>4, EndpointQueues, EndpointServes
<1> QED BY <1>6, <1>7, <1>8, <1>9, EndpointTouches DEF Core

-----------------------------------------------------------------------------
(* The local session.                                                      *)

\* The streams do not change, and the handler is at no relay afterwards.
LocalStep ==
  /\ UNCHANGED <<streams, written>> /\ edge' \in EdgeState
  /\ edge'.at \notin {"ack", "bridge"}
  /\ \A n \in Nodes \ {Edge} : conn'[n] = conn[n] /\ handles'[n] = handles[n]
  /\ handles' \in [Nodes -> Int]

\* What the local steps share: the streams' side of the invariant.
LEMMA LocalKeeps ==
  ASSUME Typed, Core, LocalStep
  PROVE  /\ Greeting' /\ Early' /\ SentKnown' /\ HasStream' /\ RelayComplete'
         /\ (conn'[Edge].by \notin Nat /\ (conn'[Edge].by = Edge <=> edge'.at \in Session) => Bindings')
         /\ (handles'[Edge] - handles[Edge] = Local(Edge)' - Local(Edge) => Balanced')
<1>1. UNCHANGED <<streams, written>> /\ Current' = Current /\ edge'.at \notin {"ack", "bridge"}
  BY DEF LocalStep, Current
<1>2. Greeting' /\ Early' BY <1>1 DEF Core, Greeting, Early
<1>3. SentKnown' /\ HasStream' /\ RelayComplete' BY <1>1 DEF Core, Complete, SentKnown, HasStream, RelayComplete
<1>4. ASSUME conn'[Edge].by \notin Nat, conn'[Edge].by = Edge <=> edge'.at \in Session PROVE Bindings'
  <2>1. \A n \in Nodes : conn'[n].by \in Nat => n # Edge /\ conn'[n] = conn[n] BY <1>4 DEF LocalStep
  <2>2. \A n \in Nodes : conn'[n].by = Edge <=> (n = Edge /\ edge'.at \in Session)
    BY <1>4 DEF LocalStep, Core, Bindings
  <2>3. \A s \in 1..Current : streams[s].node # Edge /\ streams[s].node \in Nodes
    BY StreamFields DEF Core, Bindings
  <2>4. \A s \in 1..Current : conn'[streams[s].node] = conn[streams[s].node] BY <2>3 DEF LocalStep
  <2> QED BY <1>1, <2>1, <2>2, <2>3, <2>4 DEF Core, Bindings
<1>5. ASSUME handles'[Edge] - handles[Edge] = Local(Edge)' - Local(Edge) PROVE Balanced'
  <2>1. \A n \in Nodes : Holders(n)' = Holders(n) BY <1>1 DEF Holders
  <2>2. \A n \in Nodes : Cardinality(Holders(n)) \in Nat BY HoldersFinite
  <2>3. /\ \A n \in Nodes : Local(n) \in {0, 1} /\ Local(n)' \in {0, 1}
        /\ \A n \in Nodes \ {Edge} : Local(n)' = Local(n)
    BY DEF Local
  <2>4. \A n \in Nodes : handles'[n] = Cardinality(Holders(n)) + Local(n)'
    <3>1. handles'[Edge] = Cardinality(Holders(Edge)) + Local(Edge)'
      <4>1. handles'[Edge] \in Int /\ handles[Edge] \in Nat /\ handles[Edge] = Cardinality(Holders(Edge)) + Local(Edge)
        BY ForwardingAssumption DEF LocalStep, Core, Balanced
      <4> QED BY <1>5, <2>2, <2>3, <4>1, ForwardingAssumption
    <3>2. \A n \in Nodes \ {Edge} : handles'[n] = Cardinality(Holders(n)) + Local(n)'
      BY <2>3 DEF LocalStep, Core, Balanced
    <3> QED BY <3>1, <3>2
  <2>5. handles' \in [Nodes -> Nat] BY <2>2, <2>3, <2>4 DEF LocalStep
  <2> QED BY <2>1, <2>4, <2>5 DEF Balanced
<1> QED BY <1>2, <1>3, <1>4, <1>5

\* The claim before a local session.
LEMMA AcquireLocalKeeps == ASSUME Typed, Core, AcquireLocal PROVE Core'
<1>0. Edge \in Nodes /\ handles \in [Nodes -> Nat] BY ForwardingAssumption DEF Core, Balanced
<1>1. UNCHANGED <<conn, streams, written, seen>> BY DEF AcquireLocal
<1>2. conn[Edge].by \notin Nat /\ edge.at = "acquire" /\ conn[Edge].by # Edge
  BY <1>0, StreamFields DEF AcquireLocal, Core, Bindings, Session
<1>3. CASE CanAcquire(Edge)
  <2>1. EdgeGoes({"acquire"}, {"open"}) BY <1>3, EdgeMoves
  <2>2. Acquired(Edge) /\ handles' = [handles EXCEPT ![Edge] = @ + 1] BY <1>3 DEF AcquireLocal, Acquired
  <2>3. LocalStep BY <1>0, <1>1, <2>1, <2>2 DEF LocalStep, EdgeGoes
  <2>4. handles'[Edge] - handles[Edge] = Local(Edge)' - Local(Edge)
    BY <1>0, <2>1, <2>2 DEF EdgeGoes, Local, Handled, Session
  <2>5. EpochsHeld' BY <1>0, <1>1, <1>3, <2>2, ClaimHolds DEF Core
  <2>6. LocalComplete' BY <2>1 DEF LocalComplete, EdgeGoes
  <2> QED BY <1>1, <1>2, <2>1, <2>3, <2>4, <2>5, <2>6, LocalKeeps DEF Core, Complete, EdgeGoes, Session
<1>4. CASE ~CanAcquire(Edge)
  <2>1. EdgeGoes({"acquire"}, {"done"}) BY <1>4, EdgeMoves
  <2>2. UNCHANGED <<owner, epoch, handles>> BY <1>4 DEF AcquireLocal, lease
  <2>3. LocalStep BY <1>0, <1>1, <2>1, <2>2 DEF LocalStep, EdgeGoes
  <2>4. handles'[Edge] - handles[Edge] = Local(Edge)' - Local(Edge)
    BY <1>0, <2>1, <2>2 DEF EdgeGoes, Local, Handled, Session
  <2>5. EpochsHeld' BY <1>1, <2>2 DEF Core, EpochsHeld
  <2>6. LocalComplete' BY <2>1 DEF LocalComplete, EdgeGoes
  <2> QED BY <1>1, <1>2, <2>1, <2>3, <2>4, <2>5, <2>6, LocalKeeps DEF Core, Complete, EdgeGoes, Session
<1> QED BY <1>3, <1>4

\* The open: the connection has the node's epoch, or the handle goes back.
LEMMA OpenLocalKeeps == ASSUME Typed, Core, OpenLocal PROVE Core'
<1>0. Edge \in Nodes /\ handles \in [Nodes -> Nat] BY ForwardingAssumption DEF Core, Balanced
<1>1. UNCHANGED <<owner, epoch, streams, written>> BY DEF OpenLocal, lease
<1>2. CASE owner = Edge /\ conn[Edge] = Free
  <2>1. EdgeGoes({"open"}, {"bootstrap"}) BY <1>2, EdgeMoves
  <2>2. /\ conn' = [conn EXCEPT ![Edge] = [by |-> Edge, epoch |-> epoch]]
        /\ handles' = handles
    BY <1>2 DEF OpenLocal
  <2>3. /\ conn'[Edge].by = Edge /\ conn'[Edge].epoch = epoch
        /\ \A n \in Nodes \ {Edge} : conn'[n] = conn[n]
    BY <1>0, <2>2 DEF Typed
  <2>4. LocalStep BY <1>0, <1>1, <2>1, <2>2, <2>3 DEF LocalStep, EdgeGoes
  <2>5. handles'[Edge] - handles[Edge] = Local(Edge)' - Local(Edge)
    BY <1>0, <2>1, <2>2 DEF EdgeGoes, Local, Handled, Session
  <2>6. EpochsHeld'
    <3>1. epoch <= epoch BY DEF Typed
    <3> QED BY <1>1, <1>2, <2>3, <3>1 DEF Core, EpochsHeld
  <2>7. LocalComplete' BY <2>1 DEF LocalComplete, EdgeGoes
  <2>8. conn'[Edge].by \notin Nat BY <2>3, ForwardingAssumption
  <2> QED BY <2>1, <2>3, <2>4, <2>5, <2>6, <2>7, <2>8, LocalKeeps DEF Core, Complete, EdgeGoes, Session
<1>3. CASE ~(owner = Edge /\ conn[Edge] = Free)
  <2>1. EdgeGoes({"open"}, {"done"}) BY <1>3, EdgeMoves
  <2>2. handles' = [handles EXCEPT ![Edge] = @ - 1] /\ conn' = conn BY <1>3 DEF OpenLocal
  <2>3. LocalStep BY <1>0, <1>1, <2>1, <2>2 DEF LocalStep, EdgeGoes
  <2>4. handles'[Edge] - handles[Edge] = Local(Edge)' - Local(Edge)
    BY <1>0, <2>1, <2>2 DEF EdgeGoes, Local, Handled, Session
  <2>5. EpochsHeld' BY <1>1, <2>2 DEF Core, EpochsHeld
  <2>6. LocalComplete' BY <2>1 DEF LocalComplete, EdgeGoes
  <2>7. conn[Edge].by \notin Nat /\ conn[Edge].by # Edge
    BY <1>0, <2>1, StreamFields DEF Core, Bindings, EdgeGoes, Session
  <2> QED BY <2>1, <2>2, <2>3, <2>4, <2>5, <2>6, <2>7, LocalKeeps DEF Core, Complete, EdgeGoes, Session
<1> QED BY <1>2, <1>3

\* The bootstrap: the browser gets the document as the room has it.
LEMMA BootstrapKeeps == ASSUME Typed, Core, BootstrapLocal PROVE Core'
<1>0. Edge \in Nodes /\ handles \in [Nodes -> Nat] BY ForwardingAssumption DEF Core, Balanced
<1>1. UNCHANGED <<owner, epoch, conn, handles, streams, written>> BY DEF BootstrapLocal, lease
<1>2. EdgeGoes({"bootstrap"}, {"local"}) BY EdgeMoves
<1>3. LocalStep BY <1>0, <1>1, <1>2 DEF LocalStep, EdgeGoes
<1>4. handles'[Edge] - handles[Edge] = Local(Edge)' - Local(Edge)
  BY <1>0, <1>1, <1>2 DEF EdgeGoes, Local, Handled, Session
<1>5. EpochsHeld' BY <1>1 DEF Core, EpochsHeld
<1>6. LocalComplete'
  <2>1. PICK k \in Answers(Edge) : seen' = Later(k) BY DEF BootstrapLocal
  <2>2. conn[Edge].epoch = epoch => seen' = written BY <2>1 DEF Answers, Later, Typed
  <2> QED BY <1>1, <2>2 DEF LocalComplete
<1>7. conn[Edge].by = Edge /\ conn[Edge].by \notin Nat
  BY <1>0, <1>2, ForwardingAssumption DEF Core, Bindings, EdgeGoes, Session
<1> QED BY <1>1, <1>2, <1>3, <1>4, <1>5, <1>6, <1>7, LocalKeeps DEF Core, Complete, EdgeGoes, Session

\* The end of a local session closes its connection and gives its handle back.
LEMMA CloseLocalKeeps ==
  ASSUME Typed, Core, LeaveLocal \/ EndLocal \/ BootstrapLost \/ BootstrapFails PROVE Core'
<1>0. Edge \in Nodes /\ handles \in [Nodes -> Nat] BY ForwardingAssumption DEF Core, Balanced
<1>1. /\ UNCHANGED <<owner, epoch, streams, written>>
      /\ conn' = [conn EXCEPT ![Edge] = Free] /\ handles' = [handles EXCEPT ![Edge] = @ - 1]
  BY DEF LeaveLocal, EndLocal, BootstrapLost, BootstrapFails, ClosedLocal, lease
<1>2. EdgeGoes(Session, {"rebind", "done"}) BY EdgeMoves
<1>3. /\ conn'[Edge].by = None /\ conn'[Edge].epoch = 0
      /\ \A n \in Nodes \ {Edge} : conn'[n] = conn[n]
  BY <1>0, <1>1 DEF Typed, Free
<1>4. LocalStep BY <1>0, <1>1, <1>2, <1>3 DEF LocalStep, EdgeGoes
<1>5. handles'[Edge] - handles[Edge] = Local(Edge)' - Local(Edge)
  BY <1>0, <1>1, <1>2 DEF EdgeGoes, Local, Handled, Session
<1>6. EpochsHeld'
  <2>1. epoch \in Nat \ {0} BY DEF Typed
  <2> QED BY <1>1, <1>3, <2>1 DEF Core, EpochsHeld
<1>7. LocalComplete' BY <1>2 DEF LocalComplete, EdgeGoes
<1>8. conn'[Edge].by \notin Nat /\ conn'[Edge].by # Edge BY <1>3, ForwardingAssumption
<1> QED BY <1>2, <1>4, <1>5, <1>6, <1>7, <1>8, LocalKeeps DEF Core, Complete, EdgeGoes, Session

-----------------------------------------------------------------------------
(* The lease and the other clients.                                        *)

\* A lease that moves or expires leaves streams and connections for the
\* revalidators: no connection becomes current by it.
LEMMA LeaseKeeps == ASSUME Typed, Core, Expire \/ \E n \in Nodes : MoveOwner(n) PROVE Core'
<1>1. UNCHANGED <<conn, handles, edge, streams, written, seen>> /\ Current' = Current
  BY DEF Expire, MoveOwner, Current
<1>2. EpochsHeld' /\ \A m \in Nodes : conn[m].epoch = epoch' => conn[m].epoch = epoch
  <2>1. \A m \in Nodes : conn[m].epoch \in Nat /\ conn[m].epoch <= epoch BY DEF Typed, Core, EpochsHeld
  <2>2. epoch \in Nat BY DEF Typed
  <2>3. CASE Expire
    <3>1. owner' = None /\ epoch' = epoch BY <2>3 DEF Expire
    <3> QED BY <1>1, <2>1, <3>1 DEF EpochsHeld
  <2>4. CASE \E n \in Nodes : MoveOwner(n)
    <3>1. epoch' = epoch + 1 BY <2>4 DEF MoveOwner
    <3>2. \A m \in Nodes : conn[m].epoch <= epoch' /\ conn[m].epoch # epoch' BY <2>1, <2>2, <3>1
    <3> QED BY <1>1, <3>2 DEF EpochsHeld
  <2> QED BY <2>3, <2>4
<1>3. Greeting' /\ Early' BY <1>1 DEF Core, Greeting, Early
<1>4. Bindings' BY <1>1 DEF Core, Bindings
<1>5. Balanced'
  <2>1. \A n \in Nodes : Holders(n)' = Holders(n) BY <1>1 DEF Holders
  <2> QED BY <1>1, <2>1, SameAccounts DEF Core
<1>6. Complete'
  <2>1. SentKnown' /\ HasStream' BY <1>1 DEF Core, Complete, SentKnown, HasStream
  <2>2. LocalComplete' BY <1>1, <1>2, ForwardingAssumption DEF Core, Complete, LocalComplete
  <2>3. RelayComplete'
    <3>1. \A c \in 1..Current : streams[c].node \in Nodes BY StreamFields
    <3>2. \A c \in 1..Current : Fed(c) => Fed(c)' BY <1>1, <1>2, <3>1, FedKept
    <3> QED BY <1>1, <3>2 DEF Core, Complete, RelayComplete
  <2> QED BY <2>1, <2>2, <2>3 DEF Complete
<1> QED BY <1>2, <1>3, <1>4, <1>5, <1>6 DEF Core

\* A write of another client reaches the browser's session, or the stream that
\* serves it has it under way; a session of an older epoch is not current.
LEMMA WriteKeeps == ASSUME Typed, Core, NEW n \in Nodes, OtherWrites(n) PROVE Core'
<1>1. /\ UNCHANGED <<owner, epoch, conn, handles, edge>> /\ written' = written + 1 /\ written \in Nat
      /\ owner = n /\ n # None
      /\ seen' = IF conn[n].by = Edge THEN written + 1 ELSE seen
  BY ForwardingAssumption DEF OtherWrites, lease, Typed
<1> DEFINE m == Msg("update", written + 1)
<1>2. /\ Current' = Current
      /\ \A s \in 1..Current :
           /\ streams'[s].node = streams[s].node /\ streams'[s].epoch = streams[s].epoch
           /\ streams'[s].own = streams[s].own /\ streams'[s].up = streams[s].up
           /\ streams'[s].down = IF conn[n].by = s /\ streams[s].own = "serving"
                                   THEN Append(streams[s].down, m) ELSE streams[s].down
  BY Writing
<1>3. m \in Message /\ m.k = written + 1 BY <1>1, Frames
<1> HIDE DEF m
<1>4. Greeting' BY <1>2 DEF Core, Greeting
<1>5. Early' BY <1>1, <1>2 DEF Core, Early, Unanswered
<1>6. Bindings' BY <1>1, <1>2 DEF Core, Bindings
<1>7. Balanced'
  <2>1. \A k \in Nodes : Holders(k)' = Holders(k) BY <1>2 DEF Holders
  <2> QED BY <1>1, <2>1, SameAccounts DEF Core
<1>8. EpochsHeld' BY <1>1 DEF Core, EpochsHeld
<1>9. SentKnown'
  <2>1. ASSUME NEW s \in 1..Current, NEW i \in 1..Len(streams'[s].down)
        PROVE  streams'[s].down[i].k <= written + 1
    <3>1. \A j \in 1..Len(streams[s].down) : streams[s].down[j].k \in Nat /\ streams[s].down[j].k <= written + 1
      <4>1. \A j \in 1..Len(streams[s].down) : streams[s].down[j] \in Message BY StreamFields, ElementOfSeq
      <4> QED BY <1>1, <4>1 DEF Message, Core, Complete, SentKnown
    <3>2. CASE streams'[s].down = streams[s].down BY <2>1, <3>1, <3>2
    <3>3. CASE streams'[s].down = Append(streams[s].down, m)
      <4>1. streams'[s].down[i] = m \/ \E j \in 1..Len(streams[s].down) : streams'[s].down[i] = streams[s].down[j]
        BY <1>3, <2>1, <3>3, StreamFields, Queues
      <4> QED BY <1>1, <1>3, <3>1, <4>1
    <3> QED BY <1>2, <3>2, <3>3
  <2> QED BY <1>1, <1>2, <2>1 DEF SentKnown
<1>10. HasStream' BY <1>1, <1>2 DEF Core, Complete, HasStream
<1>11. LocalComplete'
  <2> SUFFICES ASSUME edge.at = "local", conn[Edge].epoch = epoch PROVE seen' = written'
    BY <1>1 DEF LocalComplete
  <2>1. n = Edge BY <1>1, ForwardingAssumption DEF Core, EpochsHeld
  <2>2. conn[n].by = Edge BY <2>1 DEF Core, Bindings, Session
  <2> QED BY <1>1, <2>2
<1>12. RelayComplete'
  <2> SUFFICES ASSUME NEW s \in 1..Current, Fed(s) PROVE Fed(s)'
    BY <1>1, <1>2 DEF Core, Complete, RelayComplete
  <2> SUFFICES ASSUME streams[s].own \in {"acked", "serving"}, conn[streams[s].node].epoch = epoch
               PROVE  Asked(s)' \/ (streams[s].own = "serving" /\ Sent(s)')
    BY <1>1, <1>2 DEF Fed
  <2>1. Asked(s)' <=> Asked(s) BY <1>2 DEF Asked
  <2>2. streams[s].node = n /\ conn[n].by = s
    <3>1. streams[s].node \in Nodes /\ conn[streams[s].node].by = s BY StreamFields DEF Core, Bindings, Opened
    <3> QED BY <1>1, <3>1 DEF Core, EpochsHeld
  <2>3. CASE streams[s].own = "acked" BY <2>1, <2>3 DEF Fed
  <2>4. CASE streams[s].own = "serving"
    <3>1. streams'[s].down = Append(streams[s].down, m) BY <1>2, <2>2, <2>4
    <3>3. streams[s].down \in Seq(Message) BY StreamFields
    <3>2. \E i \in 1..Len(streams'[s].down) : streams'[s].down[i] = m BY <1>3, <3>1, <3>3, Queues
    <3> QED BY <1>1, <1>3, <2>4, <3>2 DEF Sent
  <2> QED BY <2>3, <2>4
<1> QED BY <1>4, <1>5, <1>6, <1>7, <1>8, <1>9, <1>10, <1>11, <1>12 DEF Core, Complete

-----------------------------------------------------------------------------
(* The theorems.                                                           *)

\* Every step keeps the types.
LEMMA TypedStep == ASSUME Typed, Core, [Next]_vars PROVE Typed'
<1>1. Rest'
  <2>1. CASE Route \/ Handler \/ Failure BY <2>1, HandlerTyped DEF Core
  <2>2. CASE Reader \/ ReadFrame BY <2>2, ReaderTyped
  <2>3. ASSUME NEW s \in 1..Current, Endpoint(s) PROVE Rest' BY <2>3, EndpointTyped
  <2>4. CASE RevalidateLocal \/ Expire \/ BrowserLeaves BY <2>4, EnvironmentTyped, ForwardingAssumption
  <2>5. ASSUME NEW n \in Nodes, MoveOwner(n) \/ OtherWrites(n) PROVE Rest' BY <2>5, EnvironmentTyped
  <2>6. CASE UNCHANGED vars BY <2>6 DEF vars, lease, client, Typed, Rest
  <2> QED BY <2>1, <2>2, <2>3, <2>4, <2>5, <2>6 DEF Next
<1>2. edge' \in EdgeState
  <2>0. edge \in EdgeState BY DEF Typed
  <2>1. CASE Route BY <2>1, EdgeMoves DEF Route, EdgeGoes
  <2>2. CASE Handler \/ Failure
    <3>1. ASSUME NEW s \in 1..Current,
                 \/ ReceiveAck(s) \/ HandshakeFails(s) \/ Relay(s) \/ RelayClose(s) \/ EndBridge(s)
                 \/ RelayFails(s)
          PROVE  edge' \in EdgeState
      <4>1. CASE Relay(s) BY <2>0, <4>1 DEF Relay
      <4> QED BY <3>1, <4>1, EdgeMoves DEF EdgeGoes
    <3> QED BY <2>2, <3>1, EdgeMoves DEF Handler, Failure, EdgeGoes
  <2>3. CASE Reader \/ ReadFrame BY <2>0, <2>3, ReaderTyped
  <2>4. ASSUME NEW s \in 1..Current, Endpoint(s) PROVE edge' = edge BY <2>4, EndpointTyped
  <2>5. CASE RevalidateLocal \/ Expire \/ BrowserLeaves
    BY <2>0, <2>5, EnvironmentTyped, ForwardingAssumption
  <2>6. ASSUME NEW n \in Nodes, MoveOwner(n) \/ OtherWrites(n) PROVE edge' = edge BY <2>6, EnvironmentTyped
  <2>7. CASE UNCHANGED vars BY <2>0, <2>7 DEF vars
  <2> QED BY <2>0, <2>1, <2>2, <2>3, <2>4, <2>5, <2>6, <2>7 DEF Next
<1>3. streams' \in Seq(Stream)
  <2>0. streams \in Seq(Stream) BY DEF Typed
  <2>1. Quiet => streams' = streams BY DEF Quiet
  <2>2. ASSUME NEW s \in 1..Current,
               \/ ReceiveAck(s) \/ HandshakeFails(s) \/ Relay(s) \/ RelayClose(s) \/ EndBridge(s)
               \/ DeliverRemote(s) \/ RelayFails(s)
        PROVE  streams' \in Seq(Stream)
    <3>1. CASE DeliverRemote(s) /\ ~(streams[s].edge /\ streams[s].own # "done")
      BY <2>0, <3>1 DEF DeliverRemote
    <3> QED BY <2>2, <3>1, EdgeTouches DEF Core, Touched
  <2>3. ASSUME NEW s \in 1..Current, Endpoint(s) PROVE streams' \in Seq(Stream)
    <3>1. ASSUME NEW up, NEW down, NEW on, NEW own, Touched(s, up, down, on, own)
          PROVE  streams' \in Seq(Stream)
      BY <3>1 DEF Touched
    <3>2. CASE EndpointReceive(s) BY <3>1, <3>2, EndpointTouches DEF Core
    <3>3. CASE EndpointOpen(s) BY <3>1, <3>3, EndpointTouches DEF Core
    <3>4. CASE EndpointAcquire(s) BY <3>1, <3>4, EndpointTouches DEF Core
    <3>5. CASE EndpointRevalidate(s) BY <3>1, <3>5, EndpointTouches DEF Core
    <3>7. CASE EndpointAck(s) BY <3>1, <3>7, EndpointTouches DEF Core
    <3>6. CASE EndpointRegister(s) \/ EndpointEOF(s) \/ EndpointCleanup(s)
      BY <3>1, <3>6, EndpointTouches DEF Core
    <3> QED BY <2>3, <3>2, <3>3, <3>4, <3>5, <3>6, <3>7 DEF Endpoint
  <2>4. CASE RouteRemote \/ RebindRemote BY <2>4, Dialling
  <2>5. CASE AcquireLocal \/ OpenLocal \/ BootstrapLocal \/ LeaveLocal \/ EndLocal \/ BootstrapLost \/ BootstrapFails
    BY <2>0, <2>5 DEF AcquireLocal, OpenLocal, BootstrapLocal, LeaveLocal, EndLocal, BootstrapLost, BootstrapFails
  <2>6. ASSUME NEW n \in Nodes, MoveOwner(n) \/ OtherWrites(n) PROVE streams' \in Seq(Stream)
    BY <2>0, <2>6, Writing DEF MoveOwner
  <2>7. CASE Expire BY <2>0, <2>7 DEF Expire
  <2> QED BY <2>0, <2>1, <2>2, <2>3, <2>4, <2>5, <2>6, <2>7, QuietSteps DEF Next, Route, Handler, Failure, Reader
<1> QED BY <1>1, <1>2, <1>3 DEF Rest, Typed

\* Every step keeps what the sessions, the accounts and the browser's copy rest on.
LEMMA CoreStep == ASSUME Typed, Core, [Next]_vars PROVE Core'
<1>1. CASE Route BY <1>1, QuietSteps, QuietKeeps, DialKeeps DEF Route
<1>2. CASE Handler \/ Failure
  <2>1. ASSUME NEW s \in 1..Current,
               \/ ReceiveAck(s) \/ HandshakeFails(s) \/ Relay(s) \/ RelayClose(s) \/ EndBridge(s)
               \/ RelayFails(s)
        PROVE  Core'
    BY <2>1, AckKeeps, ShutKeeps, RelayKeeps
  <2> QED
    BY <1>2, <2>1, QuietSteps, QuietKeeps, DialKeeps, AcquireLocalKeeps, OpenLocalKeeps, BootstrapKeeps,
       CloseLocalKeeps
    DEF Handler, Failure
<1>3. CASE Reader \/ ReadFrame BY <1>3, QuietSteps, QuietKeeps, DeliverKeeps DEF Reader
<1>4. ASSUME NEW s \in 1..Current, Endpoint(s) PROVE Core'
  BY <1>4, EndpointAcquireKeeps, EndpointEnds, EndpointTurns, EndpointReceiveKeeps DEF Endpoint
<1>5. CASE RevalidateLocal \/ BrowserLeaves \/ UNCHANGED vars BY <1>5, QuietSteps, QuietKeeps
<1>6. CASE Expire BY <1>6, LeaseKeeps
<1>7. ASSUME NEW n \in Nodes, MoveOwner(n) \/ OtherWrites(n) PROVE Core' BY <1>7, LeaseKeeps, WriteKeeps
<1> QED BY <1>1, <1>2, <1>3, <1>4, <1>5, <1>6, <1>7 DEF Next

\* Before the request is routed there is no stream, no connection and no handle.
LEMMA InvInit == ASSUME Init PROVE Inv
<1>0. streams = <<>> /\ Current = 0 /\ streams \in Seq(Stream) BY EmptySeq DEF Init, Current
<1>1. Typed
  <2>1. edge \in EdgeState
    <3>1. ASSUME NEW A \in SUBSET EdgeSteps, NEW Z \in SUBSET Nat, NEW T \in SUBSET BOOLEAN,
                 NEW K \in SUBSET {"remote", "local"},
                 edge \in [at : A, prev : Z, epoch : Z, first : T, allowLocal : T, kind : K,
                          tracked : T, promote : BOOLEAN]
          PROVE  edge \in EdgeState
      BY <3>1 DEF EdgeState
    <3>2. {"route"} \in SUBSET EdgeSteps BY DEF EdgeSteps
    <3>3. {0} \in SUBSET Nat /\ {"remote"} \in SUBSET {"remote", "local"} OBVIOUS
    <3>4. {TRUE} \in SUBSET BOOLEAN BY Zenon
    <3>5. edge \in [at : {"route"}, prev : {0}, epoch : {0}, first : {TRUE}, allowLocal : {TRUE},
                    kind : {"remote"}, tracked : {TRUE}, promote : BOOLEAN]
      BY DEF Init
    <3> QED BY <3>1, <3>2, <3>3, <3>4, <3>5, Zenon
  <2>2. conn \in [Nodes -> [by : {None, Edge} \cup Nat, epoch : Nat]]
    <3>1. Free \in [by : {None, Edge} \cup Nat, epoch : Nat] BY DEF Free
    <3> QED BY <3>1 DEF Init
  <2>3. reader \in [at : {"new", "off", "idle", "deliver"}, to : {None, Edge} \cup Nat] BY DEF Init
  <2> QED BY <1>0, <2>1, <2>2, <2>3 DEF Init, Typed
<1>2. \A n \in Nodes : conn[n].by = None /\ conn[n].epoch = 0 BY DEF Init, Free
<1>3. edge.at = "route" BY DEF Init
<1>4. Greeting /\ Early BY <1>0 DEF Greeting, Early
<1>5. Bindings BY <1>0, <1>2, <1>3, ForwardingAssumption DEF Bindings, Session
<1>6. Balanced
  <2>1. \A n \in Nodes : Holders(n) = {} BY <1>0 DEF Holders
  <2>2. \A n \in Nodes : Local(n) = 0 BY <1>3 DEF Local, Handled, Session
  <2>3. Cardinality({}) = 0 BY FS_EmptySet
  <2>4. handles \in [Nodes -> Nat] /\ \A n \in Nodes : handles[n] = 0 BY DEF Init
  <2>5. \A n \in Nodes : handles[n] = Cardinality(Holders(n)) + Local(n) BY <2>1, <2>2, <2>3, <2>4
  <2> QED BY <2>4, <2>5 DEF Balanced
<1>7. EpochsHeld BY <1>2 DEF Init, EpochsHeld
<1>8. Complete BY <1>0, <1>3 DEF Complete, SentKnown, HasStream, LocalComplete, RelayComplete
<1> QED BY <1>1, <1>4, <1>5, <1>6, <1>7, <1>8 DEF Inv, Core

\* Who has every connection, whose handles there are and where the newest update is:
\* in every state, for any nodes and bounds, with or without fairness.
THEOREM Invariance == Spec => []Inv
<1>1. Inv /\ [Next]_vars => Inv' BY TypedStep, CoreStep DEF Inv
<1> QED BY <1>1, InvInit, PTL DEF Spec

\* validateRemoteOwnerAuthorityEpoch binds both sides: the connection behind an
\* acknowledged stream has the epoch the edge looked up, whatever moved between
\* the lookup, the handshake, the claim and the open.
THEOREM EpochsAgree == Spec => []SessionAgreed
<1>1. Inv => SessionAgreed
  <2>1. Typed => 1..Current \subseteq Nat OBVIOUS
  <2> QED BY <2>1 DEF Inv, Core, Bindings, SessionAgreed
<1> QED BY <1>1, Invariance, PTL

\* A node's ownership handles are those of the streams its endpoint has not cleaned
\* up and of the edge's own session: each path returns its handle exactly once.
THEOREM HandlesReturned == Spec => []HandlesBalanced
<1>1. Inv => HandlesBalanced
  <2> SUFFICES ASSUME Inv PROVE HandlesBalanced OBVIOUS
  <2>1. \A n \in Nodes : conn[n].by \in {None, Edge} \cup 1..Current
    BY DEF Inv, Core, Typed, Bindings
  <2>2. TypeOK BY <2>1 DEF Inv, Core, Typed, Balanced, TypeOK, EdgeState, EdgeSteps
  <2> QED BY <2>2 DEF HandlesBalanced, Inv, Core, Balanced, Local, Handled, Session
<1> QED BY <1>1, Invariance, PTL

\* The bootstrap after each rebind makes the handoff lossless: a browser whose relay
\* is idle at both ends, or whose session is local, has every update.
THEOREM BrowserUpToDate == Spec => []NothingMissed
<1>1. Inv => NothingMissed
  <2> SUFFICES ASSUME Inv PROVE NothingMissed OBVIOUS
  <2>1. edge.at = "local" /\ Authoritative(Edge) => seen = written
    BY DEF Inv, Core, Complete, LocalComplete, Authoritative
  <2>2. ASSUME edge.at = "bridge", streams[Current].own = "serving", streams[Current].up = <<>>,
               streams[Current].down = <<>>, Authoritative(streams[Current].node)
        PROVE  seen = written
    <3>1. PICK s \in 1..Current : s = Current
      BY <2>2, LenProperties DEF Inv, Typed, Core, Complete, HasStream, Current
    <3>2. Fed(s) BY <2>2, <3>1 DEF Inv, Core, Complete, RelayComplete
    <3>3. ~Asked(s) /\ ~Sent(s)
      <4>1. streams[s].up = <<>> /\ streams[s].down = <<>> /\ Len(<<>>) = 0 BY <2>2, <3>1, EmptySeq
      <4> QED BY <4>1 DEF Asked, Sent
    <3> QED BY <2>2, <3>1, <3>2, <3>3 DEF Fed, Authoritative
  <2> QED BY <2>1, <2>2 DEF NothingMissed
<1> QED BY <1>1, Invariance, PTL
=============================================================================
