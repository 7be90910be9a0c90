-------------------------- MODULE OwnerForwarding --------------------------
(***************************************************************************)
(* yhttp's owner-aware edge: one browser at the edge node, one document    *)
(* whose owner moves.  The edge serves it locally, or opens a stream to    *)
(* the owner's endpoint and relays; when the owner loses its authority the *)
(* edge binds the same web socket to the next owner, remote or local.      *)
(* The reader of the web socket, the edge's handler, the endpoint of each  *)
(* stream and the revalidators are separate goroutines.  Rooms and stores  *)
(* are reduced to the authority an open connection was given.              *)
(***************************************************************************)
EXTENDS Naturals, Sequences, FiniteSets

CONSTANTS
  Nodes, Edge, None,
  MaxMoves, MaxStreams, MaxFrames, MaxWrites   \* bounds

\* Streams are numbered: a target or the holder of a connection is told from them.
ASSUME ForwardingAssumption ==
  /\ Edge \in Nodes /\ None \notin Nodes
  /\ \A n \in Nodes \cup {None} : n \notin Nat

VARIABLES
  owner, epoch,   \* the lease as lookups and fences read it
  conn,           \* at each node: who has the browser's connection open, with which epoch
  handles,        \* ownership handles of the request at each node
  edge,           \* the edge's handler
  signal,         \* an authority loss of the local session is pending
  target,         \* switchableRemoteStreamPeer: None, Edge (the local connection) or a stream
  reader,         \* the goroutine that reads the web socket
  clientErr,      \* clientErrCh
  socket,         \* the browser's web socket is open
  streams,        \* the streams dialled so far, in order
  written, seen,  \* updates of other clients in the document, and the last the browser has
  frames, moves   \* counters for the bounds

lease == <<owner, epoch, moves>>
client == <<reader, clientErr, frames>>
vars == <<lease, conn, handles, edge, signal, target, client, socket, streams, written, seen>>

Free == [by |-> None, epoch |-> 0]

Init ==
  /\ owner \in Nodes \cup {None} /\ epoch = 1 /\ moves = 0
  /\ conn = [n \in Nodes |-> Free]
  /\ handles = [n \in Nodes |-> 0]
  \* prev: the epoch to get past; first: no session yet; kind: which of the
  \* two pipes reads the socket; at: where the handler is; tracked: the deferred
  \* cleanup has the session of the last stream; promote: the configuration's
  \* PromoteLocalOnOwnerUnavailable.
  /\ edge \in [at : {"route"}, prev : {0}, epoch : {0}, first : {TRUE}, allowLocal : {TRUE},
               kind : {"remote"}, tracked : {TRUE}, promote : BOOLEAN]
  /\ signal = FALSE
  /\ target = None
  /\ reader = [at |-> "new", to |-> None]
  /\ clientErr = None
  /\ socket = TRUE
  /\ streams = <<>>
  /\ written = 0 /\ seen = 0
  /\ frames = 0

Msg(type, k) == [type |-> type, k |-> k]
Frame(type) == Msg(type, 0)

\* The node's connection still has the authority it was opened with.
Authoritative(n) == owner = n /\ conn[n].epoch = epoch

\* What a room answers to a sync: it does not ask the store whether the authority
\* it was loaded with still holds, and after a move it may be behind.
Answers(n) == IF conn[n].epoch = epoch THEN {written} ELSE 0..written

Later(k) == IF k > seen THEN k ELSE seen

Current == Len(streams)
Goto(at) == edge' = [edge EXCEPT !.at = at]

\* The goroutine that reads the web socket starts with the first session.
Reading == IF reader.at = "new" THEN [at |-> "idle", to |-> None] ELSE reader

-----------------------------------------------------------------------------
(* OwnerAwareServer.ServeHTTP.                                             *)

Dialled(n) == [node |-> n, epoch |-> epoch, up |-> <<Frame("handshake")>>, down |-> <<>>,
               edge |-> TRUE, own |-> "handshake"]

RouteRemote ==
  /\ edge.at = "route"
  /\ owner \notin {Edge, None}
  /\ streams' = Append(streams, Dialled(owner))
  /\ edge' = [edge EXCEPT !.at = "ack", !.epoch = epoch]
  /\ UNCHANGED <<lease, conn, handles, signal, target, client, socket, written, seen>>

RouteLocal ==
  /\ edge.at = "route"
  /\ owner = Edge \/ (owner = None /\ edge.promote)
  /\ edge' = [edge EXCEPT !.at = "acquire", !.kind = "local"]
  /\ UNCHANGED <<lease, conn, handles, signal, target, client, socket, streams, written, seen>>

\* 503 with Retry-After.
RouteUnavailable ==
  /\ edge.at = "route"
  /\ owner = None /\ ~edge.promote
  /\ Goto("done")
  /\ socket' = FALSE
  /\ UNCHANGED <<lease, conn, handles, signal, target, client, streams, written, seen>>

-----------------------------------------------------------------------------
(* A local session: the first one, or a takeover.                          *)

\* acquireRequestOwnership claims a lease that nobody holds.
CanAcquire(n) == owner \in {n, None}

Acquired(n) ==
  /\ owner' = n
  /\ epoch' = IF owner = None THEN epoch + 1 ELSE epoch
  /\ handles' = [handles EXCEPT ![n] = @ + 1]
  /\ UNCHANGED moves

AcquireLocal ==
  /\ edge.at = "acquire"
  /\ IF CanAcquire(Edge)
       THEN Acquired(Edge) /\ Goto("open") /\ UNCHANGED socket
       ELSE Goto("done") /\ socket' = FALSE /\ UNCHANGED <<lease, handles>>
  /\ UNCHANGED <<conn, signal, target, client, streams, written, seen>>

\* Provider.Open, then the registry and the revalidator.
OpenLocal ==
  /\ edge.at = "open"
  /\ IF owner = Edge /\ conn[Edge] = Free
       THEN /\ conn' = [conn EXCEPT ![Edge] = [by |-> Edge, epoch |-> epoch]]
            /\ edge' = [edge EXCEPT !.at = "bootstrap", !.epoch = epoch]
            /\ UNCHANGED <<handles, socket>>
       ELSE /\ handles' = [handles EXCEPT ![Edge] = @ - 1]
            /\ Goto("done") /\ socket' = FALSE
            /\ UNCHANGED conn
  /\ UNCHANGED <<lease, signal, target, client, streams, written, seen>>

\* bootstrapConnection, then the reader's target.
BootstrapLocal ==
  /\ edge.at = "bootstrap"
  /\ edge' = [edge EXCEPT !.at = "local", !.first = FALSE]
  /\ target' = Edge
  /\ reader' = Reading
  /\ \E k \in Answers(Edge) : seen' = Later(k)
  /\ UNCHANGED <<lease, conn, handles, signal, clientErr, frames, socket, streams, written>>

ClosedLocal ==
  /\ conn' = [conn EXCEPT ![Edge] = Free]
  /\ handles' = [handles EXCEPT ![Edge] = @ - 1]
  /\ signal' = FALSE

\* The first session's bootstrap finds the authority lost: the handoff is the
\* relay's, with a reader of its own.
BootstrapLost ==
  /\ edge.at = "bootstrap" /\ edge.first /\ ~Authoritative(Edge)
  /\ ClosedLocal
  /\ edge' = [edge EXCEPT !.at = "rebind", !.prev = edge.epoch, !.first = FALSE,
                          !.allowLocal = FALSE, !.kind = "remote"]
  /\ UNCHANGED <<lease, target, client, socket, streams, written, seen>>

\* It fails otherwise; in a takeover, for whatever reason.
BootstrapFails ==
  /\ edge.at = "bootstrap"
  /\ ClosedLocal
  /\ Goto("done") /\ socket' = FALSE
  /\ UNCHANGED <<lease, target, client, streams, written, seen>>

\* The periodic or forced check of the local connection.
RevalidateLocal ==
  /\ edge.at \in {"bootstrap", "local"} /\ ~signal /\ ~Authoritative(Edge)
  /\ signal' = TRUE
  /\ UNCHANGED <<lease, conn, handles, edge, target, client, socket, streams, written, seen>>

\* The session ends by authority loss.  The select may have been woken by the
\* reader, whose error it then has consumed, or by the session's context.
LeaveLocal ==
  /\ edge.at = "local" /\ signal
  /\ ClosedLocal
  /\ target' = None
  /\ edge' = [edge EXCEPT !.at = "rebind", !.prev = edge.epoch, !.allowLocal = FALSE]
  /\ clientErr' \in {clientErr, None}
  /\ UNCHANGED <<lease, reader, frames, socket, streams, written, seen>>

\* The browser left, or its message could not be handled.
EndLocal ==
  /\ edge.at = "local" /\ ~signal /\ clientErr # None
  /\ ClosedLocal
  /\ Goto("done") /\ socket' = FALSE
  /\ UNCHANGED <<lease, target, client, streams, written, seen>>

-----------------------------------------------------------------------------
(* A remote session.                                                       *)

Send(s, m) == [streams EXCEPT ![s].up = Append(@, m)]

\* Nobody will read what comes back.
Shut(s) == [streams EXCEPT ![s].edge = FALSE, ![s].down = <<>>]
AtEnd(s) == streams[s].down = <<>> /\ streams[s].own = "done"

\* Fault: no bootstrap after a rebind.
BoundUnsynced(s) == [streams EXCEPT ![s].down = Tail(@)]

\* openRemoteOwnerSession after the ack: a rebind asks for the document.
Bound(s) ==
  [streams EXCEPT ![s].down = Tail(@),
                  ![s].up = IF edge.first THEN @ ELSE Append(@, Frame("sync"))]

\* The first session is the browser's own: it asks for the document itself.
ReceiveAck(s) ==
  /\ edge.at = "ack" /\ s = Current
  /\ streams[s].down # <<>> /\ Head(streams[s].down).type = "ack"
  /\ edge' = [edge EXCEPT !.at = "bridge", !.first = FALSE]
  /\ streams' = IF edge.first THEN [Bound(s) EXCEPT ![s].up = Append(@, Frame("sync"))] ELSE Bound(s)
  /\ target' = s
  /\ reader' = Reading
  /\ UNCHANGED <<lease, conn, handles, signal, clientErr, frames, socket, written, seen>>

\* Fault: the stream of a failed handshake is not closed.
HandshakeLeaks(s) ==
  /\ edge.at = "ack" /\ s = Current
  /\ IF edge.first THEN Goto("done") /\ socket' = FALSE ELSE Goto("rebind") /\ UNCHANGED socket
  /\ UNCHANGED <<lease, conn, handles, signal, target, client, streams, written, seen>>

\* A close, the end of the stream, or the time limit: the first handshake fails
\* the request, a later one is tried again.
HandshakeFails(s) ==
  /\ edge.at = "ack" /\ s = Current
  /\ streams' = Shut(s)
  /\ IF edge.first THEN Goto("done") /\ socket' = FALSE ELSE Goto("rebind") /\ UNCHANGED socket
  /\ UNCHANGED <<lease, conn, handles, signal, target, client, written, seen>>

\* pipeRemoteToClient.
Relay(s) ==
  /\ edge.at = "bridge" /\ s = Current
  /\ streams[s].down # <<>> /\ Head(streams[s].down).type \in {"sync", "update"}
  /\ seen' = Later(Head(streams[s].down).k)
  /\ streams' = [streams EXCEPT ![s].down = Tail(@)]
  /\ UNCHANGED <<lease, conn, handles, edge, signal, target, client, socket, written>>

\* A retryable close: the reader is held back and the next owner looked for.  The
\* cleanup deferred after a local start keeps the session it was given there.
RelayClose(s) ==
  /\ edge.at = "bridge" /\ s = Current
  /\ streams[s].down # <<>> /\ Head(streams[s].down).type = "close"
  /\ streams' = Shut(s)
  /\ target' = None
  /\ edge' = [edge EXCEPT !.at = "rebind", !.prev = edge.epoch, !.allowLocal = TRUE,
                          !.tracked = @ /\ edge.kind = "remote"]
  /\ UNCHANGED <<lease, conn, handles, signal, client, socket, written, seen>>

\* cleanup: it closes the stream, if it has it; "client_closed", which is also what
\* it was told after a local start, sends Disconnect first.  A stream that it does
\* not have ends if its transport does with the context of the last read.
Cleaned(s, left) ==
  IF ~edge.tracked THEN {streams, Shut(s)}
  ELSE IF left \/ edge.kind = "local" THEN {[Shut(s) EXCEPT ![s].up = Append(@, Frame("disconnect"))]}
  ELSE {Shut(s)}

\* The stream broke, or the reader ended: the relay ends.  cleanup closes the
\* web socket when the browser left, and always after a local start.
EndBridge(s) ==
  /\ edge.at = "bridge" /\ s = Current
  /\ AtEnd(s) \/ clientErr # None
  /\ streams' \in Cleaned(s, clientErr = "closed")
  /\ socket' = (socket /\ clientErr # "closed" /\ edge.kind = "remote")
  /\ Goto("done")
  /\ UNCHANGED <<lease, conn, handles, signal, target, client, written, seen>>

\* A message of the owner is not valid, or beyond the quota, or the browser
\* cannot be written to.
RelayFails(s) ==
  /\ edge.at = "bridge" /\ s = Current
  /\ streams[s].down # <<>>
  /\ streams' \in Cleaned(s, FALSE)
  /\ socket' = FALSE
  /\ Goto("done")
  /\ UNCHANGED <<lease, conn, handles, signal, target, client, written, seen>>

-----------------------------------------------------------------------------
(* rebindRemoteOwnerSession.                                               *)

\* lookupNextRemoteOwner: a later epoch, and local only where that is allowed.
NextOwner == owner # None /\ epoch > edge.prev /\ (owner = Edge => edge.allowLocal)

RebindRemote ==
  /\ edge.at = "rebind" /\ NextOwner /\ owner # Edge
  /\ Current < MaxStreams
  /\ streams' = Append(streams, Dialled(owner))
  /\ edge' = [edge EXCEPT !.at = "ack", !.epoch = epoch]
  /\ UNCHANGED <<lease, conn, handles, signal, target, client, socket, written, seen>>

\* takeoverLocalOwner; a stream it binds later is in a variable of its own.
RebindLocal ==
  /\ edge.at = "rebind" /\ NextOwner /\ owner = Edge
  /\ edge' = [edge EXCEPT !.at = "acquire", !.tracked = FALSE]
  /\ UNCHANGED <<lease, conn, handles, signal, target, client, socket, streams, written, seen>>

RebindTimeout ==
  /\ edge.at = "rebind"
  /\ Goto("done") /\ socket' = FALSE
  /\ UNCHANGED <<lease, conn, handles, signal, target, client, streams, written, seen>>

-----------------------------------------------------------------------------
(* pipeClientToRemote and pipeClientToLocal: one goroutine for the life of *)
(* the web socket.                                                         *)

ReadFrame ==
  /\ reader.at = "idle" /\ socket /\ frames < MaxFrames
  /\ frames' = frames + 1
  /\ reader' = [at |-> "deliver", to |-> None]
  /\ UNCHANGED <<lease, conn, handles, edge, signal, target, clientErr, socket, streams, written, seen>>

ReaderEnds(err) == reader' = [at |-> "off", to |-> None] /\ clientErr' = err

ReadFails ==
  /\ reader.at = "idle" /\ ~socket
  /\ ReaderEnds("closed")
  /\ UNCHANGED <<lease, conn, handles, edge, signal, target, frames, socket, streams, written, seen>>

\* deliver waits for a target; the relay's pipe only for its write timeout.
PickTarget ==
  /\ reader.at = "deliver" /\ reader.to = None /\ target # None
  /\ reader' = [reader EXCEPT !.to = target]
  /\ UNCHANGED <<lease, conn, handles, edge, signal, target, clientErr, frames, socket, streams, written, seen>>

DeliverTimeout ==
  /\ reader.at = "deliver" /\ reader.to = None /\ target = None
  /\ edge.kind = "remote" \/ edge.at = "done"
  /\ ReaderEnds("error")
  /\ UNCHANGED <<lease, conn, handles, edge, signal, target, frames, socket, streams, written, seen>>

\* remoteOwnerUpstreamPeer.deliver, possibly to the stream of before.
DeliverRemote(s) ==
  /\ reader.at = "deliver" /\ reader.to = s
  /\ IF streams[s].edge /\ streams[s].own # "done"
       THEN /\ streams' = Send(s, Frame("update"))
            /\ reader' = [at |-> "idle", to |-> None]
            /\ UNCHANGED clientErr
       ELSE ReaderEnds("error") /\ UNCHANGED streams
  /\ UNCHANGED <<lease, conn, handles, edge, signal, target, frames, socket, written, seen>>

\* localConnectionPeer.deliver: an authority loss is signalled to the session.
DeliverLocal ==
  /\ reader.at = "deliver" /\ reader.to = Edge
  /\ IF conn[Edge].by = Edge /\ Authoritative(Edge)
       THEN reader' = [at |-> "idle", to |-> None] /\ UNCHANGED <<clientErr, signal>>
       ELSE /\ ReaderEnds("error")
            /\ signal' = (signal \/ conn[Edge].by = Edge)
  /\ UNCHANGED <<lease, conn, handles, edge, target, frames, socket, streams, written, seen>>

-----------------------------------------------------------------------------
(* RemoteOwnerEndpoint.serveStream.                                        *)

At(s, own) == [streams EXCEPT ![s].own = own]
Refuse(s) == [streams EXCEPT ![s].own = "done", ![s].up = <<>>, ![s].down = Append(@, Frame("close"))]

\* The handshake is read and the ownership acquired, or refused for now.
EndpointAcquire(s) ==
  LET n == streams[s].node
  IN /\ streams[s].own = "handshake"
     /\ IF CanAcquire(n)
          THEN /\ Acquired(n)
               /\ streams' = [At(s, "acquired") EXCEPT ![s].up = Tail(@)]
          ELSE streams' = Refuse(s) /\ UNCHANGED <<lease, handles>>
     /\ UNCHANGED <<conn, edge, signal, target, client, socket, written, seen>>

\* Fault: any epoch will do.
AnyEpoch(handshake, authority) == TRUE

\* validateRemoteOwnerAuthorityEpoch: a provider without fences has epoch 0.
SameEpoch(handshake, authority) == authority = 0 \/ handshake = authority

\* Provider.Open: an id that is in use ends the stream, a lost authority refuses
\* it for now.
EndpointOpen(s) ==
  LET n == streams[s].node
  IN /\ streams[s].own = "acquired"
     /\ IF conn[n] = Free /\ owner = n
          THEN /\ conn' = [conn EXCEPT ![n] = [by |-> s, epoch |-> epoch]]
               /\ streams' = At(s, "opened")
               /\ UNCHANGED handles
          ELSE /\ handles' = [handles EXCEPT ![n] = @ - 1]
               /\ streams' = IF conn[n] # Free THEN At(s, "done") ELSE Refuse(s)
               /\ UNCHANGED conn
     /\ UNCHANGED <<lease, edge, signal, target, client, socket, written, seen>>

\* sendHandshakeAck, or its failure.
Acked(s) == {[At(s, "acked") EXCEPT ![s].down = Append(@, Frame("ack"))], At(s, "closing")}

\* Fault: the handle is kept when the epochs differ.
EndpointAckKeeps(s) ==
  LET n == streams[s].node
  IN /\ streams[s].own = "opened"
     /\ IF SameEpoch(streams[s].epoch, conn[n].epoch)
          THEN streams' \in Acked(s) /\ UNCHANGED conn
          ELSE conn' = [conn EXCEPT ![n] = Free] /\ streams' = Refuse(s)
     /\ UNCHANGED <<lease, handles, edge, signal, target, client, socket, written, seen>>

\* A connection of another epoch than the edge asked for is closed again, and the
\* stream refused for now; else the handshake is acknowledged.
EndpointAck(s) ==
  LET n == streams[s].node
  IN /\ streams[s].own = "opened"
     /\ IF SameEpoch(streams[s].epoch, conn[n].epoch)
          THEN streams' \in Acked(s) /\ UNCHANGED <<conn, handles>>
          ELSE /\ conn' = [conn EXCEPT ![n] = Free]
               /\ handles' = [handles EXCEPT ![n] = @ - 1]
               /\ streams' = Refuse(s)
     /\ UNCHANGED <<lease, edge, signal, target, client, socket, written, seen>>

EndpointRegister(s) ==
  /\ streams[s].own = "acked"
  /\ streams' = At(s, "serving")
  /\ UNCHANGED <<lease, conn, handles, edge, signal, target, client, socket, written, seen>>

\* handleRemoteOwnerMessage.  An update is checked against the store; a sync only
\* against the room's flag, which anyone in the room may have set.
EndpointReceive(s) ==
  LET n == streams[s].node
      m == Head(streams[s].up)
      read == [streams EXCEPT ![s].up = Tail(@)]
      closed == [read EXCEPT ![s].own = "closing", ![s].down = Append(@, Frame("close"))]
  IN /\ streams[s].own = "serving" /\ streams[s].up # <<>>
     /\ \/ m.type = "disconnect" /\ streams' = [read EXCEPT ![s].own = "closing"]
        \/ m.type = "update" /\ streams' = IF Authoritative(n) THEN read ELSE closed
        \/ /\ m.type = "sync"
           /\ \/ \E k \in Answers(n) : streams' = [read EXCEPT ![s].down = Append(@, Msg("sync", k))]
              \/ ~Authoritative(n) /\ streams' = closed
     /\ UNCHANGED <<lease, conn, handles, edge, signal, target, client, socket, written, seen>>

\* The edge closed the stream; what it sent last may be lost with it.
EndpointEOF(s) ==
  /\ streams[s].own = "serving" /\ ~streams[s].edge
  /\ streams' = At(s, "closing")
  /\ UNCHANGED <<lease, conn, handles, edge, signal, target, client, socket, written, seen>>

\* Fault: the endpoint has no revalidator.
EndpointUnchecked(s) == FALSE /\ UNCHANGED vars

\* The revalidator cancels the read.  A transport that closes with the read's
\* context loses the close message.
EndpointRevalidate(s) ==
  /\ streams[s].own = "serving" /\ ~Authoritative(streams[s].node)
  /\ streams' \in {At(s, "closing"),
                   [At(s, "closing") EXCEPT ![s].down = Append(@, Frame("close"))]}
  /\ UNCHANGED <<lease, conn, handles, edge, signal, target, client, socket, written, seen>>

\* cleanupRemoteOwnerStream, after the close message.
EndpointCleanup(s) ==
  LET n == streams[s].node
  IN /\ streams[s].own = "closing"
     /\ conn' = [conn EXCEPT ![n] = Free]
     /\ handles' = [handles EXCEPT ![n] = @ - 1]
     /\ streams' = [At(s, "done") EXCEPT ![s].up = <<>>]
     /\ UNCHANGED <<lease, edge, signal, target, client, socket, written, seen>>

-----------------------------------------------------------------------------
(* The environment.                                                        *)

\* A handoff, or a takeover after an expiry.
MoveOwner(n) ==
  /\ moves < MaxMoves /\ owner # n
  /\ owner' = n /\ epoch' = epoch + 1 /\ moves' = moves + 1
  /\ UNCHANGED <<conn, handles, edge, signal, target, client, socket, streams, written, seen>>

Expire ==
  /\ moves < MaxMoves /\ owner # None
  /\ owner' = None /\ moves' = moves + 1
  /\ UNCHANGED <<epoch, conn, handles, edge, signal, target, client, socket, streams, written, seen>>

\* Another client of the owner writes, and the registered peers are sent it.
OtherWrites(n) ==
  /\ written < MaxWrites
  /\ owner = n /\ (conn[n] = Free \/ conn[n].epoch = epoch)
  /\ written' = written + 1
  /\ streams' = [s \in 1..Current |->
       IF conn[n].by = s /\ streams[s].own = "serving"
         THEN [streams[s] EXCEPT !.down = Append(@, Msg("update", written + 1))] ELSE streams[s]]
  /\ seen' = IF conn[n].by = Edge THEN written + 1 ELSE seen
  /\ UNCHANGED <<lease, conn, handles, edge, signal, target, client, socket>>

BrowserLeaves ==
  /\ socket /\ ~edge.first
  /\ socket' = FALSE
  /\ UNCHANGED <<lease, conn, handles, edge, signal, target, client, streams, written, seen>>

-----------------------------------------------------------------------------
Route == RouteRemote \/ RouteLocal \/ RouteUnavailable

Handler ==
  \/ AcquireLocal \/ OpenLocal \/ BootstrapLocal \/ LeaveLocal \/ EndLocal
  \/ RebindRemote \/ RebindLocal \/ RebindTimeout
  \/ \E s \in 1..Current : \/ ReceiveAck(s) \/ HandshakeFails(s)
                           \/ Relay(s) \/ RelayClose(s) \/ EndBridge(s)

Reader ==
  \/ ReadFails \/ PickTarget \/ DeliverTimeout \/ DeliverLocal
  \/ \E s \in 1..Current : DeliverRemote(s)

Endpoint(s) ==
  \/ EndpointAcquire(s) \/ EndpointOpen(s) \/ EndpointAck(s)
  \/ EndpointRegister(s) \/ EndpointReceive(s)
  \/ EndpointEOF(s) \/ EndpointRevalidate(s) \/ EndpointCleanup(s)

\* What may go wrong, and need not.
Failure == BootstrapLost \/ BootstrapFails \/ \E s \in 1..Current : RelayFails(s)

Next ==
  \/ Route \/ Handler \/ Failure \/ RevalidateLocal \/ ReadFrame \/ Reader
  \/ \E s \in 1..Current : Endpoint(s)
  \/ \E n \in Nodes : MoveOwner(n) \/ OtherWrites(n)
  \/ Expire \/ BrowserLeaves

\* Goroutines that can go on do, and tickers fire.
Fairness ==
  /\ WF_vars(Route \/ Handler) /\ WF_vars(RevalidateLocal) /\ WF_vars(Reader)
  /\ \A s \in 1..MaxStreams : WF_vars(s <= Current /\ Endpoint(s))

Spec == Init /\ [][Next]_vars /\ Fairness

-----------------------------------------------------------------------------
(* Properties.                                                             *)

Holders(n) == {s \in 1..Current : /\ streams[s].node = n
                                  /\ streams[s].own \in {"acquired", "opened", "acked", "serving", "closing"}}

\* Every variable has its type: handles never fall below zero, and a
\* connection belongs to the edge's session or to a stream that was opened.
TypeOK ==
  /\ owner \in Nodes \cup {None} /\ epoch \in Nat
  /\ handles \in [Nodes -> Nat]
  /\ \A n \in Nodes : conn[n].by \in {None, Edge} \cup 1..Current
  /\ reader.at \in {"new", "idle", "deliver", "off"}
  /\ clientErr \in {None, "closed", "error"}
  /\ edge.at \in {"route", "acquire", "open", "bootstrap", "local", "ack", "bridge", "rebind", "done"}

\* Edge and owner agree on the epoch of a relay: the connection behind an
\* acknowledged stream has the authority the edge asked for, whatever moved
\* between the lookup, the handshake, the claim and the open.
SessionAgreed ==
  \A n \in Nodes :
    conn[n].by \in 1..Current /\ streams[conn[n].by].own # "opened" =>
      conn[n].epoch = streams[conn[n].by].epoch

\* Every path through the endpoint and the edge returns its ownership handle
\* once: a node has as many as sessions that may still use them.
HandlesBalanced ==
  /\ TypeOK
  /\ \A n \in Nodes :
       handles[n] = Cardinality(Holders(n))
                    + IF n = Edge /\ edge.at \in {"open", "bootstrap", "local"} THEN 1 ELSE 0

\* The browser misses no update of another client: when the relay is idle at
\* both ends, or the session is local, it has them all, across handoffs.
NothingMissed ==
  /\ edge.at = "local" /\ Authoritative(Edge) => seen = written
  /\ edge.at = "bridge" =>
       LET s == streams[Current]
       IN s.own = "serving" /\ s.up = <<>> /\ s.down = <<>> /\ Authoritative(s.node) => seen = written

\* The browser is not left on an owner that is none: again and again it is
\* served with the authority of the moment, or its request has ended.
Settles ==
  []<>(\/ edge.at = "done"
       \/ edge.at = "local" /\ Authoritative(Edge)
       \/ edge.at = "bridge" /\ conn[streams[Current].node].by = Current
          /\ Authoritative(streams[Current].node))

\* A connection whose edge has let go of the stream is closed: those of earlier
\* streams, and the last one's when the request is over, if the deferred cleanup
\* has it.  (After a local session in between, or the second stream after a local
\* start, it does not have it, and nothing at the edge closes the stream.)
OrphansEnd ==
  \A n \in Nodes :
    LET orphan == /\ conn[n].by \in 1..Current
                  /\ \/ conn[n].by < Current
                     \/ edge.at = "done" /\ (edge.tracked \/ ~streams[conn[n].by].edge)
    IN orphan ~> ~orphan

\* The handoff is transparent to the browser: while its web socket is open and
\* its session goes on, somebody reads what it sends.
HandoffTransparent ==
  [](reader.at = "off" /\ edge.at = "bridge" => <>(edge.at # "bridge"))
=============================================================================
