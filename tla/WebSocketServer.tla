-------------------------- MODULE WebSocketServer --------------------------
(***************************************************************************)
(* yhttp.Server on one node and one document: the life of each request's   *)
(* goroutine from its quota to its last deferred call, the peer registry,  *)
(* the revalidator each session starts and the registry of revalidation    *)
(* sessions, awareness broadcasts and the removals that closing sends.     *)
(* Requests with the same connection id are reconnects of one client.      *)
(* Opening, persisting and closing in the provider are one step each;      *)
(* DocumentRooms and OwnershipRuntime have their inside.                   *)
(***************************************************************************)
EXTENDS Awareness, FiniteSets

CONSTANTS
  Requests, Ids, IdOf, Clients, ClientOf,
  None,
  MaxConnections,   \* quota; 0 is no limit
  Periodic,         \* authorityRevalidationInterval > 0
  PersistOnClose,
  Here,             \* the state clients publish
  MaxClock, MaxEntries,   \* bounds: clocks and entries of an awareness message
  MaxEvents         \* bound: awareness messages and authority changes together

ASSUME ServerAssumption ==
  /\ IdOf \in [Requests -> Ids] /\ ClientOf \in [Requests -> Clients]
  /\ None \notin Requests /\ \A S \in SUBSET Requests : S # None
  /\ None \notin [members : SUBSET Requests, epoch : Nat, lost : BOOLEAN]
  /\ Here # Null
  /\ MaxConnections \in Nat /\ {Periodic, PersistOnClose} \subseteq BOOLEAN
  /\ MaxClock \in Nat /\ MaxClock < 2^30   \* so that no uint32 clock wraps

VARIABLES
  pc,          \* where each request's goroutine is
  socket,      \* the web socket as its reader sees it
  cancelled,   \* the session's context
  quota,       \* LocalQuotaLimiter: connections counted
  handles,     \* ownership handles out
  held,        \* this node holds the document's lease
  epoch,       \* its generation
  room,        \* the provider's room: members, fence, authorityLost; or None
  session,     \* a connection's awareness entry for its own client
  registry,    \* roomRegistry: the peer under each connection id
  sessions,    \* authorityRevalidationRegistry: the session under each id
  watcher,     \* the revalidator of each session
  out,         \* what a goroutine is writing, and the peers still to write to
  view,        \* what the browser behind a request knows of each client
  echoed,      \* history: clients that a connection of another client spoke for
  sent, moved  \* counters for the bounds

server == <<registry, sessions, watcher, cancelled>>
cluster == <<held, epoch, moved>>
browser == <<view, echoed, sent>>
vars == <<pc, socket, quota, handles, room, session, out, server, cluster, browser>>

NoOut == [msgs |-> {}, to |-> None]

Init ==
  /\ pc = [r \in Requests |-> "new"]
  /\ socket = [r \in Requests |-> "none"]
  /\ cancelled = [r \in Requests |-> FALSE]
  /\ quota = 0 /\ handles = 0
  /\ held = TRUE /\ epoch = 1 /\ moved = 0
  /\ room = None
  /\ session = [r \in Requests |-> Unknown]
  /\ registry = [i \in Ids |-> None]
  /\ sessions = [i \in Ids |-> None]
  /\ watcher = [r \in Requests |-> "off"]
  /\ out = [r \in Requests |-> NoOut]
  /\ view = [r \in Requests |-> [c \in Clients |-> Unknown]]
  /\ echoed = {} /\ sent = 0

Goto(r, step) == pc' = [pc EXCEPT ![r] = step]

Members == IF room = None THEN {} ELSE room.members

\* The authority a room was loaded with is still the node's.
Authoritative == held /\ room.epoch = epoch

-----------------------------------------------------------------------------
(* Admission: each refusal undoes what was taken before.                   *)

\* OpenQuota counts the connection, or the request is refused.  (One document of
\* one tenant: the limits per tenant and per document count the same requests.)
OpenQuota(r) ==
  /\ pc[r] = "new"
  /\ IF MaxConnections > 0 /\ quota >= MaxConnections
       THEN Goto(r, "done") /\ UNCHANGED quota
       ELSE Goto(r, "quota") /\ quota' = quota + 1
  /\ UNCHANGED <<socket, handles, room, session, out, server, cluster, browser>>

\* AcquireDocumentOwnership: the runtime claims the lease if the node has none.
AcquireOwnership(r) ==
  /\ pc[r] = "quota"
  /\ Goto(r, "owned")
  /\ handles' = handles + 1
  /\ \/ held /\ UNCHANGED cluster
     \/ /\ ~held /\ sent + moved < MaxEvents
        /\ held' = TRUE /\ epoch' = epoch + 1 /\ moved' = moved + 1
  /\ UNCHANGED <<socket, quota, room, session, out, server, browser>>

AcquireFails(r) ==
  /\ pc[r] = "quota"
  /\ ~held
  /\ Goto(r, "done")
  /\ quota' = quota - 1
  /\ UNCHANGED <<socket, handles, room, session, out, server, cluster, browser>>

\* Provider.Open refuses a lost room, a taken connection id, a taken client id.
Refused(r) ==
  \/ room = None /\ ~held
  \/ /\ room # None
     /\ \/ room.lost
        \/ \E q \in room.members : IdOf[q] = IdOf[r] \/ ClientOf[q] = ClientOf[r]

ProviderOpen(r) ==
  /\ pc[r] = "owned" /\ ~Refused(r)
  /\ room' = IF room = None THEN [members |-> {r}, epoch |-> epoch, lost |-> FALSE]
             ELSE [room EXCEPT !.members = @ \cup {r}]
  /\ Goto(r, "opened")
  /\ UNCHANGED <<socket, quota, handles, session, out, server, cluster, browser>>

\* Fault: the quota of a refused request is not given back.
OpenRefusedKeepsQuota(r) ==
  /\ pc[r] = "owned" /\ Refused(r)
  /\ handles' = handles - 1
  /\ Goto(r, "done")
  /\ UNCHANGED <<socket, quota, room, session, out, server, cluster, browser>>

OpenRefused(r) ==
  /\ pc[r] = "owned" /\ Refused(r)
  /\ quota' = quota - 1
  /\ handles' = handles - 1
  /\ Goto(r, "done")
  /\ UNCHANGED <<socket, room, session, out, server, cluster, browser>>

\* The connection leaves the room; the last one takes the room with it.
Left(r) == IF room.members = {r} THEN None ELSE [room EXCEPT !.members = @ \ {r}]

AcceptFails(r) ==
  /\ pc[r] = "opened"
  /\ room' = Left(r)
  /\ quota' = quota - 1 /\ handles' = handles - 1
  /\ Goto(r, "done")
  /\ UNCHANGED <<socket, session, out, server, cluster, browser>>

-----------------------------------------------------------------------------
(* The session.                                                            *)

\* Fault: registered only once the bootstrap is answered.
AcceptUnregistered(r) ==
  /\ pc[r] = "opened"
  /\ socket' = [socket EXCEPT ![r] = "open"]
  /\ sessions' = [sessions EXCEPT ![IdOf[r]] = r]
  /\ watcher' = [watcher EXCEPT ![r] = "on"]
  /\ Goto(r, "accepted")
  /\ UNCHANGED <<quota, handles, room, session, out, registry, cancelled, cluster, browser>>

\* websocket.Accept, then the peer and the revalidation session are registered.
Accept(r) ==
  /\ pc[r] = "opened"
  /\ socket' = [socket EXCEPT ![r] = "open"]
  /\ registry' = [registry EXCEPT ![IdOf[r]] = r]
  /\ sessions' = [sessions EXCEPT ![IdOf[r]] = r]
  /\ watcher' = [watcher EXCEPT ![r] = "on"]
  /\ Goto(r, "accepted")
  /\ UNCHANGED <<quota, handles, room, session, out, cancelled, cluster, browser>>

\* aggregateLocalAwareness: the entries of all open connections.
AggregateAwareness == UNION {UpdateFor(ClientOf[q], session[q]) : q \in room.members}

\* bootstrapConnection: the answer to a query of awareness, written back.
Bootstrap(r) ==
  /\ pc[r] = "accepted"
  /\ IF room.lost
       THEN Goto(r, "cleanup") /\ UNCHANGED out
       ELSE /\ Goto(r, "bootstrap")
            /\ out' = [out EXCEPT ![r] = [msgs |-> AggregateAwareness, to |-> {r}]]
  /\ UNCHANGED <<socket, quota, handles, room, session, server, cluster, browser>>

\* What a message makes of the entry for client c.
Told(e, isLocal, c, msgs) ==
  LET about == {x \in msgs : x.client = c}
  IN IF about = {} THEN e ELSE ApplyClient(e, isLocal, CHOOSE x \in about : TRUE)

\* A message reaches the browser behind q.
Receive(q, msgs) == [view EXCEPT ![q] = [c \in Clients |-> Told(@[c], FALSE, c, msgs)]]

BootstrapWrite(r) ==
  /\ pc[r] = "bootstrap"
  /\ out' = [out EXCEPT ![r] = NoOut]
  /\ \/ /\ socket[r] = "open"
        /\ view' = Receive(r, out[r].msgs)
        /\ Goto(r, "serving")
     \/ /\ socket[r] # "open"
        /\ Goto(r, "cleanup")
        /\ UNCHANGED view
  /\ UNCHANGED <<socket, quota, handles, room, session, server, cluster, echoed, sent>>

\* An awareness message: an entry for each of some clients, whoever they are.
Envelopes ==
  {msgs \in SUBSET [client : Clients, clock : 0..MaxClock, state : {Here, Null}] :
     /\ Cardinality(msgs) \in 1..MaxEntries
     /\ \A x, y \in msgs : x.client = y.client => x = y}

\* The session applies the message and the room broadcasts it as it is: the code
\* does not ask whose clients it is about, or which clocks they had.  The room's
\* lock covers the session's entries, the broadcast follows without it.
Handle(r, msgs) ==
  /\ pc[r] = "serving" /\ socket[r] = "open" /\ ~cancelled[r]
  /\ sent + moved < MaxEvents
  /\ sent' = sent + 1
  /\ IF room.lost
       THEN Goto(r, "cleanup") /\ UNCHANGED <<session, out, echoed>>
       ELSE /\ session' = [session EXCEPT ![r] = Told(@, TRUE, ClientOf[r], msgs)]
            /\ out' = [out EXCEPT ![r] = [msgs |-> msgs, to |-> None]]
            /\ echoed' = echoed \cup ({x.client : x \in msgs} \ {ClientOf[r]})
            /\ Goto(r, "fanout")
  /\ UNCHANGED <<socket, quota, handles, room, server, cluster, view>>

\* fanout: the peers under the registry's lock, then one write after another.
Peers(r) == {registry[i] : i \in Ids \ {IdOf[r]}} \ {None}

\* The write continues with the peers in rest, or is over.
Fanout(r, rest) ==
  IF rest = {}
    THEN /\ out' = [out EXCEPT ![r] = NoOut]
         /\ Goto(r, IF pc[r] = "fanout" THEN "serving" ELSE "release")
    ELSE out' = [out EXCEPT ![r].to = rest] /\ UNCHANGED pc

FanoutPeers(r) ==
  /\ pc[r] \in {"fanout", "removal"} /\ out[r].to = None
  /\ Fanout(r, Peers(r))
  /\ UNCHANGED <<socket, quota, handles, room, session, server, cluster, browser>>

\* A peer that cannot be written to is closed.
FanoutWrite(r, q) ==
  /\ pc[r] \in {"fanout", "removal"} /\ out[r].to # None /\ q \in out[r].to
  /\ Fanout(r, out[r].to \ {q})
  /\ \/ /\ socket[q] = "open"
        /\ view' = Receive(q, out[r].msgs)
        /\ UNCHANGED socket
     \/ /\ socket' = [socket EXCEPT ![q] = "closed"]
        /\ UNCHANGED view
  /\ UNCHANGED <<quota, handles, room, session, server, cluster, echoed, sent>>

\* The read fails: the browser left, a peer or the revalidator closed the
\* socket, or the session's context ended.
ReadFails(r) ==
  /\ pc[r] = "serving"
  /\ socket[r] = "closed" \/ cancelled[r]
  /\ Goto(r, "cleanup")
  /\ UNCHANGED <<socket, quota, handles, room, session, out, server, cluster, browser>>

-----------------------------------------------------------------------------
(* cleanupConnectionWithOwnership, then the deferred calls.                *)

Unregister(r) ==
  /\ pc[r] = "cleanup"
  /\ registry' = [registry EXCEPT ![IdOf[r]] = None]
  /\ Goto(r, "close")
  /\ UNCHANGED <<socket, quota, handles, room, session, out, sessions, watcher,
                 cancelled, cluster, browser>>

\* Connection.Close: with an entry for its client, the next clock removes it.
Removal(r) ==
  IF HasMeta(session[r])
    THEN UpdateFor(ClientOf[r], SetLocalState(session[r], Null)) ELSE {}

\* Persist may be the first to notice that the authority is gone.
CloseConnection(r) ==
  /\ pc[r] = "close"
  /\ room' = IF Left(r) # None /\ PersistOnClose /\ ~Authoritative
             THEN [Left(r) EXCEPT !.lost = TRUE] ELSE Left(r)
  /\ session' = [session EXCEPT ![r] = Unknown]
  /\ IF Removal(r) = {}
       THEN Goto(r, "release") /\ UNCHANGED out
       ELSE /\ out' = [out EXCEPT ![r] = [msgs |-> Removal(r), to |-> None]]
            /\ Goto(r, "removal")
  /\ UNCHANGED <<socket, quota, handles, server, cluster, browser>>

\* Fault: the id is removed from the registry once more, whoever has it now.
ReleaseUnregisters(r) ==
  /\ pc[r] = "release"
  /\ registry' = [registry EXCEPT ![IdOf[r]] = None]
  /\ handles' = handles - 1 /\ quota' = quota - 1
  /\ socket' = [socket EXCEPT ![r] = "closed"]
  /\ cancelled' = [cancelled EXCEPT ![r] = TRUE]
  /\ Goto(r, "done")
  /\ UNCHANGED <<room, session, out, sessions, watcher, cluster, browser>>

\* The deferred calls: ownership, the socket, cancelSession, the quota.  What
\* a closed browser knew is of no more use.
Release(r) ==
  /\ pc[r] = "release"
  /\ handles' = handles - 1 /\ quota' = quota - 1
  /\ socket' = [socket EXCEPT ![r] = "closed"]
  /\ cancelled' = [cancelled EXCEPT ![r] = TRUE]
  /\ view' = [view EXCEPT ![r] = [c \in Clients |-> Unknown]]
  /\ Goto(r, "done")
  /\ UNCHANGED <<room, session, out, registry, sessions, watcher, cluster, echoed, sent>>

-----------------------------------------------------------------------------
(* Revalidation.                                                           *)

\* Connection.RevalidateAuthority, for a connection that is still open, finds
\* the authority gone: the room is marked, the socket closed, the session ended.
Lost(r) == r \in Members /\ (room.lost \/ ~Authoritative)

EndSession(r) ==
  /\ room' = [room EXCEPT !.lost = TRUE]
  /\ socket' = [socket EXCEPT ![r] = "closed"]
  /\ cancelled' = [cancelled EXCEPT ![r] = TRUE]

\* Fault: the periodic check looks at the room's flag only.
TickFlagOnly(r) ==
  /\ Periodic /\ watcher[r] = "on" /\ r \in Members /\ room.lost
  /\ EndSession(r)
  /\ watcher' = [watcher EXCEPT ![r] = "ending"]
  /\ UNCHANGED <<pc, quota, handles, session, out, registry, sessions, cluster, browser>>

\* The ticker finds the authority gone (a check that does not is a stutter).
RevalidatorTick(r) ==
  /\ Periodic /\ watcher[r] = "on" /\ Lost(r)
  /\ EndSession(r)
  /\ watcher' = [watcher EXCEPT ![r] = "ending"]
  /\ UNCHANGED <<pc, quota, handles, session, out, registry, sessions, cluster, browser>>

\* The context ended, or a check failed: the registration goes, whoever holds
\* the id by then.
RevalidatorEnds(r) ==
  /\ watcher[r] = "ending" \/ (watcher[r] = "on" /\ cancelled[r])
  /\ sessions' = [sessions EXCEPT ![IdOf[r]] = None]
  /\ watcher' = [watcher EXCEPT ![r] = "off"]
  /\ UNCHANGED <<pc, socket, quota, handles, room, session, out, registry, cancelled,
                 cluster, browser>>

\* RevalidateDocumentAuthority, for one of the sessions it finds registered.
RevalidateDocumentAuthority(r) ==
  /\ sessions[IdOf[r]] = r /\ Lost(r) /\ ~cancelled[r]
  /\ EndSession(r)
  /\ UNCHANGED <<pc, quota, handles, session, out, registry, sessions, watcher, cluster, browser>>

-----------------------------------------------------------------------------
(* The environment.                                                        *)

\* Only a read or a write of the session notices.
BrowserLeaves(r) ==
  /\ pc[r] \in {"bootstrap", "serving"} /\ socket[r] = "open"
  /\ socket' = [socket EXCEPT ![r] = "closed"]
  /\ UNCHANGED <<pc, quota, handles, room, session, out, server, cluster, browser>>

\* The lease expires or is handed off to another node.
LoseLease ==
  /\ held /\ sent + moved < MaxEvents
  /\ held' = FALSE /\ moved' = moved + 1
  /\ UNCHANGED <<pc, socket, quota, handles, room, session, out, server, epoch, browser>>

-----------------------------------------------------------------------------
Admission(r) ==
  \/ AcquireOwnership(r) \/ AcquireFails(r)
  \/ ProviderOpen(r) \/ OpenRefused(r) \/ Accept(r) \/ AcceptFails(r)

Serve(r) ==
  \/ Bootstrap(r) \/ BootstrapWrite(r)
  \/ FanoutPeers(r) \/ (\E q \in Requests : FanoutWrite(r, q))
  \/ ReadFails(r)
  \/ Unregister(r) \/ CloseConnection(r) \/ Release(r)

Revalidator(r) == RevalidatorTick(r) \/ RevalidatorEnds(r)

Next ==
  \/ \E r \in Requests : \/ OpenQuota(r) \/ Admission(r) \/ Serve(r) \/ Revalidator(r)
                         \/ RevalidateDocumentAuthority(r) \/ BrowserLeaves(r)
                         \/ \E msgs \in Envelopes : Handle(r, msgs)
  \/ LoseLease

\* A goroutine that can go on does, tickers fire.  Nothing is assumed of
\* browsers, of the cluster, or of forced revalidation.
Fairness ==
  \A r \in Requests : WF_vars(Admission(r) \/ Serve(r)) /\ WF_vars(Revalidator(r))

Spec == Init /\ [][Next]_vars /\ Fairness

-----------------------------------------------------------------------------
(* Properties.                                                             *)

\* Counters and registries have their types, and a room that is in the
\* provider's map has a member: the last to leave takes the room with it.
TypeOK ==
  /\ quota \in Nat /\ handles \in Nat
  /\ room # None => room.members # {} /\ room.members \subseteq Requests
  /\ registry \in [Ids -> Requests \cup {None}]
  /\ sessions \in [Ids -> Requests \cup {None}]

HasQuota == {r \in Requests : pc[r] \notin {"new", "done"}}
HasHandle == {r \in HasQuota : pc[r] # "quota"}

\* Every way in and out of a request, refusals and failures half-way included,
\* gives back exactly what was taken: the quota counts the requests under way,
\* never above the limit, and each of them has one handle while it may use the
\* document.
ResourcesBalanced ==
  /\ TypeOK
  /\ quota = Cardinality(HasQuota)
  /\ MaxConnections > 0 => quota <= MaxConnections
  /\ handles = Cardinality(HasHandle)

\* A session that serves is the peer under its connection id, also when a
\* reconnect with the same id overlaps the cleanup of the session before it:
\* it is never cut off from the broadcasts of others.
ServingIsRegistered ==
  \A r \in Requests :
    pc[r] \in {"accepted", "bootstrap", "serving", "fanout"} => registry[IdOf[r]] = r

\* A client that only its own connections spoke for leaves no ghost: a browser
\* shows it while it has a connection or the message that removes it is on its
\* way, whatever joins, leaves, clocks and broadcasts overlap.  (Of a client that
\* another connection spoke for, the entry stays: Close removes only its own.)
NoGhosts ==
  \A q \in Requests, c \in Clients \ echoed :
    pc[q] = "serving" /\ socket[q] = "open" /\ HasState(view[q][c]) =>
      \E r \in Requests :
        /\ ClientOf[r] = c
        /\ \/ r \in Members
           \/ pc[r] = "removal" /\ (out[r].to = None \/ q \in out[r].to)

\* Presence reaches everyone: a serving browser knows of every member's client at
\* least the clock that the room would answer a newcomer, or it has seen the
\* client withdraw (the session keeps a withdrawn state, one clock on), or the
\* broadcast that tells it is under way.  A message handled between the answer to
\* a newcomer and the write of it must not be lost.
PresenceReaches ==
  \A q \in Requests, r \in Members :
    pc[q] = "serving" /\ socket[q] = "open" /\ q # r =>
      LET known == view[q][ClientOf[r]] IN
      \/ known.clock >= session[r].clock
      \/ known.clock = session[r].clock - 1 /\ HasMeta(known) /\ ~HasState(known)
      \/ pc[r] = "fanout" /\ (out[r].to = None \/ q \in out[r].to)

\* When the node has lost the document's authority, every session of a room
\* loaded before ends, and the room with it: the next open loads a new one.
LostRoomEnds ==
  (Periodic /\ room # None /\ ~Authoritative) ~> (room = None \/ Authoritative)

=============================================================================
