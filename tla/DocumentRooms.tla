---------------------------- MODULE DocumentRooms ----------------------------
(***************************************************************************)
(* One document served by the Providers (pkg/yprotocol) of several nodes   *)
(* over one store: its rooms, its connections, its update log and its      *)
(* checkpoint, under the authority of the shard's lease.  Each connection  *)
(* is one goroutine; a room's lock and the store's lock make single steps  *)
(* atomic, and everything between two of them interleaves.                 *)
(*                                                                         *)
(* An update is named by the offset the log gave it, and a document is the *)
(* set of updates merged into it: Yjs merges commute and are idempotent.   *)
(* The authority (gen, owner) is the one of LeaseAuthority, which the      *)
(* lease table implements; a fence is a node and an epoch, since an epoch  *)
(* names one generation.  A lease may expire at any time, so a fenced call *)
(* may be refused even to the current owner.                               *)
(***************************************************************************)
EXTENDS Integers, FiniteSets

CONSTANTS
  Nodes,      \* processes, each with one Provider
  Conns,      \* connections (and the goroutines that serve them)
  NodeOf,     \* NodeOf[c]: the node connection c arrives at
  Rooms,      \* identities of providerRoom values
  None,       \* no room, no owner
  PageSize,   \* records per ListUpdates call of a recovery
  MaxOffset,  \* bound on the offsets of the log
  MaxGen      \* bound on the generations of the lease

ASSUME RoomAssumption ==
  /\ NodeOf \in [Conns -> Nodes]
  /\ None \notin Rooms
  /\ PageSize \in Nat \ {0}
  /\ MaxOffset \in Nat
  /\ MaxGen \in Nat

VARIABLES
  gen,       \* newest generation of the lease
  owner,     \* the fence the store accepts, or None
  snapshot,  \* the stored checkpoint (Store.items)
  log,       \* the stored update log (Store.updateLogs)
  next,      \* Store.updateNext, the last offset given out
  rooms,     \* rooms[n]: Provider.rooms of node n for the document
  room,      \* room[r]: the contents of a providerRoom
  flight,    \* flight[n]: the singleflight load of node n
  conn,      \* conn[c]: where connection c's goroutine is
  acked      \* history: updates whose sender was told they were applied

store == <<snapshot, log, next>>
local == <<rooms, room, flight, conn>>
vars == <<gen, owner, snapshot, log, next, rooms, room, flight, conn, acked>>

-----------------------------------------------------------------------------
Fence == [node : Nodes, epoch : Nat \ {0}]

ASSUME NoneAssumption == None \notin Fence

Record == [offset : Nat \ {0}, epoch : Nat \ {0}]

Checkpoint == [doc : SUBSET Nat, through : Nat, epoch : Nat]

\* A recovery in progress: the state replayed so far, the offset and epoch it
\* got to, and the checkpoint it started from.
Recovery == [doc : SUBSET Nat, through : Nat, epoch : Nat, base : Nat]

Room == [doc : SUBSET Nat, lastOffset : Nat, compactedAt : Nat,
         authority : Fence \cup {None}, authorityLost : BOOLEAN]

\* What Persist copied out of the room before it released the lock.
Capture == [doc : SUBSET Nat, lastOffset : Nat, shouldTrim : BOOLEAN]

NoRecovery == [doc |-> {}, through |-> 0, epoch |-> 0, base |-> 0]
NoCapture == [doc |-> {}, lastOffset |-> 0, shouldTrim |-> FALSE]
NoFlight == [at |-> "none", fence |-> None, rec |-> NoRecovery]
Closed == [at |-> "closed", room |-> None, cap |-> NoCapture, rec |-> NoRecovery, offset |-> 0]
FreshRoom == [doc |-> {}, lastOffset |-> 0, compactedAt |-> 0,
              authority |-> None, authorityLost |-> FALSE]

\* Inside Open, attached to the room, inside Close.
Opening == {"miss", "wait", "attach"}
Attached == {"open", "save", "trim", "mark", "rebuildBase", "rebuildPage"}

TypeOK ==
  /\ gen \in Nat
  /\ owner \in Fence \cup {None}
  /\ snapshot \in Checkpoint
  /\ log \in SUBSET Record
  /\ next \in Nat
  /\ rooms \in [Nodes -> Rooms \cup {None}]
  /\ room \in [Rooms -> Room]
  /\ flight \in [Nodes -> [at : {"none", "resolve", "base", "page"},
                           fence : Fence \cup {None}, rec : Recovery]]
  /\ conn \in [Conns -> [at : {"closed", "remove"} \cup Opening \cup Attached,
                         room : Rooms \cup {None}, cap : Capture,
                         rec : Recovery, offset : Nat]]
  /\ acked \in SUBSET Nat

Init ==
  /\ gen = 0
  /\ owner = None
  /\ snapshot = [doc |-> {}, through |-> 0, epoch |-> 0]
  /\ log = {}
  /\ next = 0
  /\ rooms = [n \in Nodes |-> None]
  /\ room = [r \in Rooms |-> FreshRoom]
  /\ flight = [n \in Nodes |-> NoFlight]
  /\ conn = [c \in Conns |-> Closed]
  /\ acked = {}

-----------------------------------------------------------------------------
(* The shard's authority changes hands: acquisition after a release or an  *)
(* expiry, handoff, and release.                                           *)

Grant(n) ==
  /\ gen < MaxGen
  /\ gen' = gen + 1
  /\ owner' = [node |-> n, epoch |-> gen + 1]
  /\ UNCHANGED <<store, local, acked>>

Revoke ==
  /\ owner # None
  /\ owner' = None
  /\ UNCHANGED <<gen, store, local, acked>>

-----------------------------------------------------------------------------
(* Recovery: RecoverSnapshotState, used by room loads and by rebuilds.     *)

RecoverBase ==
  [doc |-> snapshot.doc, through |-> snapshot.through,
   epoch |-> snapshot.epoch, base |-> snapshot.through]

\* The records ListUpdates may return: those after `after`.
Tail(after) == {x \in log : x.offset > after}

\* ListUpdates(after, limit): the first PageSize of them.
Page(after) ==
  {x \in Tail(after) : Cardinality({y \in Tail(after) : y.offset < x.offset}) < PageSize}

Offsets(records) == {x.offset : x \in records}

Larger(x, y) == IF x >= y THEN x ELSE y

\* validateReplayEpochProgression over a page, after the epoch reached so far.
EpochRegresses(rec, page) ==
  \/ \E x \in page : x.epoch < rec.epoch
  \/ \E x, y \in page : x.offset < y.offset /\ y.epoch < x.epoch

\* The page after rec can be applied, and `last` is its last record.
Replayable(rec, last) ==
  /\ \A x \in Page(rec.through) : x.offset <= last.offset
  /\ ~EpochRegresses(rec, Page(rec.through))

\* replayUpdateBatchContext
Replay(rec, last) ==
  [rec EXCEPT !.doc = @ \cup Offsets(Page(rec.through)),
              !.through = last.offset, !.epoch = last.epoch]

-----------------------------------------------------------------------------
(* Store writes under a fence.                                             *)

\* validateAuthorityLocked
FenceHolds(fence) == fence # None /\ owner = fence

\* Fault: the fence is stamped on the record and not compared.
AppendUnfenced(fence) ==
  /\ next < MaxOffset
  /\ fence # None
  /\ next' = next + 1
  /\ log' = log \cup {[offset |-> next + 1, epoch |-> fence.epoch]}
  /\ UNCHANGED snapshot

Append(fence) ==
  /\ next < MaxOffset
  /\ FenceHolds(fence)
  /\ next' = next + 1
  /\ log' = log \cup {[offset |-> next + 1, epoch |-> fence.epoch]}
  /\ UNCHANGED snapshot

\* Fault: the same for a checkpoint.
SaveUnfenced(doc, through, fence) ==
  /\ fence # None
  /\ snapshot' = [doc |-> doc, through |-> through, epoch |-> fence.epoch]
  /\ UNCHANGED <<log, next>>

\* SaveSnapshotCheckpointAuthoritative replaces whatever checkpoint is stored.
SaveCheckpoint(doc, through, fence) ==
  /\ FenceHolds(fence)
  /\ snapshot' = [doc |-> doc, through |-> through, epoch |-> fence.epoch]
  /\ UNCHANGED <<log, next>>

TrimUpdates(through, fence) ==
  /\ FenceHolds(fence)
  /\ log' = {x \in log : x.offset > through}
  /\ UNCHANGED <<snapshot, next>>

-----------------------------------------------------------------------------
(* Rooms and connections.                                                  *)

At(c, step) == conn[c].at = step

Goto(c, step) == conn' = [conn EXCEPT ![c].at = step]

RoomOf(c) == room[conn[c].room]

\* room.connections
Members(r) == {c \in Conns : conn[c].room = r /\ conn[c].at \in Attached}

\* applyDocumentPayloadLocked holds the room's lock through a rebuild; no other
\* operation of the code keeps it across a store call it can be observed in.
Unlocked(r) ==
  \A c \in Conns : conn[c].room = r => conn[c].at \notin {"rebuildBase", "rebuildPage"}

Lose(r) == room' = [room EXCEPT ![r].authorityLost = TRUE]

Free(r) ==
  /\ \A n \in Nodes : rooms[n] # r
  /\ \A c \in Conns : conn[c].room # r

\* The callers of ensureRoom that share the load of node n.
Waiting(n) == {c \in Conns : NodeOf[c] = n /\ At(c, "wait")}

-----------------------------------------------------------------------------
(* Open: ensureRoom and loadRoom, then attach.                             *)

\* ensureRoom finds the room, or misses.
OpenLookup(c) ==
  LET r == rooms[NodeOf[c]] IN
  /\ At(c, "closed")
  /\ conn' = [conn EXCEPT ![c].at = IF r = None THEN "miss" ELSE "attach", ![c].room = r]
  /\ UNCHANGED <<gen, owner, store, rooms, room, flight, acked>>

\* roomLoads.Do: join the load under way, or start one, which looks again
\* whether the room appeared meanwhile.
OpenJoin(c) ==
  LET n == NodeOf[c] IN
  /\ At(c, "miss")
  /\ IF flight[n].at = "none" /\ rooms[n] # None
       THEN /\ conn' = [conn EXCEPT ![c].at = "attach", ![c].room = rooms[n]]
            /\ UNCHANGED flight
       ELSE /\ Goto(c, "wait")
            /\ flight' = IF flight[n].at # "none" THEN flight
                         ELSE [flight EXCEPT ![n].at = "resolve"]
  /\ UNCHANGED <<gen, owner, store, rooms, room, acked>>

\* The load fails: the node is not the owner or its lease expired, the first
\* caller's context ended, or the store failed.  Every caller gets the error.
LoadFails(n) ==
  /\ flight[n].at # "none"
  /\ flight' = [flight EXCEPT ![n] = NoFlight]
  /\ conn' = [c \in Conns |-> IF c \in Waiting(n) THEN Closed ELSE conn[c]]
  /\ UNCHANGED <<gen, owner, store, rooms, room, acked>>

\* Fault: another node's ownership is taken for the local one.
ResolveAnyOwner(n) ==
  /\ flight[n].at = "resolve"
  /\ owner # None
  /\ flight' = [flight EXCEPT ![n] = [at |-> "base", fence |-> owner, rec |-> NoRecovery]]
  /\ UNCHANGED <<gen, owner, store, rooms, room, conn, acked>>

\* resolveRoomAuthority: only the local owner gets a fence.
LoadResolve(n) ==
  /\ flight[n].at = "resolve"
  /\ owner # None /\ owner.node = n
  /\ flight' = [flight EXCEPT ![n] = [at |-> "base", fence |-> owner, rec |-> NoRecovery]]
  /\ UNCHANGED <<gen, owner, store, rooms, room, conn, acked>>

\* loadReplayBaseSnapshot
LoadBase(n) ==
  /\ flight[n].at = "base"
  /\ flight' = [flight EXCEPT ![n].at = "page", ![n].rec = RecoverBase]
  /\ UNCHANGED <<gen, owner, store, rooms, room, conn, acked>>

LoadPage(n) ==
  /\ flight[n].at = "page"
  /\ \E last \in Page(flight[n].rec.through) :
       /\ Replayable(flight[n].rec, last)
       /\ flight' = [flight EXCEPT ![n].rec = Replay(flight[n].rec, last)]
  /\ UNCHANGED <<gen, owner, store, rooms, room, conn, acked>>

\* Fault: the offset of the recovered state is not carried over.
LoadedWithoutOffset(n) ==
  [doc |-> flight[n].rec.doc, lastOffset |-> 0,
   compactedAt |-> flight[n].rec.base, authority |-> flight[n].fence,
   authorityLost |-> FALSE]

\* The room a finished recovery gives.
LoadedRoom(n) ==
  [doc |-> flight[n].rec.doc, lastOffset |-> flight[n].rec.through,
   compactedAt |-> flight[n].rec.base, authority |-> flight[n].fence,
   authorityLost |-> FALSE]

\* The tail is exhausted: the room is built and published, unless the map got
\* one meanwhile, and every caller of the load is given it.  (The empty page
\* and the publication are one step: what may come between commutes.)
LoadPublish(n) ==
  /\ flight[n].at = "page"
  /\ Tail(flight[n].rec.through) = {}
  /\ \E r \in Rooms :
       LET given == IF rooms[n] = None THEN r ELSE rooms[n] IN
       /\ Free(r)
       /\ room' = [room EXCEPT ![r] = LoadedRoom(n)]
       /\ rooms' = [rooms EXCEPT ![n] = given]
       /\ conn' = [c \in Conns |-> IF c \in Waiting(n)
                                   THEN [Closed EXCEPT !.at = "attach", !.room = given]
                                   ELSE conn[c]]
  /\ flight' = [flight EXCEPT ![n] = NoFlight]
  /\ UNCHANGED <<gen, owner, store, acked>>

\* The second half of Open, under the room's lock.
Attach(c) ==
  /\ At(c, "attach")
  /\ Unlocked(conn[c].room)
  /\ conn' = [conn EXCEPT ![c] = IF RoomOf(c).authorityLost THEN Closed
                                 ELSE [@ EXCEPT !.at = "open"]]
  /\ UNCHANGED <<gen, owner, store, rooms, room, flight, acked>>

-----------------------------------------------------------------------------
(* HandleEncodedMessages with a document update.                           *)

\* The connection is served and its room can be used.
Usable(c) ==
  /\ At(c, "open")
  /\ Unlocked(conn[c].room)
  /\ ~RoomOf(c).authorityLost

\* The update is appended under the fence and merged into the room.
HandleUpdate(c) ==
  /\ Usable(c)
  /\ Append(RoomOf(c).authority)
  /\ room' = [room EXCEPT ![conn[c].room].doc = @ \cup {next'},
                          ![conn[c].room].lastOffset = next']
  /\ acked' = acked \cup {next'}
  /\ UNCHANGED <<gen, owner, rooms, flight, conn>>

\* The append succeeds and the merge does not (its context ended): the room is
\* rebuilt from the store, with the lock held.
HandleMergeFails(c) ==
  /\ Usable(c)
  /\ Append(RoomOf(c).authority)
  /\ conn' = [conn EXCEPT ![c].at = "rebuildBase", ![c].offset = next']
  /\ UNCHANGED <<gen, owner, rooms, room, flight, acked>>

\* The store refuses the append: the fence is stale, or the lease expired.
HandleRefused(c) ==
  /\ Usable(c)
  /\ Lose(conn[c].room)
  /\ UNCHANGED <<gen, owner, store, rooms, flight, conn, acked>>

RebuildBase(c) ==
  /\ At(c, "rebuildBase")
  /\ conn' = [conn EXCEPT ![c].at = "rebuildPage", ![c].rec = RecoverBase]
  /\ UNCHANGED <<gen, owner, store, rooms, room, flight, acked>>

RebuildPage(c) ==
  /\ At(c, "rebuildPage")
  /\ \E last \in Page(conn[c].rec.through) :
       /\ Replayable(conn[c].rec, last)
       /\ conn' = [conn EXCEPT ![c].rec = Replay(conn[c].rec, last)]
  /\ UNCHANGED <<gen, owner, store, rooms, room, flight, acked>>

\* The goroutine leaves a store call and goes on serving.
Served(c) == conn' = [conn EXCEPT ![c] = [Closed EXCEPT !.at = "open", !.room = conn[c].room]]

\* What the rebuild puts into the room; its authority is kept.
RebuiltRoom(c) ==
  [RoomOf(c) EXCEPT !.doc = conn[c].rec.doc,
                    !.lastOffset = Larger(conn[c].rec.through, conn[c].offset),
                    !.compactedAt = conn[c].rec.base]

RebuildDone(c) ==
  /\ At(c, "rebuildPage")
  /\ Tail(conn[c].rec.through) = {}
  /\ room' = [room EXCEPT ![conn[c].room] = RebuiltRoom(c)]
  /\ acked' = acked \cup {conn[c].offset}
  /\ Served(c)
  /\ UNCHANGED <<gen, owner, store, rooms, flight>>

\* The recovery fails too: the sender gets an error, the room stays as it was.
RebuildFails(c) ==
  /\ conn[c].at \in {"rebuildBase", "rebuildPage"}
  /\ Served(c)
  /\ UNCHANGED <<gen, owner, store, rooms, room, flight, acked>>

-----------------------------------------------------------------------------
(* Persist: capture under the lock, then save, trim and mark without it.   *)

PersistCapture(c) ==
  LET r == RoomOf(c) IN
  /\ Usable(c)
  /\ conn' = [conn EXCEPT ![c].at = "save",
                          ![c].cap = [doc |-> r.doc, lastOffset |-> r.lastOffset,
                                      shouldTrim |-> r.lastOffset > r.compactedAt]]
  /\ UNCHANGED <<gen, owner, store, rooms, room, flight, acked>>

PersistSave(c) ==
  LET cap == conn[c].cap IN
  /\ At(c, "save")
  /\ SaveCheckpoint(cap.doc, cap.lastOffset, RoomOf(c).authority)
  /\ IF cap.shouldTrim THEN Goto(c, "trim") ELSE Served(c)
  /\ UNCHANGED <<gen, owner, rooms, room, flight, acked>>

PersistTrim(c) ==
  /\ At(c, "trim")
  /\ TrimUpdates(conn[c].cap.lastOffset, RoomOf(c).authority)
  /\ Goto(c, "mark")
  /\ UNCHANGED <<gen, owner, rooms, room, flight, acked>>

PersistMark(c) ==
  /\ At(c, "mark")
  /\ Unlocked(conn[c].room)
  /\ room' = [room EXCEPT ![conn[c].room].compactedAt = Larger(@, conn[c].cap.lastOffset)]
  /\ Served(c)
  /\ UNCHANGED <<gen, owner, store, rooms, flight, acked>>

\* The store refuses the save or the trim.
PersistRefused(c) ==
  /\ conn[c].at \in {"save", "trim"}
  /\ Unlocked(conn[c].room)
  /\ Lose(conn[c].room)
  /\ Served(c)
  /\ UNCHANGED <<gen, owner, store, rooms, flight, acked>>

\* The store fails, or the persist timeout ends the call, before it took effect.
PersistFails(c) ==
  /\ conn[c].at \in {"save", "trim"}
  /\ Served(c)
  /\ UNCHANGED <<gen, owner, store, rooms, room, flight, acked>>

-----------------------------------------------------------------------------
(* RevalidateAuthority, from the connection's own ticker.  A fence that    *)
(* was replaced stays replaced, so the verdict cannot go stale before the  *)
(* lock is taken again; a lease may also look expired.                     *)
Revalidate(c) ==
  /\ conn[c].at \in Attached
  /\ Unlocked(conn[c].room)
  /\ ~RoomOf(c).authorityLost
  /\ Lose(conn[c].room)
  /\ UNCHANGED <<gen, owner, store, rooms, flight, conn, acked>>

\* Close leaves the room; the last one out goes on to unregister it.
Close(c) ==
  /\ At(c, "open")
  /\ Unlocked(conn[c].room)
  /\ conn' = [conn EXCEPT ![c] = IF Members(@.room) = {c} THEN [@ EXCEPT !.at = "remove"]
                                 ELSE Closed]
  /\ UNCHANGED <<gen, owner, store, rooms, room, flight, acked>>

\* Under Provider.mu, and without looking at the room's connections again.
CloseRemove(c) ==
  LET n == NodeOf[c] IN
  /\ At(c, "remove")
  /\ rooms' = [rooms EXCEPT ![n] = IF @ = conn[c].room THEN None ELSE @]
  /\ conn' = [conn EXCEPT ![c] = Closed]
  /\ UNCHANGED <<gen, owner, store, room, flight, acked>>

\* A node crashes and restarts: everything it held in memory is gone.
Crash(n) ==
  /\ rooms' = [rooms EXCEPT ![n] = None]
  /\ flight' = [flight EXCEPT ![n] = NoFlight]
  /\ conn' = [c \in Conns |-> IF NodeOf[c] = n THEN Closed ELSE conn[c]]
  /\ UNCHANGED <<gen, owner, store, room, acked>>

-----------------------------------------------------------------------------
LoadStep(n) ==
  \/ LoadFails(n) \/ LoadResolve(n) \/ LoadBase(n) \/ LoadPage(n) \/ LoadPublish(n)

ConnStep(c) ==
  \/ OpenLookup(c) \/ OpenJoin(c) \/ Attach(c)
  \/ HandleUpdate(c) \/ HandleMergeFails(c) \/ HandleRefused(c)
  \/ RebuildBase(c) \/ RebuildPage(c) \/ RebuildDone(c) \/ RebuildFails(c)
  \/ PersistCapture(c) \/ PersistSave(c) \/ PersistTrim(c) \/ PersistMark(c)
  \/ PersistRefused(c) \/ PersistFails(c)
  \/ Revalidate(c) \/ Close(c) \/ CloseRemove(c)

Next ==
  \/ Revoke
  \/ \E n \in Nodes : Grant(n) \/ LoadStep(n) \/ Crash(n)
  \/ \E c \in Conns : ConnStep(c)

Spec == Init /\ [][Next]_vars

-----------------------------------------------------------------------------
(* Properties.                                                             *)

\* The updates the store can give back: the checkpoint and the tail after it.
Recoverable == snapshot.doc \cup {x \in Offsets(log) : x > snapshot.through}

\* No acknowledged update is lost, whatever takes over, crashes, fails half
\* way through a Persist or is refused: the store can always give it back.
AckedDurable == acked \subseteq Recoverable

\* The room a node serves under the current fence has every acknowledged
\* update, those of earlier owners included: the fence is resolved before the
\* recovery, so nobody else can still append when the recovery reads.
OwnerRoomComplete ==
  \A n \in Nodes :
    /\ rooms[n] # None
    /\ room[rooms[n]].authority = owner
    => acked \subseteq room[rooms[n]].doc

\* The log, and the checkpoint before it, carry the epochs in order: no write
\* of a replaced owner ever lands behind one of its successor, and recovery
\* never meets ErrUpdateLogEpochRegression.
LogEpochsOrdered ==
  /\ \A x, y \in log : x.offset < y.offset => x.epoch <= y.epoch
  /\ \A x \in log : x.offset > snapshot.through => x.epoch >= snapshot.epoch

\* Persist stores the current state of the document: it never replaces a
\* checkpoint by an older one.
CheckpointAdvances == [][snapshot'.through >= snapshot.through]_snapshot
=============================================================================
