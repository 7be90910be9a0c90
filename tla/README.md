# A TLA+ model of yjs-go-bridge

This directory specifies yjs-go-bridge from the lease table up to the web socket:
*who may write a document* (leases, ownership, rebalancing), *what is never lost*
(rooms, stores, the merge of updates) and *what a connected browser gets* (the
WebSocket server and the relay between nodes). TLC checks small instances; for every
part but the codecs and what is written through them, TLAPS proves the same safety
properties for every value of the constants.

Run everything from this directory:

    tlc -workers 2 -config lease_races.cfg MCLeaseProtocol
    tlapm LeaseProtocol_proofs.tla

`PROJECT.json` lists the components, the runs with their properties, the lines of
code each definition models, the hazards, and the theorems.

## Inventory

| Component (source) | State | Operations | What is hard | Modules |
|---|---|---|---|---|
| Lease table (`pkg/storage/memory/distributed.go`) | a lease record and the last epoch per shard | `SaveLease`, `HandoffLease`, `LoadLease`, `ReleaseLease`, `validateAuthorityLocked` | epochs must survive releases; time is the caller's | LeaseStore, LeaseAuthority |
| Lease adapters and managers (`pkg/ycluster/storage_adapter.go`, `lease_manager.go`) | cached lease, token | `AcquireLease`, `RenewLease`, `HandoffLease`, `Ensure`, `Release` | load, decide, save: three steps that race with other nodes, expiry, skewed clocks, restarts | LeaseProtocol |
| Snapshot and update log (`pkg/storage/memory`) | checkpoint, log, next offset | append, list, trim, save, all under a fence | a replaced owner that has not noticed | AtomicStore, DocumentRooms |
| PostgreSQL store (`pkg/storage/postgres`) | the same, in rows | the same, in transactions | row locks, commit order, lost replies | PostgresStore |
| Recovery (`pkg/storage/replay.go`) | none | checkpoint, then the log page by page | reads a store that changes under it | DocumentRooms, DocumentSync |
| Provider (`pkg/yprotocol/provider.go`) | rooms, connections, state, offsets, fence | `Open`, `HandleEncodedMessages`, `Persist`, `RevalidateAuthority`, `Close` | state captured under a lock and written after it; a load shared by callers; failed merges | DocumentRooms |
| Ownership runtime (`pkg/ycluster/ownership_runtime.go`, `ownership_coordinator.go`) | entries, references, runs | `AcquireDocumentOwnership`, `Release`, `Close`, `ClaimDocument`, `RunDocumentOwnership` | joins of dying entries, leases shared by documents, waiting for the end | OwnershipRuntime |
| Rebalancing and membership (`pkg/ycluster/rebalance*.go`, `membership.go`), owner lookup | plan, targets, health | plan, claim, promote, hand off | a plan that is old when it is executed; undo that fails too | RebalanceControl |
| WebSocket server (`pkg/yhttp/server.go`, `registry.go`, `authority_revalidation.go`, `quota.go`) | requests, peers, revalidators, quota | admit, upgrade, bootstrap, serve, fan out, revalidate, clean up | cleanup that races with a reconnect under the same id | WebSocketServer |
| Awareness (`internal/yawareness`) | a clock and a state per client | apply, remove, announce | removals that cross announcements | Awareness, WebSocketServer |
| Owner-aware edge (`pkg/yhttp/owner_aware.go`, `remote_owner_*.go`, `peers.go`) | streams, bound session, reader | route, handshake, relay, close, rebind, take over | a live socket that changes owner; close messages that get lost | OwnerForwarding |
| Sync and session (`pkg/yprotocol/session.go`), aggregation (`internal/yupdate/aggregate.go`) | canonical payload; workers of one aggregation | merge a log, merge an update, answer a state vector, save, load | workers that fail or are cancelled half-way | Aggregation, DocumentSync |
| Update algebra (`internal/yupdate`) | none | merge, slice, diff, state vectors, selections, garbage collection | structs that overlap, straddle or leave gaps | UpdateAlgebra, ClientStructs |
| Wire formats (`internal/yupdate` codecs) | none | V1, V2, conversion between them | columns that must stay aligned; two forms of values | UpdateWire |
| Id sets (`internal/yidset`) | sorted ranges per client | add, merge, intersect, subtract, has, slice | ranges that touch, contain or straddle each other; the last clock of 32 bits | IdSets, RangeSet |
| Node protocol, rate limits, node authentication, configuration, metrics | frames, windows, nonces | encode, refuse, observe | see *Not modelled* | |

How they meet: a connection arrives at `yhttp`. The owner-aware edge looks up the
document's owner and either serves it locally or relays it to the owner's endpoint.
On the owner the ownership runtime claims the shard's lease through a
`LeaseManager` and saves the placement; `Provider.Open` resolves the fence of that
lease and recovers the document under it; every update is appended to the log
under the fence before it is merged and broadcast. Revalidators notice a loss of
authority, the session persists, closes and gives its ownership back, and the edge
binds the browser to the next owner. Meanwhile a rebalance controller moves
documents by handing leases over.

The models are composed along the same seams. `LeaseAuthority` is what the lease
protocol is proved to implement and what `DocumentRooms` uses for its authority.
`LeaseStore`'s decisions are shared by `LeaseProtocol`, `AtomicStore`,
`PostgresStore` and `RebalanceControl`. `PostgresStore` implements `AtomicStore`,
the store the other modules assume. `WebSocketServer` takes a provider call as one
step, whose inside `DocumentRooms` has; `OwnerForwarding` takes a room as the
authority it was opened with; `DocumentRooms` takes a document for the set of the
updates merged into it, which `DocumentSync` shows to be right.

## Modules

**LeaseStore** holds the decisions of the lease table as pure operators, one per
method, each over the current record, the last epoch and the arguments: the
methods run under `Store.mu`, so each decision is atomic. `SaveIsStale`,
`SaveConflicts` and the expiry check are the branches of the switch of
`SaveLease`, in its order.

**LeaseAuthority** is the abstract specification: per shard a generation counter
and an owner; a step grants the next generation or revokes the owner.

**LeaseProtocol** composes managers over the table. A call is a program counter
and its local variables (`call[m]`): what it loaded, the instant it read, the
epoch it will ask for. Every store call is a step of its own, so anything may
happen between a load and its save. A node's clock may run ahead (`Skew`), a
token is configured or minted from holder and instant, a renewal may commit and
its reply be lost, and a manager may restart at any step.

**DocumentRooms** is one document, served by the providers of several nodes over
one store. An update is named by its log offset and a document is the set of
updates merged into it (merges of Yjs updates commute and are idempotent). The
authority is `LeaseAuthority`'s, which the lease protocol is proved to
implement, so the two modules compose through it: `Grant` and `Revoke` are the
only ways the fence the store accepts changes, and a fence is a node and an epoch
because an epoch names one generation (`GenerationUnique`). `flight[n]` is the
singleflight load of `ensureRoom`; `conn[c].at` is where a connection's goroutine
is. A room's lock is not a variable: each locked region is one step, except the
rebuild after a failed merge, which keeps the lock over store calls (`Unlocked`).

**OwnershipRuntime** is one node's runtime: the map of entries, references, the
goroutine of every run with its claim, renewals and release, and callers that
acquire, give up, release and close. Leases are shared by the documents of a
shard. Time is abstracted into "a lease may lapse" and faults into "a call may
fail", both of which a run can switch off.

**AtomicStore** is what a distributed store promises: every method takes effect at
one instant. It is the in-memory store, whose methods hold `Store.mu`, for one
document placed on one of several shards.

**PostgresStore** has the same methods as transactions at READ COMMITTED. A
statement is a step: it locks the row it reads `FOR UPDATE` or writes, or waits for
it; what is written is visible from the commit on. Missing rows do not lock, which
is why lease calls first insert the generation row. A transaction may fail at any
step and roll back, or commit and lose its reply: a caller that retries is another
call. The refinement maps the committed tables to AtomicStore's.

**RebalanceControl** runs calls of the coordinator (claim, promote, handoff,
rebalance) as chains of store calls, next to the controller's cycles: list
documents, list members and pick the healthy targets among them (either list may fail
and end the cycle), look every owner up, plan, execute move by move. A member's health
record has a state, whether its labels match, and when it was last seen, if ever.
Planner and target filter are operators over loads and health records; nodes and
documents are sets, and where the code goes through a sorted list, `Rank` orders them
(`First`). A store call
may fail; a call whose context has ended fails in every later store call, the
release that undoes a claim included. `holders` is a history of who was given each
generation.

**Awareness** is what a `StateManager` knows of one client and the rule of its
merge; **WebSocketServer** runs requests over it. A request is its goroutine's place
(`pc`), from the quota to the last deferred call; `registry` and `sessions` are the
two maps keyed by connection id, so that a reconnect (two requests with the same
`IdOf`) meets the cleanup of its predecessor; `view` is what a browser has been
told. Each broadcast is a step per receiver (`out`). An awareness message carries
entries of any clients with any clocks, as `HandleEncodedMessages` accepts them;
`echoed` is the history of the clients that a connection of another one spoke for.

**OwnerForwarding** is one browser at an edge while the document's owner moves. The
edge's handler, the reader of the web socket, the endpoint of every stream and the
revalidators are processes; a stream has a queue each way and can break. `clientErr`
is the channel with room for one result over which the reader reports its end,
and through which the handler learns it exactly once. Opening a connection, making it
known and bootstrapping it are steps of their own, on the edge and at an endpoint; a
bootstrap, the send of an acknowledgement and a relayed write may fail. `edge.tracked`
says whether the stream in use is the one that the deferred cleanup of the bridge has.

**IdSets**, **UpdateAlgebra** and **UpdateWire** are the pure algorithms, as operators:
ranges of ids; structs, merge, slicing, diff, vectors, selections and garbage
collection; the V1 stream and V2's columns with their run-length codings, over
values instead of bytes. An element of a text is named by the clock it was created
at, so a wrong slice or a shifted clock shows.

The algebra has no RECURSIVE operator: its loops are recursive functions over the
index or the number of rounds, which can be proved about. `UpdateWire`'s readers are
RECURSIVE.

**RangeSet** is an id set seen from one client, through any sequence of the calls
that change it: the ranges (`held`) next to the clocks they should stand for
(`ids`). Lengths are cut to `Width` where the code cuts them to 32 bits.

**ClientStructs** is what a document holds of one client, through any sequence of
merges (`Receive`) and garbage collections (`CollectGarbage`): the structs, and the
deleted ranges, which are a `RangeSet`. `received` is the history of what came in. Merge,
diff, count, selection and collection go through an update client by client, so one
client shows what they do; what items of other clients refer to is chosen freely
(`Foreign`).

**Aggregation** is `aggregatePayloadsInParallel`: a queue of jobs, workers that take,
fail, cancel and give up, and the caller that collects; a log goes through it twice,
to detect its format and to merge it. **DocumentSync** extends it and `UpdateWire`
and puts the algorithms to work: the merged log is stored, loaded into a session, and
grows by updates and reloads. Its properties compare each algorithm with a definition
over sets of ids and elements, on every document that can be reached.

`MC*` modules give the constants small values. Definitions introduced by a comment
that starts with *Fault* are wrong on purpose: each is the plausible error that a
property is there to catch, and the mutants of `PROJECT.json` put it in place of
the right one.

## Runs

| Run | Shows | Bounds |
|---|---|---|
| `lease_races` | the table keeps the newest generation, an epoch names one generation, the protocol implements `LeaseAuthority` | 2 managers of 1 shard, one with a configured token, skewed clocks, 3 instants, 3 epochs, TTL 2 |
| `lease_belief` | two holders never both believe; a believed lease is the stored one | 2 nodes, equal clocks, no handoff, 5 instants |
| `rooms_failover` | no acknowledged update is lost, the owner's room is complete, epochs are in order, no checkpoint is replaced by an older one | 2 nodes with a connection each, pages of 1 record, 2 updates, 3 generations |
| `rooms_overlap` | *violated*: overlapping Persists of one room leave the older checkpoint | 1 node, 2 connections, pages of 1 record, 3 updates, 2 generations |
| `ownership_own_shards` | without sharing and faults, a live run's lease is the stored one, and a stored lease has a run that gives it back | 2 shards, 3 entries, 4 tokens |
| `ownership_live` | one run per document, references counted, cancelled runs end, waiting callers go on | 1 document, 2 callers, lapses and faults |
| `postgres` | the transactions implement `AtomicStore`, never wait in a circle, and records become visible in offset order | 2 sessions of 2 nodes, 2 shards (leases on one, the other only placed), 2 epochs, 2 offsets, 2 instants |
| `cluster` | a rebalance reports the truth, plans balance, the controller settles or stops | 2 nodes, 2 documents, controller and one user, 2 events (calls, faults, health reports), 2 instants; reports of members that are ready, draining, or unlabelled and never seen; one member's record grows stale |
| `server` | resources balance, serving sessions are registered, no ghosts, presence reaches everyone, a room without authority ends | 3 requests, two of them a reconnect, quota of 2, 2 awareness messages of an entry each, of either client and with clock 0 or 1, 1 loss of the lease |
| `forward` | edge and owner agree on the epoch, handles balance, no update is missed, the browser settles, orphaned connections end | 2 nodes, owner moves or expires twice, 2 streams, 1 frame, 1 write of another client, failures anywhere |
| `forward_handoff` | *violated*: a handoff may leave the web socket without a reader | as `forward` |
| `updates` | an aggregation that goes on has the result of every payload and ends; the document is exactly what was received; merge, diff, vectors, selections, persistence and codecs agree with their reference definitions | 9 logs, 10 updates of 2 clients with up to 6 clocks, 2 workers, 4 updates or reloads after the load |
| | next to it: an id set after any sequence of calls (`IdSetExact`) | width 8, clocks below 7, all 128 sets of clocks as states and as operands |
| | and the structs of one client after any merges and collections (`StructsExact`) | 8 updates of up to 7 clocks: runs, holes, a collected run, deletes; 2 references from elsewhere |

The bounds are the smallest in which the interesting cases occur. Three epochs let
a shard be released, taken over and handed off again, so that an old call meets a
table two generations on. Two updates with pages of one record give recovery a
page boundary, and three generations let a node lose the document and get it
back. In the runtime a third entry only matters as one that is finished and still
referred to, which two entries already give. Two sessions are enough for a
transaction to be overtaken at each of its statements, and for a circle of waits;
the second shard is there for the placement to move away from a fence. Two events
let the controller meet a call of a user that is itself half-way through, or a
fault in the undoing of a fault. Two moves of the owner give every sequence of
local and remote owners of length three, and two streams a late message of the
first during the second. The updates cover structs that are equal, adjacent,
overlapping, sliced elsewhere, behind a gap, collected and deleted in part; the
logs of five and more payloads take the parallel path (`SequentialMax` is the
code's 4), with payloads that fail to be detected or to be decoded. Two workers let
one fail while the other is between taking a job and sending its result, or still
looks for a job. Seven clocks make room for three ranges with gaps between them, so
that an operand can touch one, swallow one and straddle one; the width is one more,
so that a clock outside every range exists. The three machines of `updates` share no
variable; `MCDocumentSync` lets the id set move where a load has failed and the structs
of one client where an empty document is served, so that one run covers them without
their product.

Rooms, callers, entries, tokens and sessions are interchangeable (`SYMMETRY`, in
runs without liveness), and a `VIEW` ignores what unreachable rooms and free
entries still contain. `lease_belief` states what the leases are worth *without*
the fence, and therefore names what it needs: equal clocks, one manager per node,
no handoff. Runs whose processes really come to an end (a closed runtime, a stopped
controller, finished requests, a session that has received all it will) switch
deadlock checking off.

Type invariants are not repeated in every run: `TypeCorrect` and `AggregationTyped` prove
them for every value of the constants. In five runs one invariant has the module's
`TypeOK` as its first conjunct (`NoDeadlockVictim`, `ReportsTrue`, `ResourcesBalanced`,
`HandlesBalanced`, `DocumentExact`). `updates` groups `VectorsExact` under
`DiffCompletes`, `IdSetAlgebra` under `SelectionExact`, `FormsHonoured` under
`WireFaithful`, `RangesExact` and `AnswersExact` under `IdSetExact`, and `AnswersComplete`,
`PeersCatchUp`, `SelectionsExact` and `CollectionSafe` under `StructsExact`.

### Disagreements between code and its documentation

`forward_handoff`: the README of the repository promises a transparent handoff of the
browser between owners on the same web socket. When a *local write* is what meets
the loss of authority, `pipeClientToLocal` returns with the write's error;
`serveSwitchable` takes that result out of `clientErrCh`, sees the signal, and hands
the request to the remote owner. The bridge waits on the drained channel and starts
no reader, so nothing the browser sends is read any more; `takeoverLocalOwner` does
the same. When the revalidator notices first, the reader lives on and the handoff
is transparent.

`rooms_overlap`: "Persist grava o snapshot autoritativo atual do documento"
(`pkg/yprotocol/provider.go:438`). Two `Persist` calls of one room may leave the older
checkpoint, since the state is captured under the lock and saved after it and the store
overwrites unconditionally. With the trim of the newer one already done, the updates
between the two are in neither the checkpoint nor the log. `rooms_failover` checks the
same property where every node has one connection of the document, and there it holds.

More, which are not among the runs. TLC finds the first five in the modules as they
stand, with the formula and the constants named; the last three are cases that a
property excludes by name.

* *Orphaned room.* With `MCTogether` the room a connection uses need not be the registered
  one (the formula `Registered` of `DocumentRooms_proofs`): an `Open` between the two
  halves of the last `Close` attaches to a room that is no longer in the map, and the
  next `Open` builds another ("Open cria ou reutiliza o room do documento",
  `provider.go:136`).
* *Rebuild and Persist.* With `MCTogether` and overlapping Persists left out, `AckedDurable`
  still fails: the rebuild after a failed merge reads checkpoint and log in two calls,
  and a `Persist` of another connection that saves and trims between them makes it
  miss updates.
* *Joining a dying entry.* `HandleActive` of `OwnershipRuntime`: an acquire joins an entry whose
  run was just cancelled, and gets a handle to ownership that is being released
  ("garante ownership ativo", `pkg/ycluster/ownership_runtime.go:117`).
* *Shared shard.* `LeaseActive` with `MCSameShard`: the end of one document's run releases the
  lease of the shard, which another document's run has adopted
  (`ownership_coordinator.go:346`).
* *Clocks at the width.* `RangesExact` with `Top = Width`: "A forma interna sempre é normalizada:
  length > 0" (`internal/yidset/range.go:4`). `NewRange` accepts ranges up to and including
  the clock 2^32 - 1; ranges that together hold every clock merge into one whose
  length, cut to 32 bits (`range.go:55`), is 0. `AnswersExact` with `Top = Width`: "Slice
  retorna uma partição do intervalo" (`slice.go:10`). The end of a range that holds the last
  clock is 2^32, and
  `slice.go:41` cuts it to 0: the range is reported missing and the gap before it comes
  twice. Clocks that high are valid ids but no document of practical size has
  them; the theorems about id sets and structs have exactly this as their hypothesis
  (`Top < Width`).
* *The bridge's last stream.* The deferred cleanup of `serveRemoteForwardedSocket`
  (`remote_owner_forward.go:280`) has its session evaluated where it is deferred. When the
  request came back from a local session to a remote owner, or has its second stream
  after a local start, the stream in use at the end is another one: nobody closes it or
  sends its owner a Disconnect, unless its transport ends with the context it was
  dialled under, and the owner keeps the connection until its authority moves.
  `EndBridge` models this (`edge.tracked`), and `OrphansEnd` exempts these streams.
* *V2 state vectors.* `stateVectorFromBlockSet` (`state_vector_api.go:64-81`) gives the end of
  the last struct, so with a gap it claims ids the document lacks, and a peer that answers
  it leaves the gap open. The V1 vector stops at the gap. `update_contract_test.go:442-468`
  expects the two to be equal and holds for its fixture, which has no gap. `VectorsExact`
  says what each one claims: V1 the gap-free prefix, V2 one more than the last clock held.
* *Echoed presence.* `HandleEncodedMessages` (`provider.go:856-864`) applies and rebroadcasts
  awareness entries of any client, and `Close` (1000-1015) withdraws only the connection's
  own. An entry of a departed client that another browser sends again stays for good.
  `NoGhosts` is about the clients outside `echoed`.

### Hazards without a property

Met while modelling, real in the code, and not the subject of a property:

* `authority_revalidation.go:67` removes by connection id alone: the cleanup of an old
  session unregisters its reconnect, which only the periodic revalidator reaches then.
* `yawareness/state.go:425`: a late removal with an equal clock deletes the presence a
  client has announced again; `state.go:284` reads and sets the local state under two
  locks.
* `remote_owner_forward.go`: frames in flight on the old stream are dropped at a handoff
  and come back only with the browser's next sync.
* `rebalance.go`: a move hands over the shard, so documents that share it move along
  although the plan counted one; with shared shards plans may undo each other. The
  `cluster` run has a shard per document.
* `gc.go:87`: the part of an item behind a collected window gets an origin inside that
  window, which Yjs integrates as collected; `gc.go:111` does not count parents as
  references. `PersistKeepsLive` excludes the reference the cut creates.
* `decoder_v2.go:316` tells a JSON text from a lib0 value by its first byte, which a text
  of 116 to 127 bytes shares.
* `session.go:227` merges into a copy read under another lock than it writes under; the
  provider serialises the calls.

### Fairness

A goroutine that can take a step is scheduled, and a store call or a write returns,
with a result or with an error. That is weak fairness of:

* `ownership_live`: `RunStep` outside `"run"`, `RunStops` when cancelled (`Run` looks at its
  context in every round), and callers blocked on a closed channel. Nothing is
  assumed of callers releasing their handles, of a caller's context ending, or of
  leases being renewed.
* `cluster`: the controller's cycle (its ticker fires again) and the steps of a call
  under way; a call whose context has ended does fail. Users need not call, store calls
  and lists need not fail, members need not report, time need not pass.
* `server`: each request's own goroutine and its revalidator, whose ticker fires again
  when revalidation is on (`Periodic`). Browsers need neither send nor leave.
* `forward`: the handler, the reader, the local revalidator and each stream's endpoint.
  Owners need not move, streams need not break, bootstraps and relayed writes need not
  fail (`Failure`), the browser need not leave.
* `updates`: the workers and the collecting caller. Contexts need not end.

## Proofs

Every theorem is of the form *the specification implies always the property* (or a
step property, or a refinement), for every value of the constants that satisfies
the assumptions of its module: the maps from connections, users and managers to
nodes are total, `None` is not a member of the sets it is used beside, limits and
TTLs are numbers. The bounds (`MaxEpoch`, `MaxEvents`, `MaxOffset`, ...) are arbitrary.
Where a property needs more, the theorem says so, either by an `ASSUME` over the
constants or by naming a specification with fewer steps.

* **LeaseProtocol_proofs**. `Inv` is `TypeOK`, `StoreInv` (a stored lease has the
  counter's epoch and is in the history; granted epochs are exactly 1 up to the
  counter, each once) and `CallsBacked` (what a call in progress carries from a
  load was really granted, and the epoch it asks for is at most one ahead of the
  counter). The last part is what makes the rest inductive: a save is judged
  against a table that has moved on, and only the history says what the loaded
  record was. Every action is first shown to be one of the store's steps (renew,
  grant, revoke, nothing); the invariants and the refinement follow from those
  alone. Theorems: `TypeCorrect`, `StoreNeverRegresses`, `EpochNamesOneGeneration`,
  `EpochsHaveNoGaps`, `RefinesAuthority`.
  The second half is about what a *cached* lease is worth: `BeliefIsBacked` and
  `OneBeliever`, for `SpecNoHandoff` and a `Deployment` with equal clocks, one manager
  per node and shard, and tokens that no two nodes share. These are the conditions of
  `lease_belief`. The invariant dates
  every record in use (no record is from the future, none outlives its TTL) and says
  that the record an adoption is about to cache is backed by the store as the cached
  one is, so that a save which arrives late finds it expired or unchanged.
* **DocumentRooms_proofs**. `Inv` is `TypeOK`, `HasRoom` (a connection past `Open` has a
  room), `Bounded` (no epoch anywhere exceeds the newest generation, no offset the
  last one given out), `Covered` (if the store still accepts the fence of a room, or
  of a captured Persist, every record beyond the offset it claims is of that
  fence's epoch, so a checkpoint saved under it cannot be newer than the tail it
  leaves) and `LogEpochsOrdered` itself. Theorems: `TypeCorrect`, `FencedLogOrdered`,
  for `Spec` with all its races.
  That acknowledged updates survive does not hold when connections of one node race as
  reported above, so it is proved under `OneConnection`: each node serves at most one
  connection of the document at a time, as in `rooms_failover`. This is a condition on
  the constants; the steps are all those of `Spec`. `FailoverKeepsUpdates`,
  `FailoverRoomComplete` and `FailoverCheckpointsAdvance` hold for any number of nodes.
  Their invariant `DurInv` is needed because what the store will hold is decided by copies
  made earlier: of the room, of a load's and of a rebuild's recovery, and of the capture of
  a Persist it says that, while its fence is the valid one, the copy and the log after its
  offset together have everything that is owed, which is what was acknowledged plus the
  appends whose rebuild is not over. Its part `Serial` says that the room in use is the
  registered one and that Persists and rebuilds of a node do not meet, which follows from
  `OneConnection` (`SerialKept`).
* **OwnershipRuntime_proofs**. `Inv` is `TypeOK` and `Mapped`: the map of entries names
  every run. Theorems: `TypeCorrect`, `OneRunPerDocument`. `ReferencesCounted` adds that an
  entry in the map runs and that whoever waits or holds refers to a started entry.
  `CachedLeaseStored` assumes a shard per document and no lapses (without the first the
  finding *Shared shard* refutes it, without the second expiry does) and follows a lease
  from claim to release. `NoLeaseForgotten` assumes that no store call fails: its invariant
  says that, until Close, a run is cancelled only after its claim has ended, so it never
  leaves between storing the lease and releasing it.
* **PostgresStore_proofs**. `Inv` ties the place of a transaction to the row locks it holds
  in both directions (`HeldLocks`, `LocksHeld`) and says that what it decided on the rows it
  locked still holds of them (`Decided`). That is what makes the commit of a transaction
  one step of `AtomicStore` (`RefinesAtomicStore`) although statements of others come
  between its own. A missing lease row cannot be locked; there the lock of the generation
  row excludes the others, and `Stored` says what the stored lease is by then.
  `DeadlockFree` ranks the rows: every transaction takes its locks upwards.
  `OffsetsInOrder` follows from the lock on the head of the log.
* **RebalanceControl_proofs**. `ReportsAreTrue` needs, of each call under way, that the lease
  it remembers from its lookup was really granted (`Backed`), and of the table that it
  agrees with the history (`Recorded`); the accepted handoff then names the very
  generation the lookup saw, because epochs are compared and not only tokens.
  `PlansBalance` needs an invariant of plans under construction (`Sound`): no document is
  in two places of a plan, and what a target was *given* by moves is at most one more
  than any target's load (`Fair`). Hence shedding ends balanced even when the most loaded
  target has no document left to give.
* **WebSocketServer_proofs**. `Structure`: a room's members are the requests between `Open`
  and `Close`, no two with one connection id or client, and whoever serves is
  registered. `Balanced` counts quota and handles. `GhostInv` gives, for every state of a
  client that a browser shows or is about to, its evidence: a connection of the client
  with at least that clock, or a removal that is still to be written to that browser. It
  is about clients that no connection of another client spoke for, whatever clocks their
  own ones send. Theorems: `AccountsBalance`, `ServingRegistered`, `NoGhostsShown`.
* **OwnerForwarding_proofs**. `Inv` says whose every open connection is and that it has the
  epoch the edge asked for (`Bindings`), which node the newest epoch speaks for
  (`EpochsHeld`), whose the handles are (`Balanced`), and where the newest update is while
  the browser lacks it: it will be asked for, or it is in the stream (`Fed`). Theorems:
  `EpochsAgree`, `HandlesReturned`, `BrowserUpToDate`. They hold in `forward_handoff` too,
  whose violated property is a liveness property.

* **Updates_proofs**. *Aggregation*: `PassesComplete` looks at a pass when it ends. Its
  invariant says where each job is before that: with a worker, sent or still in the
  queue as long as the context is alive (`Jobs`), and why a worker has returned: the
  context is done or no job is left (`Returned`). The merge pass inherits its format
  from the detect pass (`Detected`). Theorems: `AggregationTyped`, `PassesAreComplete`,
  `MergedOfOneFormat`.
  *Id sets*: `RangesStayExact` and `AnswersStayExact`, together `IdSetStaysExact`, for every
  width, every operand in normal form and every clock below a `Top` less than the
  width; the two disagreements above show that the hypothesis is needed. Each
  operation is a loop over ranges, so each has a lemma about its result (`AddedAll`,
  `United`, `Intersected`, `Subtracted`, `Found` for the binary search, `Sliced`) with the
  invariant of the loop inside: for `Add` that what has been absorbed so far and what is
  still to come are apart, for the two cursors of the intersection that what lies
  behind both has been compared.
  *Structs of a client*: `StructsStayExact`, for every set of updates and every way to
  interleave merges and collections. `ClientInv` says of the structs that they are `Good`
  (a row without holes that neither starts nor ends with a Skip), that every one is
  accounted for by what was received or deleted (`Accounted`), and that the clocks held are
  those received, up to deleted ones. It is stated with `Held` over positions in the list,
  which concatenation and slicing respect. A merge of overlapping lists is a weave:
  `Woven` says that what is written so far is a row up to `next` that holds what the two
  lists hold below it, and that the sides still have the rest; `Standing` adds that the
  row starts with no Skip and ends with one only where a side goes on. `RoundStanding` shows that a round keeps both and that two rounds use up a struct,
  so that after twice as many rounds as structs both sides are empty (`OverlappingMerged`,
  and `Inserted` for the whole merge). A collection is a walk over the deleted ranges
  with a cursor: what is behind it has been cut into kept windows and collected ones,
  and only deleted clocks without a reference are in the latter (`StructCollected`,
  `ListCollected`). `DiffIs`, `CountV1Is` and `CountV2Is` say what answers and state vectors
  are worth, `CountV2Held` that the last clock a V2 count claims is really held; from them
  follows `PeersCatchUp`, that a peer with any update, gaps included, has
  everything of both sides after merging the answer to its count. A selection is two
  nested loops: `WrittenTo` says what the ranges so far have added of one struct,
  `SelectedTo` what the structs so far have given, or that the client was dropped because
  a range starts where a struct ends (`SelectionsExact`).
  These are inductions over data. The library's induction theorems take the predicate
  as an operator, which the provers cannot instantiate, so `LeastNumber` and `UpTo`
  state the least-number principle and induction up to a bound for *sets*, and
  `Recursion` that a recursive function on 0..n exists, from which its equation
  follows (`RoundsStep`, `CollectRangesStep`, `CollectStructsStep` and their like).

Only model-checked: liveness (`SettlesOrStops`, `LostRoomEnds`, `Settles`,
`AggregationEnds` and the others), which is outside the prover's reach, as is `ENABLED`;
`PresenceReaches`; and the properties of `DocumentSync` (`DocumentExact`, `WireFaithful`, `DiffCompletes`,
`SelectionExact`, `PersistKeepsLive`). The last are about documents that have gone through the
codecs: the readers of the wire formats are RECURSIVE operators, and a module that
reaches one cannot be proved about. What they say of merge, answers, counts,
selections and collection before the encoding is what `StructsStayExact` proves client by
client; the round trip of the formats and references between clients remain with TLC.
`HandleActive` does not hold (see above).

## Plan

1. *Done*: leases, rooms and ownership, with their proofs.
2. *Done*: the PostgreSQL store and its refinement; lookup, rebalancing and
   membership; the WebSocket server with awareness; the owner-aware edge; update
   algebra, id sets, wire formats and sessions.
3. *Done*: a proof of the safety properties that the runs of those modules check, except
   `PresenceReaches` and those of `DocumentSync`, of whose parts the aggregation, the id sets
   and the structs of a client under merge, answer, selection and collection are proved.
4. Left to model: snapshots and trims without a fence, `CompactUpdateLog*`, rate
   windows and nonce caches.

## Not modelled

* The byte level: varints, strings, envelopes, node protocol frames. Their encoders
  keep no state; what depends on their structure (V2's columns, the two forms of
  values) is in `UpdateWire`.
* Rate limits and node authentication: windows and a nonce cache over wall-clock
  time that only ever refuse a request or a frame.
* Metrics, configuration checks, redaction, origin policy, framework adapters, schema
  migrations, examples: no state that the properties depend on.
* Content other than text, deletions and format marks: maps, arrays, nested types and
  embeds differ in the length and the codec of their content, and in parent ids and
  parent subs. The keep flag of items (`gc.go:97-99`), which no decoder sets.
* Awareness expiry and renewal, and the compaction helpers of `pkg/storage`, which no
  code of the repository calls.

Validation errors that change nothing are left out of the actions. Duplicate client
ids, which `Open` refuses, cannot occur in `DocumentRooms`, since a connection is its own
identity there; duplicate connection ids are modelled in `WebSocketServer` and
`OwnerForwarding`.
