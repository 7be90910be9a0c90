---------------------------- MODULE PostgresStore ----------------------------
(***************************************************************************)
(* The PostgreSQL store: every method is a transaction at READ COMMITTED   *)
(* that takes row locks with SELECT ... FOR UPDATE or by writing, decides  *)
(* on the rows it locked, and commits.  A statement is a step; what a      *)
(* transaction writes is visible from its commit on, and its locks last    *)
(* until then.  A statement on a row that another transaction has locked   *)
(* waits; on a row that is not there it neither waits nor locks.  Any      *)
(* transaction may fail at any step (its context ends, the connection or   *)
(* the client dies) and rolls back.                                        *)
(***************************************************************************)
EXTENDS AtomicStore, FiniteSets

CONSTANTS
  Clients,     \* database sessions of the nodes
  NodeOf,      \* the node a session belongs to
  TTL,         \* duration of a lease
  MaxClock, MaxOffset,   \* bounds
  MaxEpoch               \* bound, per shard

ASSUME ClientAssumption ==
  /\ NodeOf \in [Clients -> Nodes]
  /\ None \notin Clients /\ None \notin Shards
  /\ TTL \in Nat \ {0} /\ MaxClock \in Nat /\ MaxEpoch \in [Shards -> Nat] /\ MaxOffset \in Nat

VARIABLES
  clock,    \* time, which every session reads
  lock,     \* the session that holds a row's lock, or None
  tx,       \* the transaction of a session
  granted   \* history: every fence a commit has granted, per shard

vars == <<svars, clock, lock, tx, granted>>

\* Rows that are locked.  A key stands for its row, stored or being inserted.
Rows == {<<"gen", s>> : s \in Shards} \cup {<<"lease", s>> : s \in Shards}
          \cup {<<"placement">>, <<"head">>, <<"snapshot">>}

LeaseOps == {"savelease", "handoff", "release"}
WriteOps == {"append", "save", "trim"}

\* A transaction: its method and place, the shard, the lease to store or the
\* fence to check, the token it names, the instant a write read before it began,
\* the offset an append was given or a save or trim covers.
Idle == [op |-> "none", pc |-> "idle", shard |-> None, lease |-> None,
         fence |-> None, token |-> None, now |-> 0, offset |-> 0]

PInit ==
  /\ Init
  /\ clock = 0
  /\ lock = [r \in Rows |-> None]
  /\ tx = [c \in Clients |-> Idle]
  /\ granted = [s \in Shards |-> {}]

-----------------------------------------------------------------------------
(* Transactions.                                                           *)

\* Fault: a handoff locks the lease before the generation.
HandoffOrder(op, pc, s) ==
  CASE pc = "gen"   -> <<IF op = "handoff" THEN "lease" ELSE "gen", s>>
    [] pc = "lease" -> <<IF op = "handoff" THEN "gen" ELSE "lease", s>>
    [] pc = "placement" -> <<"placement">>
    [] pc = "write" -> IF op = "append" THEN <<"head">> ELSE <<"snapshot">>

\* The row the statement at `pc` locks; a trim deletes log rows, which nothing
\* else writes.
RowAt(op, pc, s) ==
  CASE pc = "gen"       -> <<"gen", s>>
    [] pc = "lease"     -> <<"lease", s>>
    [] pc = "placement" -> <<"placement">>
    [] pc = "write"     -> IF op = "append" THEN <<"head">> ELSE <<"snapshot">>

Row(c) == RowAt(tx[c].op, tx[c].pc, tx[c].shard)

Free(row) == lock[row] = None

Unlocked(c) == [r \in Rows |-> IF lock[r] = c THEN None ELSE lock[r]]

At(c, op, pc) == tx[c].op \in op /\ tx[c].pc = pc

\* Rollback, deferred by every method: the locks go, nothing was written.
Rollback(c) ==
  /\ tx' = [tx EXCEPT ![c] = Idle]
  /\ lock' = Unlocked(c)
  /\ UNCHANGED <<svars, clock, granted>>

\* A statement that locks `row` and goes on to `pc`.
Lock(c, row, pc) ==
  /\ lock' = [lock EXCEPT ![row] = c]
  /\ tx' = [tx EXCEPT ![c].pc = pc]
  /\ UNCHANGED <<svars, clock, granted>>

Commit(c) ==
  /\ tx' = [tx EXCEPT ![c] = Idle]
  /\ lock' = Unlocked(c)
  /\ UNCHANGED clock

Fails(c) ==
  /\ tx[c].pc # "idle"
  /\ Rollback(c)

-----------------------------------------------------------------------------
(* SaveLease, HandoffLease, ReleaseLease.                                  *)

Begin(c, t) ==
  /\ tx[c] = Idle
  /\ tx' = [tx EXCEPT ![c] = t]
  /\ UNCHANGED <<svars, clock, lock, granted>>

LeaseTx(op, s, rec, token) ==
  [Idle EXCEPT !.op = op, !.pc = "gen", !.shard = s, !.lease = rec,
               !.token = token]

NewLease(n, epoch) ==
  [node |-> n, epoch |-> epoch, token |-> <<n, clock>>,
   acquiredAt |-> clock, expiresAt |-> clock + TTL]

\* An acquire with the epoch after the last one or, from an adapter that read
\* before the last grant, with that one; or a renewal of the stored lease.
BeginSaveLease(c) ==
  \E s \in Shards :
    \/ \E e \in {gens[s], gens[s] + 1} \cap 1 .. MaxEpoch[s] :
         Begin(c, LeaseTx("savelease", s, NewLease(NodeOf[c], e), None))
    \/ /\ leases[s] # None /\ leases[s].node = NodeOf[c]
       /\ Begin(c, LeaseTx("savelease", s,
            [leases[s] EXCEPT !.acquiredAt = clock, !.expiresAt = clock + TTL], None))

BeginHandoffLease(c) ==
  \E s \in Shards, n \in Nodes :
    /\ leases[s] # None /\ leases[s].epoch < MaxEpoch[s]
    /\ Begin(c, LeaseTx("handoff", s, NewLease(n, leases[s].epoch + 1), leases[s].token))

\* A session gives back a lease its node was granted, perhaps long ago.
BeginReleaseLease(c) ==
  \E s \in Shards : \E f \in granted[s] :
    /\ f.node = NodeOf[c]
    /\ Begin(c, LeaseTx("release", s, None, f.token))

\* ensureLeaseGenerationLockTx and the first SELECT of loadLeaseStateTx.  A
\* release does not insert the row: without one it goes on with no lock.
LockGeneration(c) ==
  /\ At(c, LeaseOps, "gen")
  /\ \/ /\ tx[c].op # "release" \/ gens[tx[c].shard] # 0
        /\ Free(Row(c))
        /\ Lock(c, Row(c), "lease")
     \/ /\ tx[c].op = "release" /\ gens[tx[c].shard] = 0
        /\ tx' = [tx EXCEPT ![c].pc = "lease"]
        /\ UNCHANGED <<svars, clock, lock, granted>>

\* The decision of the method on the rows it has locked.
LeaseOutcome(t, cur, last) ==
  CASE t.op = "savelease" -> SaveLeaseOutcome(cur, last, t.lease) \in {"ok", "invalid"}
    [] t.op = "handoff"   -> HandoffOutcome(cur, last, t.token, t.lease) = "ok"
    [] t.op = "release"   -> ReleaseOK(cur, t.token)

\* The second SELECT of loadLeaseStateTx and the checks of the method.
LockLease(c) ==
  LET t == tx[c]
  IN /\ At(c, LeaseOps, "lease")
     /\ leases[t.shard] # None => Free(Row(c))
     /\ \/ /\ LeaseOutcome(t, leases[t.shard], gens[t.shard])
           /\ Lock(c, Row(c), "commit")
        \/ /\ ~LeaseOutcome(t, leases[t.shard], gens[t.shard])
           /\ Rollback(c)

\* The upserts and the commit: both tables change together.
CommitLease(c) ==
  LET t == tx[c]
      s == t.shard
  IN /\ At(c, LeaseOps, "commit")
     /\ leases' = [leases EXCEPT ![s] =
          IF t.op = "release" THEN None ELSE SavedLease(@, t.lease)]
     /\ gens' = [gens EXCEPT ![s] =
          IF t.op = "release" THEN ReleasedLast(leases[s], @) ELSE Larger(@, t.lease.epoch)]
     /\ granted' = IF t.op = "release" THEN granted
                   ELSE [granted EXCEPT ![s] = @ \cup {FenceOf(t.lease)}]
     /\ Commit(c)
     /\ UNCHANGED <<placement, head, log, checkpoint>>

-----------------------------------------------------------------------------
(* Fenced writes: validateAuthorityWriteTx, then the write, then commit.   *)

WriteTx(op, s, fence, through) ==
  [Idle EXCEPT !.op = op, !.pc = "placement", !.shard = s, !.fence = fence,
               !.now = clock, !.offset = through]

\* A session writes under a fence its node was granted, perhaps long ago; a
\* save or a trim covers the log as the session has read it.
BeginWrite(c) ==
  \E s \in Shards : \E f \in granted[s] :
    /\ f.node = NodeOf[c]
    /\ \/ head <= MaxOffset /\ Begin(c, WriteTx("append", s, f, 0))
       \/ \E op \in {"save", "trim"} :
            head > 1 /\ Begin(c, WriteTx(op, s, f, head - 1))

\* Fault: the placement is read without FOR UPDATE.
ReadPlacement(c) ==
  /\ At(c, WriteOps, "placement")
  /\ \/ /\ placement = tx[c].shard
        /\ tx' = [tx EXCEPT ![c].pc = "lease"]
        /\ UNCHANGED <<svars, clock, lock, granted>>
     \/ placement # tx[c].shard /\ Rollback(c)

LockPlacement(c) ==
  /\ At(c, WriteOps, "placement")
  /\ placement # None => Free(Row(c))
  /\ \/ placement = tx[c].shard /\ Lock(c, Row(c), "lease")
     \/ placement # tx[c].shard /\ Rollback(c)

\* The fence is compared with the row, its expiry with the instant that was
\* read before the transaction began to wait.
LockAuthority(c) ==
  LET t == tx[c]
  IN /\ At(c, WriteOps, "lease")
     /\ leases[t.shard] # None => Free(Row(c))
     /\ \/ FenceValid(leases[t.shard], t.fence, t.now) /\ Lock(c, Row(c), "write")
        \/ ~FenceValid(leases[t.shard], t.fence, t.now) /\ Rollback(c)

\* Fault: the offset is read from the heads row, which is not locked.
WriteUnlocked(c) ==
  /\ At(c, WriteOps, "write")
  /\ tx' = [tx EXCEPT ![c].pc = "commit",
                       ![c].offset = IF tx[c].op = "append" THEN head ELSE @]
  /\ UNCHANGED <<svars, clock, lock, granted>>

\* appendUpdateTx allocates the offset from the heads row and keeps its lock.
WriteRow(c) ==
  /\ At(c, WriteOps, "write")
  /\ tx[c].op = "trim" \/ Free(Row(c))
  /\ lock' = IF tx[c].op = "trim" THEN lock ELSE [lock EXCEPT ![Row(c)] = c]
  /\ tx' = [tx EXCEPT ![c].pc = "commit",
                       ![c].offset = IF tx[c].op = "append" THEN head ELSE @]
  /\ UNCHANGED <<svars, clock, granted>>

CommitAppend(c) ==
  LET t == tx[c]
  IN /\ At(c, {"append"}, "commit")
     /\ log' = log \cup {[offset |-> t.offset, epoch |-> t.fence.epoch, shard |-> t.shard]}
     /\ head' = t.offset + 1
     /\ Commit(c)
     /\ UNCHANGED <<placement, gens, leases, checkpoint, granted>>

CommitSave(c) ==
  /\ At(c, {"save"}, "commit")
  /\ checkpoint' = [through |-> tx[c].offset, epoch |-> tx[c].fence.epoch]
  /\ Commit(c)
  /\ UNCHANGED <<placement, gens, leases, head, log, granted>>

CommitTrim(c) ==
  /\ At(c, {"trim"}, "commit")
  /\ log' = {r \in log : r.offset > tx[c].offset}
  /\ Commit(c)
  /\ UNCHANGED <<placement, gens, leases, head, checkpoint, granted>>

-----------------------------------------------------------------------------
(* Single statements: they wait for the row and commit at once.            *)

\* AppendUpdate and AppendUpdateV2 without a fence, by anyone: epoch 0.
AppendUnfenced ==
  /\ head <= MaxOffset
  /\ Free(<<"head">>)
  /\ AppendUpdate
  /\ UNCHANGED <<clock, lock, tx, granted>>

UpsertPlacement(s) ==
  /\ placement # s
  /\ Free(<<"placement">>)
  /\ SavePlacement(s)
  /\ UNCHANGED <<clock, lock, tx, granted>>

Tick ==
  /\ clock < MaxClock
  /\ clock' = clock + 1
  /\ UNCHANGED <<svars, lock, tx, granted>>

-----------------------------------------------------------------------------
LeaseCall(c) ==
  \/ BeginSaveLease(c) \/ BeginHandoffLease(c) \/ BeginReleaseLease(c)
  \/ LockGeneration(c) \/ LockLease(c) \/ CommitLease(c)

WriteCall(c) ==
  \/ BeginWrite(c) \/ LockPlacement(c) \/ LockAuthority(c) \/ WriteRow(c)
  \/ CommitAppend(c) \/ CommitSave(c) \/ CommitTrim(c)

PNext ==
  \/ \E c \in Clients : LeaseCall(c) \/ WriteCall(c) \/ Fails(c)
  \/ AppendUnfenced
  \/ \E s \in Shards : UpsertPlacement(s)
  \/ Tick

PSpec == PInit /\ [][PNext]_vars

-----------------------------------------------------------------------------
(* Properties.                                                             *)

\* Rows, locks and transactions have their shapes: a row's lock is held by a
\* session in a transaction, and log and snapshot hold the records they name.
TypeOK ==
  /\ placement \in Shards \cup {None}
  /\ gens \in [Shards -> Nat]
  /\ leases \in [Shards -> Lease \cup {None}]
  /\ head \in Nat \ {0} /\ log \subseteq Record /\ checkpoint \in Checkpoint
  /\ lock \in [Rows -> Clients \cup {None}]
  /\ \A c \in Clients : tx[c] = Idle => \A r \in Rows : lock[r] # c

\* The store at READ COMMITTED, with its row locks, behaves like the store in
\* memory: each method takes effect at its commit, all of it, on rows that are
\* still what its checks saw.
ImplementsAtomicStore == Spec

\* A record becomes visible with an offset beyond every offset given out
\* before (appendUpdateTx keeps the heads row locked to its commit), so that a
\* reader who has read up to an offset never misses a record below it.
RecordsAppearInOrder ==
  [][\A r \in log' \ log : r.offset >= head]_vars

\* A session waits for the holder of the row its next statement locks.
WaitsFor(c, d) ==
  /\ d # c
  /\ tx[c].pc \in {"gen", "lease", "placement"} \/ At(c, {"append", "save"}, "write")
  /\ lock[Row(c)] = d

\* Locks are sound: only a session in a transaction holds one, and no set of
\* transactions waits in a circle, so that PostgreSQL never has to kill one as
\* a deadlock victim, whatever leases, fenced writes and trims meet.
NoDeadlockVictim ==
  /\ TypeOK
  /\ \A S \in SUBSET Clients :
       S # {} => \E c \in S : \A d \in S : ~WaitsFor(c, d)
=============================================================================
