------------------------ MODULE PostgresStore_proofs ------------------------
(***************************************************************************)
(* The PostgreSQL store, for any nodes, sessions, shards and bounds: no    *)
(* set of transactions waits in a circle, records appear in the order of   *)
(* their offsets, and the store implements AtomicStore.                    *)
(*                                                                         *)
(* The inductive invariant ties the place of every transaction to the      *)
(* locks it holds (HeldLocks), every lock to the places of its holder      *)
(* (LocksHeld), and says that what a transaction has decided on the rows   *)
(* it locked still holds of them (Decided).  A lock is only ever put on a  *)
(* row without one: where the code relies on a row that is not there, the  *)
(* lock of the generation row excludes the other transactions.             *)
(***************************************************************************)
EXTENDS PostgresStore, TLAPS

Gen(s) == <<"gen", s>>
LeaseRow(s) == <<"lease", s>>
PlacementRow == <<"placement">>
HeadRow == <<"head">>
SnapshotRow == <<"snapshot">>

Granting == {"savelease", "handoff"}

Tx == [op : {"none"} \cup LeaseOps \cup WriteOps,
       pc : {"idle", "gen", "lease", "placement", "write", "commit"},
       shard : Shards \cup {None}, lease : Lease \cup {None}, fence : Fence \cup {None},
       token : Tokens \cup {None}, now : Nat, offset : Nat]

\* The tables, locks and transactions have their types.
Typed ==
  /\ placement \in Shards \cup {None}
  /\ gens \in [Shards -> Nat]
  /\ leases \in [Shards -> Lease \cup {None}]
  /\ head \in Nat \ {0} /\ log \subseteq Record /\ checkpoint \in Checkpoint
  /\ lock \in [Rows -> Clients \cup {None}]
  /\ clock \in Nat
  /\ tx \in [Clients -> Tx]
  /\ granted \in [Shards -> SUBSET Fence]

\* The lease a transaction wants to store: its token is of the instant it was
\* first taken, and a renewal is of a generation that was granted.
Offer(t) ==
  /\ t.lease \in Lease
  /\ t.lease.token \in Nodes \X Nat
  /\ t.lease.token[2] <= t.lease.acquiredAt
  /\ t.lease.acquiredAt <= clock /\ t.lease.acquiredAt < t.lease.expiresAt
  /\ t.lease.token[2] = t.lease.acquiredAt \/ t.lease.epoch <= gens[t.shard]

\* A transaction is idle, or a lease's, or a write's, at one of its places.
Shape(c) ==
  \/ tx[c] = Idle
  \/ /\ tx[c].op \in LeaseOps /\ tx[c].pc \in {"gen", "lease", "commit"}
     /\ tx[c].shard \in Shards
     /\ tx[c].op \in Granting => Offer(tx[c])
  \/ /\ tx[c].op \in WriteOps /\ tx[c].pc \in {"placement", "lease", "write", "commit"}
     /\ tx[c].shard \in Shards /\ tx[c].fence \in Fence
     /\ tx[c].op \in {"save", "trim"} => tx[c].offset < head

\* Each lock is held at the places after the statement that takes it.
LocksHeld(c) ==
  /\ \A s \in Shards : lock[Gen(s)] = c =>
       tx[c].op \in LeaseOps /\ tx[c].pc \in {"lease", "commit"} /\ tx[c].shard = s
  /\ \A s \in Shards : lock[LeaseRow(s)] = c =>
       /\ \/ tx[c].op \in LeaseOps /\ tx[c].pc = "commit"
          \/ tx[c].op \in WriteOps /\ tx[c].pc \in {"write", "commit"}
       /\ tx[c].shard = s
  /\ lock[PlacementRow] = c => tx[c].op \in WriteOps /\ tx[c].pc \in {"lease", "write", "commit"}
  /\ lock[HeadRow] = c => tx[c].op = "append" /\ tx[c].pc = "commit"
  /\ lock[SnapshotRow] = c => tx[c].op = "save" /\ tx[c].pc = "commit"

\* ... and until the transaction ends.
HeldLocks(c) ==
  /\ tx[c].op \in Granting /\ tx[c].pc \in {"lease", "commit"} => lock[Gen(tx[c].shard)] = c
  /\ tx[c].op \in LeaseOps /\ tx[c].pc = "commit" => lock[LeaseRow(tx[c].shard)] = c
  /\ tx[c].op \in WriteOps /\ tx[c].pc \in {"lease", "write", "commit"} => lock[PlacementRow] = c
  /\ tx[c].op \in WriteOps /\ tx[c].pc \in {"write", "commit"} => lock[LeaseRow(tx[c].shard)] = c
  /\ tx[c].op = "append" /\ tx[c].pc = "commit" => lock[HeadRow] = c

\* What a transaction saw in the rows it locked is still there.
Decided(c) ==
  /\ tx[c].op \in LeaseOps /\ tx[c].pc = "commit" =>
       LeaseOutcome(tx[c], leases[tx[c].shard], gens[tx[c].shard])
  /\ tx[c].op \in WriteOps /\ tx[c].pc \in {"lease", "write", "commit"} => placement = tx[c].shard
  /\ tx[c].op \in WriteOps /\ tx[c].pc \in {"write", "commit"} =>
       leases[tx[c].shard] # None /\ FenceOf(leases[tx[c].shard]) = tx[c].fence
  /\ tx[c].op = "append" /\ tx[c].pc = "commit" => tx[c].offset = head

ClientInv(c) == Shape(c) /\ LocksHeld(c) /\ HeldLocks(c) /\ Decided(c)

\* A stored lease is of a generation that was counted, and its token is of the
\* instant it was first taken: a renewal keeps it.
Stored(s) ==
  leases[s] # None =>
    /\ leases[s].epoch <= gens[s]
    /\ leases[s].token \in Nodes \X Nat
    /\ leases[s].token[2] = leases[s].acquiredAt
    /\ leases[s].acquiredAt <= clock

Inv ==
  /\ Typed
  /\ \A s \in Shards : Stored(s)
  /\ \A c \in Clients : ClientInv(c)

-----------------------------------------------------------------------------
(* Rows.                                                                   *)

\* Every key names its own row.
LEMMA RowsDistinct ==
  /\ \A s, u : Gen(s) # LeaseRow(u) /\ (Gen(s) = Gen(u) <=> s = u)
               /\ (LeaseRow(s) = LeaseRow(u) <=> s = u)
  /\ \A s : /\ Gen(s) \notin {PlacementRow, HeadRow, SnapshotRow}
            /\ LeaseRow(s) \notin {PlacementRow, HeadRow, SnapshotRow}
  /\ PlacementRow # HeadRow /\ PlacementRow # SnapshotRow /\ HeadRow # SnapshotRow
BY DEF Gen, LeaseRow, PlacementRow, HeadRow, SnapshotRow

\* Rows, by their keys.
LEMMA RowsAre ==
  /\ \A s \in Shards : Gen(s) \in Rows /\ LeaseRow(s) \in Rows
  /\ {PlacementRow, HeadRow, SnapshotRow} \subseteq Rows
BY DEF Rows, Gen, LeaseRow, PlacementRow, HeadRow, SnapshotRow

\* The row each statement locks.
LEMMA RowsAt ==
  ASSUME NEW op, NEW s
  PROVE  /\ RowAt(op, "gen", s) = Gen(s)
         /\ RowAt(op, "lease", s) = LeaseRow(s)
         /\ RowAt(op, "placement", s) = PlacementRow
         /\ RowAt(op, "write", s) = IF op = "append" THEN HeadRow ELSE SnapshotRow
BY DEF RowAt, Gen, LeaseRow, PlacementRow, HeadRow, SnapshotRow

\* What each lease transaction has to decide.
LEMMA Outcomes ==
  ASSUME NEW t, NEW cur, NEW last
  PROVE  /\ t.op = "savelease" =>
              (LeaseOutcome(t, cur, last) <=> SaveLeaseOutcome(cur, last, t.lease) \in {"ok", "invalid"})
         /\ t.op = "handoff" =>
              (LeaseOutcome(t, cur, last) <=> HandoffOutcome(cur, last, t.token, t.lease) = "ok")
         /\ t.op = "release" => (LeaseOutcome(t, cur, last) <=> ReleaseOK(cur, t.token))
BY Zenon DEF LeaseOutcome

\* A transaction that decided for a missing lease is one that saves a lease.
LEMMA OutcomeOnNone ==
  ASSUME NEW t, t.op \in LeaseOps, NEW last, LeaseOutcome(t, None, last)
  PROVE  t.op = "savelease"
BY Outcomes DEF LeaseOps, HandoffOutcome, ReleaseOK

-----------------------------------------------------------------------------
(* Steps that change no table.                                             *)

\* A session that is not at its turn and neither wins nor loses a lock keeps
\* its part of the invariant.
LEMMA OthersKept ==
  ASSUME Inv, NEW d \in Clients, UNCHANGED <<svars, clock>>, tx'[d] = tx[d],
         \A r \in Rows : lock'[r] = d <=> lock[r] = d
  PROVE  ClientInv(d)'
<1>1. ClientInv(d) BY DEF Inv
<1>2. Shape(d)' BY <1>1 DEF ClientInv, Shape, Offer, svars
<1>3. LocksHeld(d)' BY <1>1, RowsAre DEF ClientInv, LocksHeld
<1>4. HeldLocks(d)'
  BY <1>1, RowsAre DEF ClientInv, Shape, HeldLocks, Granting, LeaseOps, WriteOps, Idle
<1>5. Decided(d)' BY <1>1 DEF ClientInv, Decided, svars
<1> QED BY <1>2, <1>3, <1>4, <1>5 DEF ClientInv

\* So the tables stay, and it is enough to look at the session that moves.
LEMMA LocalStep ==
  ASSUME Inv, NEW c \in Clients, UNCHANGED <<svars, clock, granted>>, NEW t \in Tx,
         tx' = [tx EXCEPT ![c] = t], lock' \in [Rows -> Clients \cup {None}],
         \A d \in Clients \ {c} : \A r \in Rows : lock'[r] = d <=> lock[r] = d,
         ClientInv(c)'
  PROVE  Inv'
<1>1. Typed' BY DEF Inv, Typed, svars
<1>2. ASSUME NEW s \in Shards PROVE Stored(s)'
  BY DEF Inv, Stored, svars
<1>3. ASSUME NEW d \in Clients PROVE ClientInv(d)'
  <2>1. CASE d = c BY <2>1
  <2>2. CASE d # c
    <3>1. tx'[d] = tx[d] BY <2>2 DEF Inv, Typed
    <3> QED BY <2>2, <3>1, OthersKept
  <2> QED BY <2>1, <2>2
<1> QED BY <1>1, <1>2, <1>3 DEF Inv

\* The idle transaction is one, at none of the places.
LEMMA IdleTx ==
  /\ Idle \in Tx /\ Idle.op = "none"
  /\ "none" \notin LeaseOps \cup WriteOps \cup Granting
BY DEF Idle, Tx, LeaseOps, WriteOps, Granting

\* A session that is idle and holds no lock.
LEMMA IdleInv ==
  ASSUME NEW c, tx'[c] = Idle, \A r \in Rows : lock'[r] # c
  PROVE  ClientInv(c)'
<1>1. Shape(c)' BY DEF Shape
<1>2. LocksHeld(c)' BY RowsAre DEF LocksHeld
<1>3. HeldLocks(c)' BY IdleTx DEF HeldLocks
<1>4. Decided(c)' BY IdleTx DEF Decided
<1> QED BY <1>1, <1>2, <1>3, <1>4 DEF ClientInv

\* Giving back the locks of a session.
LEMMA UnlockedRows ==
  ASSUME Inv, NEW c \in Clients
  PROVE  /\ Unlocked(c) \in [Rows -> Clients \cup {None}]
         /\ \A r \in Rows : Unlocked(c)[r] # c
         /\ \A d \in Clients \ {c} : \A r \in Rows : Unlocked(c)[r] = d <=> lock[r] = d
BY ClientAssumption DEF Unlocked, Inv, Typed

\* Rollback.
LEMMA RollbackKeeps == ASSUME Inv, NEW c \in Clients, Rollback(c) PROVE Inv'
<1>1. tx' = [tx EXCEPT ![c] = Idle] /\ lock' = Unlocked(c) /\ UNCHANGED <<svars, clock, granted>>
  BY DEF Rollback
<1>2. ClientInv(c)'
  BY <1>1, UnlockedRows, IdleInv DEF Inv, Typed
<1>3. /\ lock' \in [Rows -> Clients \cup {None}]
      /\ \A d \in Clients \ {c} : \A r \in Rows : lock'[r] = d <=> lock[r] = d
  BY <1>1, UnlockedRows
<1>4. Idle \in Tx BY IdleTx
<1> QED BY <1>1, <1>2, <1>3, <1>4, LocalStep

\* A transaction begins: the session was idle and held nothing.
LEMMA BeginKeeps ==
  ASSUME Inv, NEW c \in Clients, NEW t \in Tx, Begin(c, t), Shape(c)',
         \/ t.op \in LeaseOps /\ t.pc = "gen"
         \/ t.op \in WriteOps /\ t.pc = "placement"
  PROVE  Inv'
<1>1. tx[c] = Idle /\ tx' = [tx EXCEPT ![c] = t] /\ UNCHANGED <<svars, clock, lock, granted>>
  BY DEF Begin
<1>2. tx'[c] = t BY <1>1 DEF Inv, Typed
<1>3. LocksHeld(c) BY DEF Inv, ClientInv
<1>4. LocksHeld(c)' BY <1>1, <1>2, <1>3, IdleTx DEF LocksHeld
<1>5. HeldLocks(c)' /\ Decided(c)' BY <1>2 DEF HeldLocks, Decided, LeaseOps, WriteOps, Granting
<1>6. ClientInv(c)' BY <1>4, <1>5 DEF ClientInv
<1> QED BY <1>1, <1>6, LocalStep DEF Inv, Typed

\* A statement puts a lock on a row that has none.
LEMMA LockKeeps ==
  ASSUME Inv, NEW c \in Clients, NEW row \in Rows, NEW t \in Tx, lock[row] = None,
         lock' = [lock EXCEPT ![row] = c], tx' = [tx EXCEPT ![c] = t],
         UNCHANGED <<svars, clock, granted>>, ClientInv(c)'
  PROVE  Inv'
<1>1. lock' \in [Rows -> Clients \cup {None}] BY DEF Inv, Typed
<1>2. ASSUME NEW d \in Clients \ {c}, NEW r \in Rows PROVE lock'[r] = d <=> lock[r] = d
  BY ClientAssumption DEF Inv, Typed
<1> QED BY <1>1, <1>2, LocalStep

\* Fields of a transaction that goes to another place.
LEMMA Moved ==
  ASSUME NEW t \in Tx, NEW pc \in {"gen", "lease", "placement", "write", "commit"}
  PROVE  LET u == [t EXCEPT !.pc = pc]
         IN /\ u \in Tx /\ u.pc = pc /\ u.op = t.op /\ u.shard = t.shard /\ u.lease = t.lease
            /\ u.fence = t.fence /\ u.token = t.token /\ u.now = t.now /\ u.offset = t.offset
BY DEF Tx

\* The transaction of a session at one of its places is not idle.
LEMMA Busy ==
  ASSUME Inv, NEW c \in Clients, tx[c].op \in LeaseOps \cup WriteOps
  PROVE  /\ tx[c] # Idle /\ tx[c] \in Tx /\ tx[c].shard \in Shards
         /\ tx[c].op \in LeaseOps =>
              tx[c].pc \in {"gen", "lease", "commit"} /\ (tx[c].op \in Granting => Offer(tx[c]))
         /\ tx[c].op \in WriteOps =>
              tx[c].pc \in {"placement", "lease", "write", "commit"} /\ tx[c].fence \in Fence
              /\ (tx[c].op \in {"save", "trim"} => tx[c].offset < head)
<1>1. tx[c] # Idle BY IdleTx
<1>2. Shape(c) BY DEF Inv, ClientInv
<1> QED BY <1>1, <1>2 DEF Shape, LeaseOps, WriteOps, Inv, Typed

-----------------------------------------------------------------------------
(* SaveLease, HandoffLease, ReleaseLease.                                  *)

\* A lease transaction begins with an offer, or with none if it releases.
LEMMA BeginLeaseKeeps ==
  ASSUME Inv, NEW c \in Clients, NEW op \in LeaseOps, NEW s \in Shards,
         NEW rec \in Lease \cup {None}, NEW token \in Tokens \cup {None},
         Begin(c, LeaseTx(op, s, rec, token)),
         op \in Granting =>
           /\ rec \in Lease /\ rec.token \in Nodes \X Nat /\ rec.token[2] <= rec.acquiredAt
           /\ rec.acquiredAt <= clock /\ rec.acquiredAt < rec.expiresAt
           /\ rec.token[2] = rec.acquiredAt \/ rec.epoch <= gens[s]
  PROVE  Inv'
<1> DEFINE t == LeaseTx(op, s, rec, token)
<1>1. /\ t \in Tx /\ t.op = op /\ t.pc = "gen" /\ t.shard = s /\ t.lease = rec
  BY DEF LeaseTx, Tx, Idle, LeaseOps
<1> HIDE DEF t
<1>2. Begin(c, t) BY DEF t
<1>3. tx'[c] = t /\ UNCHANGED <<svars, clock>> BY <1>1, <1>2 DEF Begin, Inv, Typed
<1>4. Shape(c)' BY <1>1, <1>3 DEF Shape, Offer, svars
<1>5. \/ t.op \in LeaseOps /\ t.pc = "gen"
      \/ t.op \in WriteOps /\ t.pc = "placement"
  BY <1>1
<1> QED BY <1>1, <1>2, <1>4, <1>5, BeginKeeps

\* A new lease is of the instant its transaction begins.
LEMMA NewLeaseOffer ==
  ASSUME NEW n \in Nodes, NEW e \in Nat \ {0}, clock \in Nat
  PROVE  LET rec == NewLease(n, e)
         IN /\ rec \in Lease /\ rec.token \in Nodes \X Nat
            /\ rec.token[2] = rec.acquiredAt /\ rec.acquiredAt = clock
            /\ rec.acquiredAt < rec.expiresAt
BY ClientAssumption DEF NewLease, Lease, Tokens

\* A renewal names the stored lease and the instant its transaction begins.
LEMMA Renewed ==
  ASSUME NEW r \in Lease, clock \in Nat
  PROVE  LET rec == [r EXCEPT !.acquiredAt = clock, !.expiresAt = clock + TTL]
         IN /\ rec \in Lease /\ rec.token = r.token /\ rec.epoch = r.epoch
            /\ rec.acquiredAt = clock /\ rec.acquiredAt < rec.expiresAt
<1>1. clock + TTL \in Nat /\ clock < clock + TTL BY ClientAssumption
<1> QED BY <1>1 DEF Lease

\* SaveLease, to acquire or to renew, begins with an offer of this instant.
LEMMA BeginSaveLeaseKeeps == ASSUME Inv, NEW c \in Clients, BeginSaveLease(c) PROVE Inv'
<1>1. PICK s \in Shards :
        \/ \E e \in {gens[s], gens[s] + 1} \cap 1 .. MaxEpoch[s] :
             Begin(c, LeaseTx("savelease", s, NewLease(NodeOf[c], e), None))
        \/ /\ leases[s] # None /\ leases[s].node = NodeOf[c]
           /\ Begin(c, LeaseTx("savelease", s,
                [leases[s] EXCEPT !.acquiredAt = clock, !.expiresAt = clock + TTL], None))
  BY DEF BeginSaveLease
<1>0. "savelease" \in LeaseOps /\ clock \in Nat /\ NodeOf[c] \in Nodes
  BY ClientAssumption DEF LeaseOps, Inv, Typed
<1>2. CASE \E e \in {gens[s], gens[s] + 1} \cap 1 .. MaxEpoch[s] :
             Begin(c, LeaseTx("savelease", s, NewLease(NodeOf[c], e), None))
  <2>1. PICK e \in Nat \ {0} : Begin(c, LeaseTx("savelease", s, NewLease(NodeOf[c], e), None))
    BY <1>2, ClientAssumption DEF Inv, Typed
  <2> DEFINE rec == NewLease(NodeOf[c], e)
  <2>2. /\ rec \in Lease /\ rec.token \in Nodes \X Nat
        /\ rec.token[2] = rec.acquiredAt /\ rec.acquiredAt = clock
        /\ rec.acquiredAt < rec.expiresAt
    BY <1>0, NewLeaseOffer
  <2>3. rec.token[2] <= rec.acquiredAt /\ rec.acquiredAt <= clock BY <1>0, <2>2
  <2> HIDE DEF rec
  <2>4. Begin(c, LeaseTx("savelease", s, rec, None)) BY <2>1 DEF rec
  <2> QED BY <1>0, <2>2, <2>3, <2>4, BeginLeaseKeeps
<1>3. CASE /\ leases[s] # None /\ leases[s].node = NodeOf[c]
           /\ Begin(c, LeaseTx("savelease", s,
                [leases[s] EXCEPT !.acquiredAt = clock, !.expiresAt = clock + TTL], None))
  <2> DEFINE rec == [leases[s] EXCEPT !.acquiredAt = clock, !.expiresAt = clock + TTL]
  <2>1. leases[s] \in Lease /\ Stored(s) BY <1>3 DEF Inv, Typed
  <2>2. /\ rec \in Lease /\ rec.token = leases[s].token /\ rec.epoch = leases[s].epoch
        /\ rec.acquiredAt = clock /\ rec.acquiredAt < rec.expiresAt
    BY <1>0, <2>1, Renewed
  <2>3. leases[s].acquiredAt <= clock BY <1>3, <2>1 DEF Stored
  <2>4. /\ rec.token \in Nodes \X Nat /\ rec.epoch <= gens[s]
        /\ rec.token[2] <= rec.acquiredAt /\ rec.acquiredAt <= clock
    BY <1>0, <1>3, <2>1, <2>2, <2>3 DEF Stored
  <2> HIDE DEF rec
  <2>5. Begin(c, LeaseTx("savelease", s, rec, None)) BY <1>3 DEF rec
  <2> QED BY <1>0, <2>2, <2>4, <2>5, BeginLeaseKeeps
<1> QED BY <1>1, <1>2, <1>3

\* HandoffLease begins with a new lease for the target.
LEMMA BeginHandoffLeaseKeeps == ASSUME Inv, NEW c \in Clients, BeginHandoffLease(c) PROVE Inv'
<1>1. PICK s \in Shards, n \in Nodes :
        /\ leases[s] # None
        /\ Begin(c, LeaseTx("handoff", s, NewLease(n, leases[s].epoch + 1), leases[s].token))
  BY DEF BeginHandoffLease
<1>2. "handoff" \in LeaseOps /\ clock \in Nat /\ leases[s] \in Lease
  BY <1>1 DEF LeaseOps, Inv, Typed
<1>3. leases[s].epoch + 1 \in Nat \ {0} /\ leases[s].token \in Tokens BY <1>2 DEF Lease
<1> DEFINE rec == NewLease(n, leases[s].epoch + 1)
<1>4. /\ rec \in Lease /\ rec.token \in Nodes \X Nat
      /\ rec.token[2] = rec.acquiredAt /\ rec.acquiredAt = clock
      /\ rec.acquiredAt < rec.expiresAt
  BY <1>2, <1>3, NewLeaseOffer
<1>5. rec.token[2] <= rec.acquiredAt /\ rec.acquiredAt <= clock BY <1>2, <1>4
<1> HIDE DEF rec
<1>6. Begin(c, LeaseTx("handoff", s, rec, leases[s].token)) BY <1>1 DEF rec
<1> QED BY <1>2, <1>3, <1>4, <1>5, <1>6, BeginLeaseKeeps

\* ReleaseLease begins with the token of a fence that was granted.
LEMMA BeginReleaseLeaseKeeps == ASSUME Inv, NEW c \in Clients, BeginReleaseLease(c) PROVE Inv'
<1>1. PICK s \in Shards : \E f \in granted[s] : Begin(c, LeaseTx("release", s, None, f.token))
  BY DEF BeginReleaseLease
<1>2. PICK f \in Fence : Begin(c, LeaseTx("release", s, None, f.token))
  BY <1>1 DEF Inv, Typed
<1>3. /\ "release" \in LeaseOps /\ "release" \notin Granting
      /\ f.token \in Tokens
  BY <1>2 DEF LeaseOps, Granting, Fence
<1> QED BY <1>2, <1>3, BeginLeaseKeeps

\* loadLeaseStateTx locks the generation row, or goes on without it.
LEMMA LockGenerationKeeps == ASSUME Inv, NEW c \in Clients, LockGeneration(c) PROVE Inv'
<1> DEFINE t == tx[c]
           u == [tx[c] EXCEPT !.pc = "lease"]
<1>1. /\ t.op \in LeaseOps /\ t.pc = "gen"
      /\ \/ /\ t.op # "release" \/ gens[t.shard] # 0
            /\ Free(Row(c))
            /\ Lock(c, Row(c), "lease")
         \/ /\ t.op = "release"
            /\ tx' = [tx EXCEPT ![c].pc = "lease"]
            /\ UNCHANGED <<svars, clock, lock, granted>>
  BY DEF LockGeneration, At
<1>2. t \in Tx /\ t.shard \in Shards /\ (t.op \in Granting => Offer(t)) BY <1>1, Busy
<1>3. /\ u \in Tx /\ u.pc = "lease" /\ u.op = t.op /\ u.shard = t.shard /\ u.lease = t.lease
  BY <1>2, Moved
<1>4. tx' = [tx EXCEPT ![c] = u] /\ UNCHANGED <<svars, clock, granted>>
  BY <1>1 DEF Lock
<1>5. tx'[c] = u BY <1>4 DEF Inv, Typed
<1>6. t.op \notin WriteOps /\ t.op # "append" /\ t.op # "save" BY <1>1 DEF LeaseOps, WriteOps
<1>7. Shape(c)' BY <1>1, <1>2, <1>3, <1>4, <1>5 DEF Shape, Offer, svars
<1>8. LocksHeld(c) BY DEF Inv, ClientInv
<1>9. Row(c) = Gen(t.shard) /\ Gen(t.shard) \in Rows BY <1>1, <1>2, RowsAt, RowsAre DEF Row
<1>10. Decided(c)' BY <1>3, <1>5, <1>6 DEF Decided
<1> HIDE DEF u
<1>11. CASE Free(Row(c)) /\ Lock(c, Row(c), "lease")
  <2>1. lock[Gen(t.shard)] = None /\ lock' = [lock EXCEPT ![Gen(t.shard)] = c]
    BY <1>9, <1>11 DEF Free, Lock
  <2>2. \A r \in Rows : lock'[r] = c => r = Gen(t.shard) \/ lock[r] = c
    BY <2>1 DEF Inv, Typed
  <2>3. LocksHeld(c)'
    BY <1>1, <1>2, <1>3, <1>5, <1>6, <1>8, <2>2, RowsAre, RowsDistinct DEF LocksHeld
  <2>4. lock'[Gen(t.shard)] = c BY <1>9, <2>1 DEF Inv, Typed
  <2>5. HeldLocks(c)' BY <1>3, <1>5, <1>6, <2>4 DEF HeldLocks
  <2>6. ClientInv(c)' BY <1>7, <1>10, <2>3, <2>5 DEF ClientInv
  <2> QED BY <1>3, <1>4, <1>9, <2>1, <2>6, LockKeeps
<1>12. CASE t.op = "release" /\ UNCHANGED lock
  <2>1. LocksHeld(c)' BY <1>1, <1>3, <1>5, <1>6, <1>8, <1>12 DEF LocksHeld
  <2>2. HeldLocks(c)' BY <1>3, <1>5, <1>6, <1>12 DEF HeldLocks, Granting
  <2>3. ClientInv(c)' BY <1>7, <1>10, <2>1, <2>2 DEF ClientInv
  <2>4. lock' \in [Rows -> Clients \cup {None}] BY <1>12 DEF Inv, Typed
  <2> QED BY <1>3, <1>4, <1>12, <2>3, <2>4, LocalStep
<1> QED BY <1>1, <1>11, <1>12

\* A lease transaction that goes on to its commit finds its row without a lock:
\* when there is no lease, every holder of the row would have the lock of the
\* generation, or have found a lease.
LEMMA LeaseRowFree ==
  ASSUME Inv, NEW c \in Clients, tx[c].op \in LeaseOps, tx[c].pc = "lease",
         LeaseOutcome(tx[c], leases[tx[c].shard], gens[tx[c].shard]),
         leases[tx[c].shard] # None => lock[LeaseRow(tx[c].shard)] = None
  PROVE  lock[LeaseRow(tx[c].shard)] = None
<1> DEFINE s == tx[c].shard
<1> SUFFICES ASSUME leases[s] = None, lock[LeaseRow(s)] # None PROVE FALSE
  OBVIOUS
<1>1. s \in Shards /\ LeaseRow(s) \in Rows BY Busy, RowsAre
<1>2. PICK d \in Clients : lock[LeaseRow(s)] = d BY <1>1 DEF Inv, Typed
<1>3. tx[c].op = "savelease" BY OutcomeOnNone
<1>4. lock[Gen(s)] = c BY <1>3 DEF Inv, ClientInv, HeldLocks, Granting
<1>5. /\ tx[d].shard = s
      /\ \/ tx[d].op \in LeaseOps /\ tx[d].pc = "commit"
         \/ tx[d].op \in WriteOps /\ tx[d].pc \in {"write", "commit"}
  BY <1>1, <1>2 DEF Inv, ClientInv, LocksHeld
<1>6. CASE tx[d].op \in LeaseOps /\ tx[d].pc = "commit"
  <2>1. tx[d].op = "savelease"
    BY <1>5, <1>6, OutcomeOnNone DEF Inv, ClientInv, Decided
  <2>2. lock[Gen(s)] = d BY <1>5, <1>6, <2>1 DEF Inv, ClientInv, HeldLocks, Granting
  <2> QED BY <1>4, <1>6, <2>2
<1>7. CASE tx[d].op \in WriteOps /\ tx[d].pc \in {"write", "commit"}
  BY <1>5, <1>7 DEF Inv, ClientInv, Decided
<1> QED BY <1>5, <1>6, <1>7

\* loadLeaseStateTx locks the lease row and the method decides: the lock is taken
\* from nobody, and the decision holds of the rows as they are.
LEMMA LockLeaseKeeps == ASSUME Inv, NEW c \in Clients, LockLease(c) PROVE Inv'
<1> DEFINE t == tx[c]
           u == [tx[c] EXCEPT !.pc = "commit"]
<1>1. /\ t.op \in LeaseOps /\ t.pc = "lease"
      /\ leases[t.shard] # None => Free(Row(c))
      /\ \/ /\ LeaseOutcome(t, leases[t.shard], gens[t.shard])
            /\ Lock(c, Row(c), "commit")
         \/ Rollback(c)
  BY DEF LockLease, At
<1>2. t \in Tx /\ t.shard \in Shards /\ (t.op \in Granting => Offer(t)) BY <1>1, Busy
<1>3. Row(c) = LeaseRow(t.shard) /\ LeaseRow(t.shard) \in Rows BY <1>1, <1>2, RowsAt, RowsAre DEF Row
<1>4. CASE Rollback(c) BY <1>4, RollbackKeeps
<1>5. CASE LeaseOutcome(t, leases[t.shard], gens[t.shard]) /\ Lock(c, Row(c), "commit")
  <2>1. lock[LeaseRow(t.shard)] = None BY <1>1, <1>3, <1>5, LeaseRowFree DEF Free
  <2>2. /\ u \in Tx /\ u.pc = "commit" /\ u.op = t.op /\ u.shard = t.shard /\ u.lease = t.lease
        /\ u.token = t.token
    BY <1>2, Moved
  <2>3. /\ tx' = [tx EXCEPT ![c] = u] /\ UNCHANGED <<svars, clock, granted>>
        /\ lock' = [lock EXCEPT ![LeaseRow(t.shard)] = c]
    BY <1>3, <1>5 DEF Lock
  <2>4. tx'[c] = u BY <2>3 DEF Inv, Typed
  <2>5. t.op \notin WriteOps /\ t.op # "append" /\ t.op # "save" BY <1>1 DEF LeaseOps, WriteOps
  <2>6. LocksHeld(c) /\ HeldLocks(c) BY DEF Inv, ClientInv
  <2> HIDE DEF u
  <2>7. Shape(c)' BY <1>1, <1>2, <2>2, <2>3, <2>4 DEF Shape, Offer, svars
  <2>8. \A r \in Rows : /\ lock'[r] = c => r = LeaseRow(t.shard) \/ lock[r] = c
                        /\ lock[r] = c => lock'[r] = c
    BY <2>3 DEF Inv, Typed
  <2>9. LocksHeld(c)'
    BY <1>1, <1>2, <2>2, <2>4, <2>5, <2>6, <2>8, RowsAre, RowsDistinct DEF LocksHeld
  <2>10. lock'[LeaseRow(t.shard)] = c BY <1>3, <2>3 DEF Inv, Typed
  <2>11. Gen(t.shard) \in Rows BY <1>2, RowsAre
  <2>12. HeldLocks(c)' BY <1>1, <2>2, <2>4, <2>5, <2>6, <2>8, <2>10, <2>11 DEF HeldLocks
  <2>13. LeaseOutcome(u, leases[u.shard], gens[u.shard])
    BY <1>1, <1>5, <2>2, Outcomes DEF LeaseOps
  <2>14. Decided(c)' BY <2>2, <2>3, <2>4, <2>5, <2>13 DEF Decided, svars
  <2>15. ClientInv(c)' BY <2>7, <2>9, <2>12, <2>14 DEF ClientInv
  <2> QED BY <1>3, <2>1, <2>2, <2>3, <2>15, LockKeeps
<1> QED BY <1>1, <1>4, <1>5

-----------------------------------------------------------------------------
(* Commits.                                                                *)

\* A commit gives back the locks of its session and writes rows whose locks it
\* held: what others have decided stays.
LEMMA CommitKeeps ==
  ASSUME Inv, NEW c \in Clients, Commit(c), Typed',
         \A s \in Shards : Stored(s)' /\ gens[s] <= gens'[s], head <= head',
         UNCHANGED placement,
         \A s \in Shards : lock[LeaseRow(s)] # c => leases'[s] = leases[s] /\ gens'[s] = gens[s],
         lock[HeadRow] # c => head' = head
  PROVE  Inv'
<1>1. tx' = [tx EXCEPT ![c] = Idle] /\ lock' = Unlocked(c) /\ UNCHANGED clock BY DEF Commit
<1>2. tx'[c] = Idle BY <1>1 DEF Inv, Typed
<1>3. ClientInv(c)' BY <1>1, <1>2, UnlockedRows, IdleInv
<1>4. ASSUME NEW d \in Clients, d # c PROVE ClientInv(d)'
  <2>1. tx'[d] = tx[d] BY <1>1, <1>4 DEF Inv, Typed
  <2>2. \A r \in Rows : lock'[r] = d <=> lock[r] = d BY <1>1, <1>4, UnlockedRows
  <2>3. ClientInv(d) BY DEF Inv
  <2>4. Shape(d)'
    <3>1. CASE tx[d] = Idle BY <2>1, <3>1 DEF Shape
    <3>2. CASE tx[d].op \in LeaseOps /\ tx[d] # Idle
      <4>1. tx[d].shard \in Shards /\ gens[tx[d].shard] \in Nat /\ gens'[tx[d].shard] \in Nat
        BY <3>2, Busy DEF Inv, Typed
      <4>2. tx[d].op \in Granting => Offer(tx[d])' BY <1>1, <2>1, <3>2, <4>1, Busy DEF Offer, Lease
      <4> QED BY <2>1, <3>2, <4>1, <4>2, Busy DEF Shape, Offer
    <3>3. CASE tx[d].op \in WriteOps /\ tx[d] # Idle
      <4>1. head \in Nat /\ head' \in Nat /\ tx[d].offset \in Nat BY <3>3, Busy DEF Inv, Typed, Tx
      <4> QED BY <2>1, <3>3, <4>1, Busy DEF Shape
    <3> QED BY <2>3, <3>1, <3>2, <3>3 DEF ClientInv, Shape
  <2>5. LocksHeld(d)' BY <2>1, <2>2, <2>3, RowsAre DEF ClientInv, LocksHeld
  <2>6. HeldLocks(d)'
    BY <2>1, <2>2, <2>3, RowsAre DEF ClientInv, Shape, HeldLocks, Granting, LeaseOps, WriteOps, Idle
  <2>7. Decided(d)'
    <3>1. ASSUME \/ tx[d].op \in LeaseOps /\ tx[d].pc = "commit"
                 \/ tx[d].op \in WriteOps /\ tx[d].pc \in {"write", "commit"}
          PROVE  leases'[tx[d].shard] = leases[tx[d].shard] /\ gens'[tx[d].shard] = gens[tx[d].shard]
      <4>1. tx[d].shard \in Shards BY <3>1, Busy
      <4>2. lock[LeaseRow(tx[d].shard)] = d BY <2>3, <3>1 DEF ClientInv, HeldLocks
      <4> QED BY <1>4, <4>1, <4>2
    <3>2. tx[d].op = "append" /\ tx[d].pc = "commit" => head' = head
      BY <1>4, <2>3 DEF ClientInv, HeldLocks
    <3> QED BY <2>1, <2>3, <3>1, <3>2 DEF ClientInv, Decided
  <2> QED BY <2>4, <2>5, <2>6, <2>7 DEF ClientInv
<1> QED BY <1>3, <1>4 DEF Inv

\* The lease a session saves is accepted without reserve: the record that is
\* stored ends after it starts, because a renewal keeps the start of its
\* generation, which its token names.  What is stored carries its own instant.
LEMMA SaveDecided ==
  ASSUME Inv, NEW c \in Clients, tx[c].op = "savelease", tx[c].pc = "commit"
  PROVE  LET s == tx[c].shard
             rec == tx[c].lease
             new == SavedLease(leases[s], rec)
         IN /\ SaveLeaseOutcome(leases[s], gens[s], rec) = "ok"
            /\ new \in Lease /\ new.epoch = rec.epoch /\ new.token = rec.token
            /\ new.token[2] = new.acquiredAt /\ new.acquiredAt <= clock
            /\ SavedLease(leases[s], new) = new
            /\ SaveLeaseOutcome(leases[s], gens[s], new) = "ok"
<1> DEFINE s == tx[c].shard
           rec == tx[c].lease
           cur == leases[s]
           last == gens[s]
           new == SavedLease(cur, rec)
<1>1. s \in Shards /\ Offer(tx[c]) BY Busy DEF LeaseOps, Granting
<1>2. SaveLeaseOutcome(cur, last, rec) \in {"ok", "invalid"}
  BY Outcomes DEF Inv, ClientInv, Decided, LeaseOps
<1>3. cur \in Lease \cup {None} /\ Stored(s) /\ last \in Nat /\ clock \in Nat
  BY <1>1 DEF Inv, Typed
<1>4. ~SaveIsStale(cur, last, rec) /\ ~SaveConflicts(cur, rec) BY <1>2 DEF SaveLeaseOutcome
<1>5. /\ rec \in Lease /\ rec.token \in Nodes \X Nat /\ rec.token[2] \in Nat
      /\ rec.token[2] <= rec.acquiredAt
      /\ rec.acquiredAt <= clock /\ rec.acquiredAt < rec.expiresAt
      /\ rec.token[2] = rec.acquiredAt \/ rec.epoch <= last
      /\ rec.acquiredAt \in Nat /\ rec.expiresAt \in Nat /\ rec.epoch \in Nat
  BY <1>1 DEF Offer, Lease
<1> HIDE DEF s, rec, cur, last
<1>6. CASE cur # None /\ SameLease(cur, rec)
  <2>1. new = [rec EXCEPT !.acquiredAt = cur.acquiredAt] BY <1>6 DEF SavedLease
  <2>2. cur \in Lease /\ cur.acquiredAt \in Nat BY <1>3, <1>6 DEF Lease
  <2>3. /\ cur.acquiredAt = cur.token[2] /\ cur.token = rec.token /\ cur.acquiredAt <= clock
    BY <1>3, <1>6 DEF Stored, SameLease, cur
  <2>4. /\ new \in Lease /\ new.epoch = rec.epoch /\ new.token = rec.token /\ new.node = rec.node
        /\ new.acquiredAt = cur.acquiredAt /\ new.expiresAt = rec.expiresAt
    BY <1>5, <2>1, <2>2 DEF Lease
  <2> HIDE DEF new
  <2>5. new.acquiredAt < new.expiresAt BY <1>5, <2>2, <2>3, <2>4
  <2>6. SaveLeaseOutcome(cur, last, rec) = "ok"
    BY <1>4, <2>2, <2>4, <2>5 DEF SaveLeaseOutcome, new, Lease
  <2>7. SameLease(cur, new) BY <1>6, <2>4 DEF SameLease
  <2>8. SavedLease(cur, new) = [new EXCEPT !.acquiredAt = cur.acquiredAt]
    BY <1>6, <2>7 DEF SavedLease
  <2>9. SavedLease(cur, new) = new BY <2>4, <2>8 DEF Lease
  <2>10. ~SaveIsStale(cur, last, new) /\ ~SaveConflicts(cur, new)
    BY <1>6, <2>7 DEF SaveIsStale, SaveConflicts
  <2>11. SaveLeaseOutcome(cur, last, new) = "ok"
    BY <1>5, <2>2, <2>4, <2>5, <2>9, <2>10 DEF SaveLeaseOutcome
  <2>12. new.token[2] = new.acquiredAt /\ new.acquiredAt <= clock BY <2>3, <2>4
  <2> QED BY <2>4, <2>6, <2>9, <2>11, <2>12 DEF new, s, rec, cur, last
<1>7. CASE ~(cur # None /\ SameLease(cur, rec))
  <2>1. new = rec BY <1>7 DEF SavedLease
  <2>2. rec.epoch > last
    <3>1. CASE cur = None BY <1>3, <1>4, <1>5, <3>1 DEF SaveIsStale
    <3>2. CASE cur # None
      <4>1. cur \in Lease /\ cur.epoch \in Nat BY <1>3, <3>2 DEF Lease
      <4>2. rec.epoch > cur.epoch BY <1>4, <1>5, <1>7, <3>2, <4>1 DEF SaveIsStale
      <4>3. ~ActiveAt(cur, rec.acquiredAt) BY <1>4, <1>7, <3>2, <4>2 DEF SaveConflicts
      <4> QED BY <1>3, <1>4, <1>5, <1>7, <3>2, <4>3 DEF SaveIsStale
    <3> QED BY <3>1, <3>2
  <2>3. rec.token[2] = rec.acquiredAt BY <1>3, <1>5, <2>2
  <2>4. SaveLeaseOutcome(cur, last, rec) = "ok"
    BY <1>4, <1>5, <2>1 DEF SaveLeaseOutcome
  <2>5. SavedLease(cur, new) = new BY <1>7, <2>1 DEF SavedLease
  <2> HIDE DEF new
  <2> QED BY <1>5, <2>1, <2>3, <2>4, <2>5 DEF new, s, rec, cur, last
<1> QED BY <1>6, <1>7

\* The lease a handoff stores is the one it was given, of the next generation.
LEMMA HandoffDecided ==
  ASSUME Inv, NEW c \in Clients, tx[c].op = "handoff", tx[c].pc = "commit"
  PROVE  LET s == tx[c].shard
             rec == tx[c].lease
         IN /\ leases[s] # None /\ tx[c].token = leases[s].token
            /\ HandoffOutcome(leases[s], gens[s], leases[s].token, rec) = "ok"
            /\ rec \in Lease /\ SavedLease(leases[s], rec) = rec
            /\ rec.token \in Nodes \X Nat
            /\ rec.token[2] = rec.acquiredAt /\ rec.acquiredAt <= clock
<1> DEFINE s == tx[c].shard
           rec == tx[c].lease
           cur == leases[s]
           last == gens[s]
<1>1. s \in Shards /\ Offer(tx[c]) BY Busy DEF LeaseOps, Granting
<1>2. HandoffOutcome(cur, last, tx[c].token, rec) = "ok"
  BY Outcomes DEF Inv, ClientInv, Decided, LeaseOps
<1>3. cur \in Lease \cup {None} /\ last \in Nat BY <1>1 DEF Inv, Typed
<1>4. rec \in Lease /\ rec.epoch \in Nat BY <1>1 DEF Offer, Lease
<1>5. /\ cur # None /\ cur.token = tx[c].token
      /\ rec.epoch = cur.epoch + 1 /\ ~(rec.epoch <= last)
  BY <1>2 DEF HandoffOutcome
<1>6. cur.epoch \in Nat BY <1>3, <1>5 DEF Lease
<1>7. ~SameLease(cur, rec) BY <1>5, <1>6 DEF SameLease
<1>8. SavedLease(cur, rec) = rec BY <1>7 DEF SavedLease
<1>9. /\ rec.token \in Nodes \X Nat /\ rec.token[2] = rec.acquiredAt /\ rec.acquiredAt <= clock
  BY <1>1, <1>5 DEF Offer
<1> QED BY <1>2, <1>4, <1>5, <1>8, <1>9

\* A fence is what names a lease.
LEMMA FenceOfLease == ASSUME NEW r \in Lease PROVE FenceOf(r) \in Fence
BY DEF FenceOf, Fence, Lease

\* Both tables change together, for a lease that is offered ...
LEMMA CommitGrantKeeps ==
  ASSUME Inv, NEW c \in Clients, CommitLease(c), tx[c].op \in Granting
  PROVE  Inv'
<1> DEFINE t == tx[c]
           s == tx[c].shard
           new == SavedLease(leases[s], t.lease)
<1>1. /\ t.op \in LeaseOps /\ t.pc = "commit" /\ t.op # "release"
      /\ leases' = [leases EXCEPT ![s] = new]
      /\ gens' = [gens EXCEPT ![s] = Larger(@, t.lease.epoch)]
      /\ granted' = [granted EXCEPT ![s] = @ \cup {FenceOf(t.lease)}]
      /\ Commit(c) /\ UNCHANGED <<placement, head, log, checkpoint>>
  BY DEF CommitLease, At, Granting
<1>2. s \in Shards /\ t.lease \in Lease /\ lock[LeaseRow(s)] = c
  BY <1>1, Busy DEF Offer, Inv, ClientInv, HeldLocks
<1>3. /\ new \in Lease /\ new.epoch = t.lease.epoch /\ new.token \in Nodes \X Nat
      /\ new.token[2] = new.acquiredAt /\ new.acquiredAt <= clock
  <2>1. CASE t.op = "savelease"
    <3>1. t.lease.token \in Nodes \X Nat BY <1>1, Busy DEF Offer
    <3> QED BY <1>1, <2>1, <3>1, SaveDecided
  <2>2. CASE t.op = "handoff" BY <1>1, <2>2, HandoffDecided
  <2> QED BY <2>1, <2>2 DEF Granting
<1>4. FenceOf(t.lease) \in Fence BY <1>2, FenceOfLease
<1>5. new.epoch \in Nat /\ gens[s] \in Nat BY <1>2, <1>3 DEF Inv, Typed, Lease
<1> HIDE DEF new
<1>6. Larger(gens[s], new.epoch) \in Nat /\ gens[s] <= Larger(gens[s], new.epoch)
      /\ new.epoch <= Larger(gens[s], new.epoch)
  BY <1>5 DEF Larger
<1>7. gens' = [gens EXCEPT ![s] = Larger(gens[s], new.epoch)] BY <1>1, <1>3
<1>8. Typed'
  <2>1. lock' \in [Rows -> Clients \cup {None}] BY <1>1, UnlockedRows DEF Commit
  <2>2. tx' \in [Clients -> Tx] BY <1>1, IdleTx DEF Commit, Inv, Typed
  <2>3. granted' \in [Shards -> SUBSET Fence] BY <1>1, <1>4 DEF Inv, Typed
  <2> QED BY <1>1, <1>3, <1>6, <1>7, <2>1, <2>2, <2>3 DEF Commit, Inv, Typed
<1>9. ASSUME NEW u \in Shards PROVE Stored(u)' /\ gens[u] <= gens'[u]
  <2>1. CASE u = s
    <3>1. leases'[u] = new /\ gens'[u] = Larger(gens[s], new.epoch)
      BY <1>1, <1>2, <1>7, <2>1 DEF Inv, Typed
    <3>2. clock' = clock BY <1>1 DEF Commit
    <3> QED BY <1>3, <1>6, <2>1, <3>1, <3>2 DEF Stored
  <2>2. CASE u # s
    <3>1. leases'[u] = leases[u] /\ gens'[u] = gens[u] /\ gens[u] \in Nat
      BY <1>1, <1>2, <1>7, <2>2 DEF Inv, Typed
    <3>2. clock' = clock BY <1>1 DEF Commit
    <3> QED BY <3>1, <3>2 DEF Inv, Stored
  <2> QED BY <2>1, <2>2
<1>10. \A u \in Shards : lock[LeaseRow(u)] # c => leases'[u] = leases[u] /\ gens'[u] = gens[u]
  BY <1>1, <1>2, <1>7 DEF Inv, Typed
<1>11. head <= head' /\ head' = head /\ UNCHANGED placement BY <1>1 DEF Inv, Typed
<1> QED BY <1>1, <1>8, <1>9, <1>10, <1>11, CommitKeeps

\* ... and for one that is given back.
LEMMA CommitReleaseKeeps ==
  ASSUME Inv, NEW c \in Clients, CommitLease(c), tx[c].op = "release"
  PROVE  Inv'
<1> DEFINE t == tx[c]
           s == tx[c].shard
<1>1. /\ t.op \in LeaseOps /\ t.pc = "commit"
      /\ leases' = [leases EXCEPT ![s] = None]
      /\ gens' = [gens EXCEPT ![s] = ReleasedLast(leases[s], gens[s])]
      /\ Commit(c) /\ UNCHANGED <<placement, head, log, checkpoint, granted>>
  BY DEF CommitLease, At
<1>2. s \in Shards /\ lock[LeaseRow(s)] = c BY <1>1, Busy DEF Inv, ClientInv, HeldLocks
<1>3. ReleaseOK(leases[s], t.token) BY <1>1, Outcomes DEF Inv, ClientInv, Decided
<1>4. leases[s] \in Lease /\ leases[s].epoch \in Nat /\ gens[s] \in Nat
  BY <1>2, <1>3 DEF ReleaseOK, Inv, Typed, Lease
<1>5. ReleasedLast(leases[s], gens[s]) \in Nat /\ gens[s] <= ReleasedLast(leases[s], gens[s])
  BY <1>4 DEF ReleasedLast, Larger
<1>6. Typed'
  <2>1. lock' \in [Rows -> Clients \cup {None}] BY <1>1, UnlockedRows DEF Commit
  <2>2. tx' \in [Clients -> Tx] BY <1>1, IdleTx DEF Commit, Inv, Typed
  <2> QED BY <1>1, <1>5, <2>1, <2>2 DEF Commit, Inv, Typed
<1>7. ASSUME NEW u \in Shards PROVE Stored(u)' /\ gens[u] <= gens'[u]
  <2>1. CASE u = s
    <3>1. leases'[u] = None /\ gens'[u] = ReleasedLast(leases[s], gens[s])
      BY <1>1, <1>2, <2>1 DEF Inv, Typed
    <3> QED BY <1>5, <2>1, <3>1 DEF Stored
  <2>2. CASE u # s
    <3>1. leases'[u] = leases[u] /\ gens'[u] = gens[u] /\ gens[u] \in Nat
      BY <1>1, <1>2, <2>2 DEF Inv, Typed
    <3>2. clock' = clock BY <1>1 DEF Commit
    <3> QED BY <3>1, <3>2 DEF Inv, Stored
  <2> QED BY <2>1, <2>2
<1>8. \A u \in Shards : lock[LeaseRow(u)] # c => leases'[u] = leases[u] /\ gens'[u] = gens[u]
  BY <1>1, <1>2 DEF Inv, Typed
<1>9. head <= head' /\ head' = head /\ UNCHANGED placement BY <1>1 DEF Inv, Typed
<1> QED BY <1>1, <1>6, <1>7, <1>8, <1>9, CommitKeeps

\* A write transaction changes neither leases nor placement.
LEMMA CommitWriteKeeps ==
  ASSUME Inv, NEW c \in Clients, Commit(c), UNCHANGED <<placement, gens, leases, granted>>,
         head' \in Nat \ {0}, head <= head', lock[HeadRow] # c => head' = head,
         log' \subseteq Record, checkpoint' \in Checkpoint
  PROVE  Inv'
<1>1. Typed'
  <2>1. lock' \in [Rows -> Clients \cup {None}] BY UnlockedRows DEF Commit
  <2>2. tx' \in [Clients -> Tx] BY IdleTx DEF Commit, Inv, Typed
  <2> QED BY <2>1, <2>2 DEF Commit, Inv, Typed
<1>2. ASSUME NEW u \in Shards PROVE Stored(u)' /\ gens[u] <= gens'[u]
  BY DEF Commit, Inv, Stored, Typed
<1> QED BY <1>1, <1>2, CommitKeeps

-----------------------------------------------------------------------------
(* Fenced writes.                                                          *)

\* A fenced append, save or trim begins.
LEMMA BeginWriteKeeps == ASSUME Inv, NEW c \in Clients, BeginWrite(c) PROVE Inv'
<1>1. PICK s \in Shards : \E f \in granted[s] :
        \/ Begin(c, WriteTx("append", s, f, 0))
        \/ \E op \in {"save", "trim"} : head > 1 /\ Begin(c, WriteTx(op, s, f, head - 1))
  BY DEF BeginWrite
<1>2. PICK f \in Fence :
        \/ Begin(c, WriteTx("append", s, f, 0))
        \/ \E op \in {"save", "trim"} : head > 1 /\ Begin(c, WriteTx(op, s, f, head - 1))
  BY <1>1 DEF Inv, Typed
<1>3. head \in Nat \ {0} /\ clock \in Nat BY DEF Inv, Typed
<1>4. PICK op \in WriteOps, k \in Nat :
        Begin(c, WriteTx(op, s, f, k)) /\ (op \in {"save", "trim"} => k < head)
  <2>1. CASE Begin(c, WriteTx("append", s, f, 0)) BY <2>1 DEF WriteOps
  <2>2. CASE \E op \in {"save", "trim"} : head > 1 /\ Begin(c, WriteTx(op, s, f, head - 1))
    <3>1. head - 1 \in Nat /\ head - 1 < head BY <1>3
    <3> QED BY <2>2, <3>1 DEF WriteOps
  <2> QED BY <1>2, <2>1, <2>2
<1> DEFINE t == WriteTx(op, s, f, k)
<1>5. /\ t \in Tx /\ t.op = op /\ t.pc = "placement" /\ t.shard = s /\ t.fence = f /\ t.offset = k
  BY <1>3 DEF WriteTx, Tx, Idle, WriteOps
<1> HIDE DEF t
<1>6. Begin(c, t) BY <1>4 DEF t
<1>7. tx'[c] = t /\ UNCHANGED svars BY <1>5, <1>6 DEF Begin, Inv, Typed
<1>8. Shape(c)' BY <1>4, <1>5, <1>7 DEF Shape, svars
<1>9. \/ t.op \in LeaseOps /\ t.pc = "gen"
      \/ t.op \in WriteOps /\ t.pc = "placement"
  BY <1>5
<1> QED BY <1>5, <1>6, <1>8, <1>9, BeginKeeps

\* A write locks a free row and goes on to the next place.
LEMMA WriteLocks ==
  ASSUME Inv, NEW c \in Clients, tx[c].op \in WriteOps, NEW row \in Rows, lock[row] = None,
         NEW u \in Tx, lock' = [lock EXCEPT ![row] = c], tx' = [tx EXCEPT ![c] = u],
         UNCHANGED <<svars, clock, granted>>,
         u.op = tx[c].op, u.shard = tx[c].shard, u.fence = tx[c].fence,
         u.op \in {"save", "trim"} => u.offset = tx[c].offset,
         \/ /\ tx[c].pc = "placement" /\ u.pc = "lease" /\ row = PlacementRow
            /\ placement = tx[c].shard
         \/ /\ tx[c].pc = "lease" /\ u.pc = "write" /\ row = LeaseRow(tx[c].shard)
            /\ leases[tx[c].shard] # None /\ FenceOf(leases[tx[c].shard]) = tx[c].fence
         \/ /\ tx[c].pc = "write" /\ u.pc = "commit"
            /\ \/ tx[c].op = "append" /\ row = HeadRow /\ u.offset = head
               \/ tx[c].op = "save" /\ row = SnapshotRow
  PROVE  Inv'
<1>1. tx'[c] = u BY DEF Inv, Typed
<1>2. ClientInv(c) BY DEF Inv
<1>3. /\ tx[c].shard \in Shards /\ tx[c].fence \in Fence
      /\ tx[c].op \in {"save", "trim"} => tx[c].offset < head
  BY Busy
<1>4. tx[c].op \notin LeaseOps /\ tx[c].op \notin Granting BY DEF LeaseOps, WriteOps, Granting
<1>5. Shape(c)' BY <1>1, <1>3 DEF Shape, svars
<1>6. \A r \in Rows : lock'[r] = c <=> r = row \/ lock[r] = c BY DEF Inv, Typed
<1>7. LocksHeld(c)'
  <2>1. \A s \in Shards : ~(lock'[Gen(s)] = c)
    BY <1>2, <1>4, <1>6, RowsAre, RowsDistinct DEF ClientInv, LocksHeld
  <2>2. \A s \in Shards : lock'[LeaseRow(s)] = c =>
          tx'[c].op \in WriteOps /\ tx'[c].pc \in {"write", "commit"} /\ tx'[c].shard = s
    BY <1>1, <1>2, <1>3, <1>4, <1>6, RowsAre, RowsDistinct DEF ClientInv, LocksHeld
  <2>3. lock'[PlacementRow] = c => tx'[c].op \in WriteOps /\ tx'[c].pc \in {"lease", "write", "commit"}
    BY <1>1, <1>2, <1>6, RowsAre, RowsDistinct DEF ClientInv, LocksHeld
  <2>4. /\ lock'[HeadRow] = c => tx'[c].op = "append" /\ tx'[c].pc = "commit"
        /\ lock'[SnapshotRow] = c => tx'[c].op = "save" /\ tx'[c].pc = "commit"
    BY <1>1, <1>2, <1>6, RowsAre, RowsDistinct DEF ClientInv, LocksHeld
  <2> QED BY <2>1, <2>2, <2>3, <2>4 DEF LocksHeld
<1>8. HeldLocks(c)'
  BY <1>1, <1>2, <1>3, <1>4, <1>6, RowsAre DEF ClientInv, HeldLocks
<1>9. Decided(c)' BY <1>1, <1>2, <1>4 DEF ClientInv, Decided, svars
<1>10. ClientInv(c)' BY <1>5, <1>7, <1>8, <1>9 DEF ClientInv
<1> QED BY <1>10, LockKeeps

\* validateAuthorityWriteTx locks the placement of the shard it was given ...
LEMMA LockPlacementKeeps == ASSUME Inv, NEW c \in Clients, LockPlacement(c) PROVE Inv'
<1> DEFINE u == [tx[c] EXCEPT !.pc = "lease"]
<1>1. /\ tx[c].op \in WriteOps /\ tx[c].pc = "placement"
      /\ placement # None => Free(Row(c))
      /\ \/ placement = tx[c].shard /\ Lock(c, Row(c), "lease")
         \/ Rollback(c)
  BY DEF LockPlacement, At
<1>2. tx[c] \in Tx /\ tx[c].shard \in Shards BY <1>1, Busy
<1>3. Row(c) = PlacementRow /\ PlacementRow \in Rows BY <1>1, RowsAt, RowsAre DEF Row
<1>4. CASE Rollback(c) BY <1>4, RollbackKeeps
<1>5. CASE placement = tx[c].shard /\ Lock(c, Row(c), "lease")
  <2>1. lock[PlacementRow] = None BY <1>1, <1>2, <1>3, <1>5, ClientAssumption DEF Free
  <2>2. /\ u \in Tx /\ u.pc = "lease" /\ u.op = tx[c].op /\ u.shard = tx[c].shard
        /\ u.fence = tx[c].fence /\ u.offset = tx[c].offset
    BY <1>2, Moved
  <2>3. /\ tx' = [tx EXCEPT ![c] = u] /\ UNCHANGED <<svars, clock, granted>>
        /\ lock' = [lock EXCEPT ![PlacementRow] = c]
    BY <1>3, <1>5 DEF Lock
  <2> HIDE DEF u
  <2> QED BY <1>1, <1>3, <1>5, <2>1, <2>2, <2>3, WriteLocks
<1> QED BY <1>1, <1>4, <1>5

\* ... and then the lease of its fence, which is there.
LEMMA LockAuthorityKeeps == ASSUME Inv, NEW c \in Clients, LockAuthority(c) PROVE Inv'
<1> DEFINE u == [tx[c] EXCEPT !.pc = "write"]
           s == tx[c].shard
<1>1. /\ tx[c].op \in WriteOps /\ tx[c].pc = "lease"
      /\ leases[s] # None => Free(Row(c))
      /\ \/ FenceValid(leases[s], tx[c].fence, tx[c].now) /\ Lock(c, Row(c), "write")
         \/ Rollback(c)
  BY DEF LockAuthority, At
<1>2. tx[c] \in Tx /\ s \in Shards BY <1>1, Busy
<1>3. Row(c) = LeaseRow(s) /\ LeaseRow(s) \in Rows BY <1>1, <1>2, RowsAt, RowsAre DEF Row
<1>4. CASE Rollback(c) BY <1>4, RollbackKeeps
<1>5. CASE FenceValid(leases[s], tx[c].fence, tx[c].now) /\ Lock(c, Row(c), "write")
  <2>1. leases[s] # None /\ FenceOf(leases[s]) = tx[c].fence BY <1>5 DEF FenceValid, HeldAt
  <2>2. lock[LeaseRow(s)] = None BY <1>1, <1>3, <2>1 DEF Free
  <2>3. /\ u \in Tx /\ u.pc = "write" /\ u.op = tx[c].op /\ u.shard = s
        /\ u.fence = tx[c].fence /\ u.offset = tx[c].offset
    BY <1>2, Moved
  <2>4. /\ tx' = [tx EXCEPT ![c] = u] /\ UNCHANGED <<svars, clock, granted>>
        /\ lock' = [lock EXCEPT ![LeaseRow(s)] = c]
    BY <1>3, <1>5 DEF Lock
  <2> HIDE DEF u
  <2> QED BY <1>1, <1>3, <2>1, <2>2, <2>3, <2>4, WriteLocks
<1> QED BY <1>1, <1>4, <1>5

\* The write locks the row it changes; an append takes its offset from the heads
\* row under that lock.
LEMMA WriteRowKeeps == ASSUME Inv, NEW c \in Clients, WriteRow(c) PROVE Inv'
<1> DEFINE off == IF tx[c].op = "append" THEN head ELSE tx[c].offset
           u == [tx[c] EXCEPT !.pc = "commit", !.offset = off]
<1>1. /\ tx[c].op \in WriteOps /\ tx[c].pc = "write"
      /\ tx[c].op = "trim" \/ lock[Row(c)] = None
      /\ lock' = IF tx[c].op = "trim" THEN lock ELSE [lock EXCEPT ![Row(c)] = c]
      /\ UNCHANGED <<svars, clock, granted>>
  BY DEF WriteRow, At, Free
<1>2. tx[c] \in Tx /\ tx[c].shard \in Shards BY <1>1, Busy
<1>3. off \in Nat BY <1>2 DEF Inv, Typed, Tx
<1>4. tx' = [tx EXCEPT ![c] = u] BY DEF WriteRow
<1> HIDE DEF off
<1>5. /\ u \in Tx /\ u.pc = "commit" /\ u.op = tx[c].op /\ u.shard = tx[c].shard
      /\ u.fence = tx[c].fence /\ u.offset = off
  BY <1>2, <1>3 DEF Tx
<1>6. Row(c) = IF tx[c].op = "append" THEN HeadRow ELSE SnapshotRow
  BY <1>1, RowsAt DEF Row
<1> HIDE DEF u
<1>7. CASE tx[c].op = "trim"
  <2>1. u.offset = tx[c].offset BY <1>5, <1>7 DEF off
  <2>2. tx'[c] = u BY <1>4, <1>5 DEF Inv, Typed
  <2>3. ClientInv(c) BY DEF Inv
  <2>4. /\ tx[c].fence \in Fence /\ tx[c].offset < head BY <1>1, <1>7, Busy
  <2>5. Shape(c)' BY <1>1, <1>2, <1>5, <2>1, <2>2, <2>4 DEF Shape, svars
  <2>6. tx[c].op \notin LeaseOps /\ tx[c].op \notin Granting BY <1>7 DEF LeaseOps, Granting
  <2>7. LocksHeld(c)' BY <1>1, <1>5, <1>7, <2>2, <2>3, <2>6 DEF ClientInv, LocksHeld
  <2>8. HeldLocks(c)' BY <1>1, <1>5, <1>7, <2>2, <2>3, <2>6 DEF ClientInv, HeldLocks
  <2>9. Decided(c)' BY <1>1, <1>5, <1>7, <2>2, <2>3, <2>6 DEF ClientInv, Decided, svars
  <2>10. ClientInv(c)' BY <2>5, <2>7, <2>8, <2>9 DEF ClientInv
  <2>11. lock' = lock /\ lock' \in [Rows -> Clients \cup {None}] BY <1>1, <1>7 DEF Inv, Typed
  <2> QED BY <1>1, <1>4, <1>5, <2>10, <2>11, LocalStep
<1>8. CASE tx[c].op = "append"
  <2>1. u.offset = head /\ lock[HeadRow] = None /\ lock' = [lock EXCEPT ![HeadRow] = c]
    BY <1>1, <1>5, <1>6, <1>8 DEF off
  <2>2. HeadRow \in Rows BY RowsAre
  <2> QED BY <1>1, <1>4, <1>5, <1>8, <2>1, <2>2, WriteLocks
<1>9. CASE tx[c].op = "save"
  <2>1. /\ u.offset = tx[c].offset /\ lock[SnapshotRow] = None
        /\ lock' = [lock EXCEPT ![SnapshotRow] = c]
    BY <1>1, <1>5, <1>6, <1>9 DEF off
  <2>2. SnapshotRow \in Rows BY RowsAre
  <2> QED BY <1>1, <1>4, <1>5, <1>9, <2>1, <2>2, WriteLocks
<1> QED BY <1>1, <1>7, <1>8, <1>9 DEF WriteOps

\* What a fenced write finds at its commit.
LEMMA WriteDecided ==
  ASSUME Inv, NEW c \in Clients, tx[c].op \in WriteOps, tx[c].pc = "commit"
  PROVE  /\ tx[c].shard \in Shards /\ placement = tx[c].shard
         /\ leases[tx[c].shard] # None /\ FenceOf(leases[tx[c].shard]) = tx[c].fence
         /\ tx[c].fence.epoch \in Nat /\ tx[c].offset \in Nat
         /\ tx[c].op = "append" => tx[c].offset = head /\ lock[HeadRow] = c
         /\ tx[c].op \in {"save", "trim"} => tx[c].offset < head
<1>1. tx[c] \in Tx /\ tx[c].shard \in Shards /\ tx[c].fence \in Fence BY Busy
<1>2. tx[c].fence.epoch \in Nat /\ tx[c].offset \in Nat BY <1>1 DEF Fence, Tx
<1>3. tx[c].op \in {"save", "trim"} => tx[c].offset < head BY Busy
<1> QED BY <1>1, <1>2, <1>3 DEF Inv, ClientInv, Decided, HeldLocks

\* The commits of the three kinds of writes.
LEMMA CommitsKeep ==
  ASSUME Inv, NEW c \in Clients, CommitAppend(c) \/ CommitSave(c) \/ CommitTrim(c)
  PROVE  Inv'
<1>1. tx[c].op \in WriteOps /\ tx[c].pc = "commit"
  BY DEF CommitAppend, CommitSave, CommitTrim, At, WriteOps
<1>2. head \in Nat \ {0} /\ log \subseteq Record /\ checkpoint \in Checkpoint BY DEF Inv, Typed
<1>3. CASE CommitAppend(c)
  <2> DEFINE r == [offset |-> tx[c].offset, epoch |-> tx[c].fence.epoch, shard |-> tx[c].shard]
  <2>1. tx[c].op = "append" BY <1>3 DEF CommitAppend, At
  <2>2. /\ log' = log \cup {r} /\ head' = head + 1 /\ Commit(c)
        /\ UNCHANGED <<placement, gens, leases, checkpoint, granted>>
    BY <1>1, <1>3, <2>1, WriteDecided DEF CommitAppend
  <2>3. r \in Record BY <1>1, <1>2, <2>1, WriteDecided DEF Record
  <2>4. lock[HeadRow] = c BY <1>1, <2>1, WriteDecided
  <2>5. head' \in Nat \ {0} /\ head <= head' /\ log' \subseteq Record BY <1>2, <2>2, <2>3
  <2> QED BY <1>2, <2>2, <2>4, <2>5, CommitWriteKeeps
<1>4. CASE CommitSave(c)
  <2>1. /\ checkpoint' = [through |-> tx[c].offset, epoch |-> tx[c].fence.epoch] /\ Commit(c)
        /\ UNCHANGED <<placement, gens, leases, head, log, granted>>
    BY <1>4 DEF CommitSave
  <2>2. checkpoint' \in Checkpoint BY <1>1, <2>1, WriteDecided DEF Checkpoint
  <2> QED BY <1>2, <2>1, <2>2, CommitWriteKeeps
<1>5. CASE CommitTrim(c)
  <2>1. /\ log' \subseteq log /\ Commit(c)
        /\ UNCHANGED <<placement, gens, leases, head, checkpoint, granted>>
    BY <1>5 DEF CommitTrim
  <2> QED BY <1>2, <2>1, CommitWriteKeeps
<1> QED BY <1>3, <1>4, <1>5

-----------------------------------------------------------------------------
(* Single statements.                                                      *)

\* AppendUpdate: the heads row is free, so no append has an offset from it.
LEMMA UnfencedKeeps == ASSUME Inv, AppendUnfenced PROVE Inv'
<1> DEFINE r == [offset |-> head, epoch |-> 0, shard |-> None]
<1>1. /\ lock[HeadRow] = None /\ log' = log \cup {r} /\ head' = head + 1
      /\ UNCHANGED <<placement, gens, leases, checkpoint, clock, lock, tx, granted>>
  BY DEF AppendUnfenced, Free, HeadRow, AppendUpdate, AppendRecord
<1>2. head \in Nat \ {0} /\ r \in Record BY DEF Inv, Typed, Record
<1>3. head + 1 \in Nat \ {0} BY <1>2
<1> HIDE DEF r
<1>4. Typed' BY <1>1, <1>2, <1>3 DEF Inv, Typed
<1>5. \A s \in Shards : Stored(s)' BY <1>1 DEF Inv, Stored
<1>6. ASSUME NEW d \in Clients PROVE ClientInv(d)'
  <2>1. ClientInv(d) BY DEF Inv
  <2>2. Shape(d)'
    <3>1. tx[d].offset \in Nat BY DEF Inv, Typed, Tx
    <3>2. tx[d].offset < head => tx[d].offset < head' BY <1>1, <1>2, <3>1
    <3> QED BY <1>1, <2>1, <3>2 DEF ClientInv, Shape, Offer
  <2>3. LocksHeld(d)' /\ HeldLocks(d)' BY <1>1, <2>1 DEF ClientInv, LocksHeld, HeldLocks
  <2>4. ~(tx[d].op = "append" /\ tx[d].pc = "commit")
    BY <1>1, <2>1, ClientAssumption DEF ClientInv, HeldLocks
  <2>5. Decided(d)' BY <1>1, <2>1, <2>4 DEF ClientInv, Decided
  <2> QED BY <2>2, <2>3, <2>5 DEF ClientInv
<1> QED BY <1>4, <1>5, <1>6 DEF Inv

\* SavePlacement: the placement row is free, so no write has relied on it.
LEMMA UpsertKeeps == ASSUME Inv, NEW s \in Shards, UpsertPlacement(s) PROVE Inv'
<1>1. /\ lock[PlacementRow] = None /\ placement' = s
      /\ UNCHANGED <<gens, leases, head, log, checkpoint, clock, lock, tx, granted>>
  BY DEF UpsertPlacement, Free, PlacementRow, SavePlacement
<1>2. Typed' BY <1>1 DEF Inv, Typed
<1>3. \A u \in Shards : Stored(u)' BY <1>1 DEF Inv, Stored
<1>4. ASSUME NEW d \in Clients PROVE ClientInv(d)'
  <2>1. ClientInv(d) BY DEF Inv
  <2>2. Shape(d)' /\ LocksHeld(d)' /\ HeldLocks(d)'
    BY <1>1, <2>1 DEF ClientInv, Shape, Offer, LocksHeld, HeldLocks
  <2>3. ~(tx[d].op \in WriteOps /\ tx[d].pc \in {"lease", "write", "commit"})
    BY <1>1, <2>1, ClientAssumption DEF ClientInv, HeldLocks
  <2>4. Decided(d)' BY <1>1, <2>1, <2>3 DEF ClientInv, Decided, WriteOps
  <2> QED BY <2>2, <2>4 DEF ClientInv
<1> QED BY <1>2, <1>3, <1>4 DEF Inv

\* Time passes: leases and offers were of an earlier instant before, too.
LEMMA TickKeeps == ASSUME Inv, Tick PROVE Inv'
<1>1. clock' = clock + 1 /\ UNCHANGED <<placement, gens, leases, head, log, checkpoint, lock, tx, granted>>
  BY DEF Tick, svars
<1>2. clock \in Nat BY DEF Inv, Typed
<1>3. Typed' BY <1>1, <1>2 DEF Inv, Typed
<1>4. ASSUME NEW s \in Shards PROVE Stored(s)'
  <2>1. Stored(s) BY DEF Inv
  <2>2. leases[s] # None => leases[s] \in Lease BY DEF Inv, Typed
  <2>3. leases[s] # None => leases[s].acquiredAt \in Nat BY <2>2 DEF Lease
  <2>4. leases[s] # None /\ leases[s].acquiredAt <= clock => leases[s].acquiredAt <= clock'
    BY <1>1, <1>2, <2>3
  <2> QED BY <1>1, <2>1, <2>4 DEF Stored
<1>5. ASSUME NEW d \in Clients PROVE ClientInv(d)'
  <2>1. ClientInv(d) BY DEF Inv
  <2>2. Shape(d)'
    <3>1. ASSUME tx[d].op \in LeaseOps, tx[d].op \in Granting PROVE Offer(tx[d])'
      <4>1. Offer(tx[d]) /\ tx[d].lease.acquiredAt \in Nat BY <3>1, Busy DEF Offer, Lease
      <4> QED BY <1>1, <1>2, <4>1 DEF Offer
    <3> QED BY <1>1, <2>1, <3>1 DEF ClientInv, Shape
  <2>3. LocksHeld(d)' /\ HeldLocks(d)' /\ Decided(d)'
    BY <1>1, <2>1 DEF ClientInv, LocksHeld, HeldLocks, Decided
  <2> QED BY <2>2, <2>3 DEF ClientInv
<1> QED BY <1>3, <1>4, <1>5 DEF Inv

-----------------------------------------------------------------------------
(* The invariant.                                                          *)

\* At the start there are no leases, no locks and no transactions.
LEMMA InvInit == ASSUME PInit PROVE Inv
<1>1. /\ placement = None /\ gens = [s \in Shards |-> 0] /\ leases = [s \in Shards |-> None]
      /\ head = 1 /\ log = {} /\ checkpoint = Empty /\ clock = 0
      /\ lock = [r \in Rows |-> None] /\ tx = [c \in Clients |-> Idle]
      /\ granted = [s \in Shards |-> {}]
  BY DEF PInit, Init
<1>2. Typed BY <1>1, IdleTx DEF Typed, Empty, Checkpoint
<1>3. \A s \in Shards : Stored(s) BY <1>1 DEF Stored
<1>4. ASSUME NEW c \in Clients PROVE ClientInv(c)
  <2>1. tx[c] = Idle /\ \A r \in Rows : lock[r] # c BY <1>1, ClientAssumption
  <2>2. Shape(c) BY <2>1 DEF Shape
  <2>3. LocksHeld(c) BY <2>1, RowsAre DEF LocksHeld
  <2>4. HeldLocks(c) /\ Decided(c) BY <2>1, IdleTx DEF HeldLocks, Decided
  <2> QED BY <2>2, <2>3, <2>4 DEF ClientInv
<1> QED BY <1>2, <1>3, <1>4 DEF Inv

\* Every step of every session keeps the invariant.
LEMMA InvStep == ASSUME Inv, [PNext]_vars PROVE Inv'
<1>1. ASSUME NEW c \in Clients, LeaseCall(c) PROVE Inv'
  <2>1. CASE CommitLease(c)
    <3>1. tx[c].op \in Granting \/ tx[c].op = "release"
      BY <2>1 DEF CommitLease, At, LeaseOps, Granting
    <3> QED BY <2>1, <3>1, CommitGrantKeeps, CommitReleaseKeeps
  <2> QED BY <1>1, <2>1, BeginSaveLeaseKeeps, BeginHandoffLeaseKeeps, BeginReleaseLeaseKeeps,
             LockGenerationKeeps, LockLeaseKeeps DEF LeaseCall
<1>2. ASSUME NEW c \in Clients, WriteCall(c) PROVE Inv'
  BY <1>2, BeginWriteKeeps, LockPlacementKeeps, LockAuthorityKeeps, WriteRowKeeps, CommitsKeep
  DEF WriteCall
<1>3. ASSUME NEW c \in Clients, Fails(c) PROVE Inv' BY <1>3, RollbackKeeps DEF Fails
<1>4. CASE AppendUnfenced BY <1>4, UnfencedKeeps
<1>5. ASSUME NEW s \in Shards, UpsertPlacement(s) PROVE Inv' BY <1>5, UpsertKeeps
<1>6. CASE Tick BY <1>6, TickKeeps
<1>7. CASE UNCHANGED vars
  <2>1. UNCHANGED <<placement, gens, leases, head, log, checkpoint, clock, lock, tx, granted>>
    BY <1>7 DEF vars, svars
  <2>2. Typed' /\ \A s \in Shards : Stored(s)' BY <2>1 DEF Inv, Typed, Stored
  <2>3. ASSUME NEW d \in Clients PROVE ClientInv(d)' BY <2>1, OthersKept DEF svars
  <2> QED BY <2>2, <2>3 DEF Inv
<1> QED BY <1>1, <1>2, <1>3, <1>4, <1>5, <1>6, <1>7 DEF PNext

\* The invariant holds throughout.
THEOREM Invariance == PSpec => []Inv
<1>1. PInit => Inv BY InvInit
<1>2. Inv /\ [PNext]_vars => Inv' BY InvStep
<1> QED BY <1>1, <1>2, PTL DEF PSpec

-----------------------------------------------------------------------------
(* What follows.                                                           *)

\* A session that waits is at a place before its commit, for a row its next
\* statement locks.
LEMMA Waiting ==
  ASSUME Inv, NEW c \in Clients, NEW d \in Clients, WaitsFor(c, d)
  PROVE  \/ tx[c].pc = "gen" /\ lock[Gen(tx[c].shard)] = d /\ tx[c].shard \in Shards
         \/ tx[c].pc = "lease" /\ lock[LeaseRow(tx[c].shard)] = d /\ tx[c].shard \in Shards
         \/ tx[c].pc = "placement" /\ lock[PlacementRow] = d
         \/ tx[c].pc = "write" /\ (lock[HeadRow] = d \/ lock[SnapshotRow] = d)
<1>1. tx[c].op \in LeaseOps \cup WriteOps
  BY DEF WaitsFor, At, Inv, ClientInv, Shape, Idle, WriteOps
<1>2. tx[c].shard \in Shards BY <1>1, Busy
<1> QED BY <1>2, RowsAt DEF WaitsFor, At, Row

\* Rows are locked in one order: generation and placement, then the lease, then
\* the row that is written.  Whoever holds a row waits for later ones only.
LEMMA NoCircle ==
  ASSUME Inv, NEW S \in SUBSET Clients, S # {}
  PROVE  \E c \in S : \A d \in S : ~WaitsFor(c, d)
<1> SUFFICES ASSUME \A c \in S : \E d \in S : WaitsFor(c, d) PROVE FALSE
  OBVIOUS
<1>1. \A c \in S : tx[c].pc # "commit"
  <2> SUFFICES ASSUME NEW c \in S PROVE tx[c].pc # "commit" OBVIOUS
  <2>1. PICK d \in S : WaitsFor(c, d) OBVIOUS
  <2> QED BY <2>1, Waiting
<1>2. \A c \in S : tx[c].pc # "write"
  <2> SUFFICES ASSUME NEW c \in S, tx[c].pc = "write" PROVE FALSE OBVIOUS
  <2>1. PICK d \in S : WaitsFor(c, d) OBVIOUS
  <2>2. lock[HeadRow] = d \/ lock[SnapshotRow] = d BY <2>1, Waiting
  <2>3. tx[d].pc = "commit" BY <2>2 DEF Inv, ClientInv, LocksHeld
  <2> QED BY <1>1, <2>3
<1>3. \A c \in S : tx[c].pc # "lease"
  <2> SUFFICES ASSUME NEW c \in S, tx[c].pc = "lease" PROVE FALSE OBVIOUS
  <2>1. PICK d \in S : WaitsFor(c, d) OBVIOUS
  <2>2. tx[c].shard \in Shards /\ lock[LeaseRow(tx[c].shard)] = d BY <2>1, Waiting
  <2>3. tx[d].pc \in {"write", "commit"} BY <2>2 DEF Inv, ClientInv, LocksHeld
  <2> QED BY <1>1, <1>2, <2>3
<1>4. PICK c \in S : TRUE OBVIOUS
<1>5. PICK d \in S : WaitsFor(c, d) OBVIOUS
<1>6. \/ lock[Gen(tx[c].shard)] = d /\ tx[c].shard \in Shards
      \/ lock[PlacementRow] = d
  BY <1>2, <1>3, <1>5, Waiting
<1>7. tx[d].pc \in {"lease", "write", "commit"} BY <1>6 DEF Inv, ClientInv, LocksHeld
<1> QED BY <1>1, <1>2, <1>3, <1>7

\* PostgreSQL never has to end a transaction as the victim of a deadlock, however
\* many sessions save, hand off and release leases of however many shards while
\* fenced writes, snapshots and trims go on; and only a session in a transaction
\* holds locks.
THEOREM DeadlockFree == PSpec => []NoDeadlockVictim
<1>1. Inv => NoDeadlockVictim
  <2> SUFFICES ASSUME Inv PROVE NoDeadlockVictim OBVIOUS
  <2>1. ASSUME NEW c \in Clients, tx[c] = Idle, NEW r \in Rows PROVE lock[r] # c
    <3>1. LocksHeld(c) /\ tx[c].op \notin LeaseOps \cup WriteOps BY <2>1, IdleTx DEF Inv, ClientInv
    <3>2. \/ \E s \in Shards : r = Gen(s) \/ r = LeaseRow(s)
          \/ r \in {PlacementRow, HeadRow, SnapshotRow}
      BY DEF Rows, Gen, LeaseRow, PlacementRow, HeadRow, SnapshotRow
    <3> QED BY <3>1, <3>2 DEF LocksHeld, WriteOps
  <2>2. TypeOK BY <2>1 DEF TypeOK, Inv, Typed
  <2> QED BY <2>2, NoCircle DEF NoDeadlockVictim
<1> QED BY <1>1, Invariance, PTL

\* The steps of PSpec, by what they do to the tables: nothing, or a commit, or a
\* single statement.
LEMMA TableSteps ==
  ASSUME Inv, [PNext]_vars
  PROVE  \/ UNCHANGED svars
         \/ \E c \in Clients : \/ CommitLease(c) \/ CommitAppend(c)
                               \/ CommitSave(c) \/ CommitTrim(c)
         \/ AppendUnfenced
         \/ \E s \in Shards : UpsertPlacement(s)
<1>1. ASSUME NEW c \in Clients, LeaseCall(c) PROVE CommitLease(c) \/ UNCHANGED svars
  BY <1>1 DEF LeaseCall, BeginSaveLease, BeginHandoffLease, BeginReleaseLease, Begin,
              LockGeneration, LockLease, Lock, Rollback
<1>2. ASSUME NEW c \in Clients, WriteCall(c)
      PROVE  CommitAppend(c) \/ CommitSave(c) \/ CommitTrim(c) \/ UNCHANGED svars
  BY <1>2 DEF WriteCall, BeginWrite, Begin, LockPlacement, LockAuthority, WriteRow, Lock, Rollback
<1>3. ASSUME NEW c \in Clients, Fails(c) PROVE UNCHANGED svars BY <1>3 DEF Fails, Rollback
<1>4. CASE Tick BY <1>4 DEF Tick
<1>5. CASE UNCHANGED vars BY <1>5 DEF vars
<1> QED BY <1>1, <1>2, <1>3, <1>4, <1>5 DEF PNext

\* A lease commit is the method of the store in memory.
LEMMA CommitLeaseRefines ==
  ASSUME Inv, NEW c \in Clients, CommitLease(c)
  PROVE  \E s \in Shards : LeaseStep(s)
<1> DEFINE t == tx[c]
           s == tx[c].shard
<1>1. /\ t.op \in LeaseOps /\ t.pc = "commit" /\ UNCHANGED <<placement, head, log, checkpoint>>
      /\ leases' = [leases EXCEPT ![s] = IF t.op = "release" THEN None ELSE SavedLease(@, t.lease)]
      /\ gens' = [gens EXCEPT ![s] =
           IF t.op = "release" THEN ReleasedLast(leases[s], @) ELSE Larger(@, t.lease.epoch)]
  BY DEF CommitLease, At
<1>2. s \in Shards BY <1>1, Busy
<1>3. leases \in [Shards -> Lease \cup {None}] BY DEF Inv, Typed
<1>4. CASE t.op = "savelease"
  <2> DEFINE new == SavedLease(leases[s], t.lease)
  <2>1. /\ new \in Lease /\ new.epoch = t.lease.epoch /\ SavedLease(leases[s], new) = new
        /\ SaveLeaseOutcome(leases[s], gens[s], new) = "ok"
    BY <1>1, <1>4, SaveDecided
  <2>2. leases' = [leases EXCEPT ![s] = new] /\ gens' = [gens EXCEPT ![s] = Larger(@, t.lease.epoch)]
    BY <1>1, <1>4
  <2> HIDE DEF new
  <2>3. leases'[s] = new /\ new # None BY <1>2, <1>3, <2>1, <2>2, NoneAssumption
  <2>4. SaveLease(s, new) BY <1>1, <2>1, <2>2 DEF SaveLease
  <2> QED BY <1>2, <2>3, <2>4 DEF LeaseStep
<1>5. CASE t.op = "handoff"
  <2>1. /\ leases[s] # None /\ t.lease \in Lease
        /\ HandoffOutcome(leases[s], gens[s], leases[s].token, t.lease) = "ok"
        /\ SavedLease(leases[s], t.lease) = t.lease
    BY <1>1, <1>5, HandoffDecided
  <2>2. leases' = [leases EXCEPT ![s] = t.lease] /\ gens' = [gens EXCEPT ![s] = Larger(@, t.lease.epoch)]
    BY <1>1, <1>5, <2>1
  <2>3. leases'[s] = t.lease /\ t.lease # None BY <1>2, <1>3, <2>1, <2>2, NoneAssumption
  <2>4. HandoffLease(s, leases[s].token, t.lease) BY <1>1, <2>1, <2>2 DEF HandoffLease
  <2> QED BY <1>2, <2>1, <2>3, <2>4 DEF LeaseStep
<1>6. CASE t.op = "release"
  <2>1. ReleaseOK(leases[s], t.token) BY <1>1, <1>6, Outcomes DEF Inv, ClientInv, Decided
  <2>2. leases[s] # None /\ ReleaseOK(leases[s], leases[s].token) BY <2>1 DEF ReleaseOK
  <2>3. leases' = [leases EXCEPT ![s] = None] /\ gens' = [gens EXCEPT ![s] = ReleasedLast(leases[s], @)]
    BY <1>1, <1>6
  <2>4. ReleaseLease(s, leases[s].token) BY <1>1, <2>2, <2>3 DEF ReleaseLease
  <2> QED BY <1>2, <2>2, <2>4 DEF LeaseStep
<1> QED BY <1>1, <1>4, <1>5, <1>6 DEF LeaseOps

\* A fenced write's commit is one, too: the placement and the lease of its fence
\* are at its commit what it found when it locked them.
LEMMA CommitWriteRefines ==
  ASSUME Inv, NEW c \in Clients, CommitAppend(c) \/ CommitSave(c) \/ CommitTrim(c)
  PROVE  \E s \in Shards : FencedStep(s)
<1> DEFINE t == tx[c]
           s == tx[c].shard
<1>1. t.op \in WriteOps /\ t.pc = "commit" BY DEF CommitAppend, CommitSave, CommitTrim, At, WriteOps
<1>2. /\ s \in Shards /\ placement = s /\ leases[s] # None /\ FenceOf(leases[s]) = t.fence
      /\ t.offset \in Nat
  BY <1>1, WriteDecided
<1>3. Fenced(s, t.fence) BY <1>2 DEF Fenced
<1>4. CASE CommitAppend(c)
  <2>1. t.offset = head BY <1>1, <1>4, WriteDecided DEF CommitAppend, At
  <2>2. AppendUpdateAuthoritative(s, t.fence)
    BY <1>3, <1>4, <2>1 DEF CommitAppend, AppendUpdateAuthoritative, AppendRecord
  <2> QED BY <1>2, <2>2 DEF FencedStep
<1>5. CASE CommitSave(c)
  <2>1. /\ checkpoint' = [through |-> t.offset, epoch |-> t.fence.epoch]
        /\ UNCHANGED <<placement, gens, leases, head, log>>
    BY <1>5 DEF CommitSave
  <2>2. SaveSnapshotCheckpointAuthoritative(s, t.fence, checkpoint'.through)
    BY <1>3, <2>1 DEF SaveSnapshotCheckpointAuthoritative
  <2> QED BY <1>2, <2>2 DEF FencedStep
<1>6. CASE CommitTrim(c)
  <2>1. t.offset < head BY <1>1, <1>6, WriteDecided DEF CommitTrim, At
  <2>2. t.offset \in 0 .. head BY <1>2, <2>1 DEF Inv, Typed
  <2>3. TrimUpdatesAuthoritative(s, t.fence, t.offset)
    BY <1>3, <1>6 DEF CommitTrim, TrimUpdatesAuthoritative
  <2> QED BY <1>2, <2>2, <2>3 DEF FencedStep
<1> QED BY <1>4, <1>5, <1>6

\* The PostgreSQL store implements the atomic one: every transaction takes effect
\* at its commit, all of it, as the method of the store in memory would on the
\* tables of that instant.
THEOREM RefinesAtomicStore == PSpec => ImplementsAtomicStore
<1>1. PInit => Init BY DEF PInit
<1>2. Inv /\ [PNext]_vars => [Next]_svars
  <2> SUFFICES ASSUME Inv, [PNext]_vars PROVE Next \/ UNCHANGED svars OBVIOUS
  <2>1. ASSUME NEW s \in Shards, UpsertPlacement(s) PROVE Next
    BY <2>1 DEF UpsertPlacement, Next
  <2>2. CASE AppendUnfenced BY <2>2 DEF AppendUnfenced, Next
  <2> QED BY <2>1, <2>2, TableSteps, CommitLeaseRefines, CommitWriteRefines DEF Next
<1> QED BY <1>1, <1>2, Invariance, PTL DEF PSpec, ImplementsAtomicStore, Spec

\* A record that becomes visible has an offset no smaller than the head of the
\* log: a reader who has read up to the head misses nothing below it.
THEOREM OffsetsInOrder == PSpec => RecordsAppearInOrder
<1>1. Inv /\ [PNext]_vars => [\A r \in log' \ log : r.offset >= head]_vars
  <2> SUFFICES ASSUME Inv, [PNext]_vars PROVE \A r \in log' \ log : r.offset >= head OBVIOUS
  <2>1. head \in Nat BY DEF Inv, Typed
  <2>2. CASE UNCHANGED svars BY <2>2 DEF svars
  <2>3. ASSUME NEW c \in Clients, CommitLease(c) \/ CommitSave(c) PROVE log' = log
    BY <2>3 DEF CommitLease, CommitSave
  <2>4. ASSUME NEW c \in Clients, CommitTrim(c) PROVE log' \subseteq log BY <2>4 DEF CommitTrim
  <2>5. ASSUME NEW c \in Clients, CommitAppend(c), NEW r \in log' \ log PROVE r.offset = head
    <3>1. tx[c].offset = head BY <2>5, WriteDecided DEF CommitAppend, At, WriteOps
    <3> QED BY <2>5, <3>1 DEF CommitAppend
  <2>6. ASSUME AppendUnfenced, NEW r \in log' \ log PROVE r.offset = head
    BY <2>6 DEF AppendUnfenced, AppendUpdate, AppendRecord
  <2>7. ASSUME NEW s \in Shards, UpsertPlacement(s) PROVE log' = log
    BY <2>7 DEF UpsertPlacement, SavePlacement
  <2> QED BY <2>1, <2>2, <2>3, <2>4, <2>5, <2>6, <2>7, TableSteps
<1> QED BY <1>1, Invariance, PTL DEF PSpec, RecordsAppearInOrder
=============================================================================
