----------------------------- MODULE LeaseStore -----------------------------
(***************************************************************************)
(* The lease table of the storage contract (storage.LeaseStore and         *)
(* storage.LeaseHandoffStore) as the in-memory Store implements it: one    *)
(* lease record and one last-epoch counter per shard.  Every method runs   *)
(* under Store.mu, so each is one atomic decision over the current record  *)
(* `cur`, the counter `last` and its arguments; the operators below are    *)
(* those decisions.  Modules that keep the table as variables apply them.  *)
(***************************************************************************)
EXTENDS Integers

CONSTANTS
  Nodes,         \* node ids that may own a shard
  ConfigTokens,  \* fencing tokens a caller chose itself
  None           \* the missing lease record (storage.ErrLeaseNotFound)

\* Opaque fencing tokens: the adapter's default "holder-shard-nanos" is the
\* pair of holder and instant (the shard is the table's index), so two leases
\* taken by one holder at one instant do share a token.
Tokens == (Nodes \X Nat) \cup ConfigTokens

\* storage.LeaseRecord; the shard is the index of the table the record is in.
Lease == [node : Nodes, epoch : Nat \ {0}, token : Tokens,
          acquiredAt : Nat, expiresAt : Nat]

\* storage.AuthorityFence: what a writer presents; it names a generation.
Fence == [node : Nodes, epoch : Nat \ {0}, token : Tokens]

ASSUME NoneAssumption == None \notin Lease /\ None \notin Fence

Larger(a, b) == IF a >= b THEN a ELSE b

\* sameLeaseRecord: same owner (node and epoch) and same token.
SameLease(cur, rec) ==
  /\ cur.node = rec.node
  /\ cur.epoch = rec.epoch
  /\ cur.token = rec.token

\* Lease.ActiveAt / !Lease.ExpiredAt: an instant strictly before expiresAt.
ActiveAt(lease, now) == now < lease.expiresAt

\* There is a lease, and it is active.
HeldAt(rec, now) == rec # None /\ ActiveAt(rec, now)

-----------------------------------------------------------------------------
(* SaveLease: acquire, take over, or renew.                                *)

\* The record that is stored: a renewal keeps the start of its generation.
SavedLease(cur, rec) ==
  IF cur # None /\ SameLease(cur, rec)
    THEN [rec EXCEPT !.acquiredAt = cur.acquiredAt]
    ELSE rec

\* Fault: a shard without a record is taken for one that was never leased.
SaveForgetsReleased(cur, last, rec) ==
  /\ cur # None /\ ~SameLease(cur, rec)
  /\ \/ rec.epoch <= cur.epoch
     \/ ~ActiveAt(cur, rec.acquiredAt) /\ rec.epoch <= last

\* The time SaveLease compares with is the caller's AcquiredAt, never the
\* store's own clock.
SaveIsStale(cur, last, rec) ==
  \/ cur = None /\ rec.epoch <= last
  \/ /\ cur # None /\ ~SameLease(cur, rec)
     /\ \/ rec.epoch <= cur.epoch
        \/ ~ActiveAt(cur, rec.acquiredAt) /\ rec.epoch <= last

\* Fault: a higher epoch replaces a lease that is still active.
HigherEpochWins(cur, rec) == FALSE

SaveConflicts(cur, rec) ==
  /\ cur # None /\ ~SameLease(cur, rec)
  /\ ActiveAt(cur, rec.acquiredAt)
  /\ rec.epoch > cur.epoch

\* The decision of SaveLease, in the order of its switch.
SaveLeaseOutcome(cur, last, rec) ==
  IF SaveIsStale(cur, last, rec) THEN "stale"
  ELSE IF SaveConflicts(cur, rec) THEN "conflict"
  ELSE IF SavedLease(cur, rec).expiresAt <= SavedLease(cur, rec).acquiredAt
    THEN "invalid" ELSE "ok"

\* LeaseStaleEpochError.Current, the epoch a stale caller is told about.
StaleCurrent(cur, last, rec) ==
  IF cur = None THEN last
  ELSE IF ActiveAt(cur, rec.acquiredAt) THEN cur.epoch
  ELSE Larger(cur.epoch, last)

-----------------------------------------------------------------------------
(* HandoffLease: replace an active lease, named by its token, by the next  *)
(* generation.                                                             *)

\* Fault: the token alone names the lease that is handed off.
HandoffByToken(cur, last, curToken, rec) ==
  IF cur = None THEN "notfound"
  ELSE IF cur.token # curToken \/ ~ActiveAt(cur, rec.acquiredAt)
    THEN "conflict" ELSE "ok"

HandoffOutcome(cur, last, curToken, rec) ==
  IF cur = None THEN "notfound"
  ELSE IF cur.token # curToken \/ ~ActiveAt(cur, rec.acquiredAt)
    THEN "conflict"
  ELSE IF rec.epoch # cur.epoch + 1 \/ rec.epoch <= last
    THEN "stale" ELSE "ok"

-----------------------------------------------------------------------------
(* ReleaseLease: by token alone; the last epoch outlives the lease.        *)

\* Fault: a release does not look at the token.
ReleaseAny(cur, token) == cur # None

ReleaseOK(cur, token) == cur # None /\ cur.token = token

\* Fault: the counter is deleted with the record.
ReleasedForgotten(cur, last) == 0

ReleasedLast(cur, last) == Larger(last, cur.epoch)

-----------------------------------------------------------------------------
(* validateAuthorityLocked, its lease half: the fence must name the stored *)
(* owner, epoch and token, and the lease must be active at `now`.          *)

FenceOf(lease) == [node |-> lease.node, epoch |-> lease.epoch, token |-> lease.token]

FenceValid(cur, fence, now) ==
  /\ HeldAt(cur, now)
  /\ FenceOf(cur) = fence
=============================================================================
