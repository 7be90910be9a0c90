----------------------------- MODULE AtomicStore -----------------------------
(***************************************************************************)
(* What a distributed store promises (storage.DistributedStore and its     *)
(* authoritative extensions): every method takes effect at one instant, on *)
(* the tables as they are then.  This is how the in-memory Store works     *)
(* (each method holds Store.mu); PostgresStore is shown to implement it.   *)
(* One document, whose placement names one of several shards.              *)
(***************************************************************************)
EXTENDS LeaseStore

CONSTANT Shards

VARIABLES
  placement,   \* the shard the document is placed on, or None
  gens,        \* last epoch granted, per shard
  leases,      \* lease record or None, per shard
  head,        \* next log offset
  log,         \* records of the update log
  checkpoint   \* the snapshot row: its high-water mark and epoch

svars == <<placement, gens, leases, head, log, checkpoint>>

\* storage.UpdateLogRecord: an update is named by its offset; the shard it was
\* written under is kept to compare epochs, which shards number separately.
Record == [offset : Nat \ {0}, epoch : Nat, shard : Shards \cup {None}]

\* storage.SnapshotRecord: the offset it covers and the epoch it was saved under.
Checkpoint == [through : Nat, epoch : Nat]

Empty == [through |-> 0, epoch |-> 0]

Init ==
  /\ placement = None
  /\ gens = [s \in Shards |-> 0]
  /\ leases = [s \in Shards |-> None]
  /\ head = 1
  /\ log = {}
  /\ checkpoint = Empty

-----------------------------------------------------------------------------
(* Placement and leases.                                                   *)

SavePlacement(s) ==
  /\ placement' = s
  /\ UNCHANGED <<gens, leases, head, log, checkpoint>>

SaveLease(s, rec) ==
  /\ SaveLeaseOutcome(leases[s], gens[s], rec) = "ok"
  /\ leases' = [leases EXCEPT ![s] = SavedLease(leases[s], rec)]
  /\ gens' = [gens EXCEPT ![s] = Larger(@, rec.epoch)]
  /\ UNCHANGED <<placement, head, log, checkpoint>>

HandoffLease(s, token, rec) ==
  /\ HandoffOutcome(leases[s], gens[s], token, rec) = "ok"
  /\ leases' = [leases EXCEPT ![s] = rec]
  /\ gens' = [gens EXCEPT ![s] = Larger(@, rec.epoch)]
  /\ UNCHANGED <<placement, head, log, checkpoint>>

ReleaseLease(s, token) ==
  /\ ReleaseOK(leases[s], token)
  /\ gens' = [gens EXCEPT ![s] = ReleasedLast(leases[s], @)]
  /\ leases' = [leases EXCEPT ![s] = None]
  /\ UNCHANGED <<placement, head, log, checkpoint>>

-----------------------------------------------------------------------------
(* Writes to the document.  A fenced write needs the placement and the     *)
(* lease of its fence at the instant it takes effect; an unfenced one      *)
(* (shard None) needs nothing and carries epoch 0.                         *)

\* The lease of the fence is stored.  Whether it has expired is decided with
\* the instant the caller read, which no table remembers.
Fenced(s, fence) ==
  /\ placement = s
  /\ leases[s] # None
  /\ FenceOf(leases[s]) = fence

AppendRecord(s, epoch) ==
  /\ log' = log \cup {[offset |-> head, epoch |-> epoch, shard |-> s]}
  /\ head' = head + 1
  /\ UNCHANGED <<placement, gens, leases, checkpoint>>

AppendUpdate == AppendRecord(None, 0)

AppendUpdateAuthoritative(s, fence) ==
  /\ Fenced(s, fence)
  /\ AppendRecord(s, fence.epoch)

SaveSnapshotCheckpointAuthoritative(s, fence, through) ==
  /\ Fenced(s, fence)
  /\ checkpoint' = [through |-> through, epoch |-> fence.epoch]
  /\ UNCHANGED <<placement, gens, leases, head, log>>

TrimUpdatesAuthoritative(s, fence, through) ==
  /\ Fenced(s, fence)
  /\ log' = {r \in log : r.offset > through}
  /\ UNCHANGED <<placement, gens, leases, head, checkpoint>>

-----------------------------------------------------------------------------
\* Each step is one method; what a call was given is read off what it stored.
LeaseStep(s) ==
  \/ leases'[s] # None /\ SaveLease(s, leases'[s])
  \/ leases[s] # None /\ leases'[s] # None
       /\ HandoffLease(s, leases[s].token, leases'[s])
  \/ leases[s] # None /\ ReleaseLease(s, leases[s].token)

FencedStep(s) ==
  /\ leases[s] # None
  /\ LET fence == FenceOf(leases[s])
     IN \/ AppendUpdateAuthoritative(s, fence)
        \/ SaveSnapshotCheckpointAuthoritative(s, fence, checkpoint'.through)
        \/ \E through \in 0 .. head :
             TrimUpdatesAuthoritative(s, fence, through)

Next ==
  \/ AppendUpdate
  \/ \E s \in Shards : SavePlacement(s) \/ LeaseStep(s) \/ FencedStep(s)

Spec == Init /\ [][Next]_svars
=============================================================================
