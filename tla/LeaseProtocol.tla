---------------------------- MODULE LeaseProtocol ----------------------------
(***************************************************************************)
(* Ownership of shards by leases: LeaseManagers (pkg/ycluster) acquire,    *)
(* adopt, renew, hand off and release leases through StorageLeaseStore,    *)
(* whose calls are a load, a decision and a save over the shared table of  *)
(* LeaseStore.  The store's own methods are atomic; everything between two *)
(* of them interleaves with every other manager, with time and with        *)
(* restarts.  Each node reads its own clock, which may run ahead.          *)
(***************************************************************************)
EXTENDS LeaseStore, FiniteSets

CONSTANTS
  Shards,       \* shards of the cluster
  Managers,     \* LeaseManager instances
  HolderOf,     \* HolderOf[m]: the node a manager acts for
  ShardOf,      \* ShardOf[m]: the shard it coordinates
  ConfigToken,  \* ConfigToken[m]: LeaseManagerConfig.Token, or NoToken
  NoToken,      \* the empty token
  Skew,         \* Skew[n]: how far the clock of node n runs ahead
  TTL,          \* LeaseManagerConfig.TTL
  RenewWithin,  \* LeaseManagerRunConfig.RenewWithin
  MaxClock,     \* bound on time
  MaxEpoch      \* bound on the generations of one shard

ASSUME ManagerAssumption ==
  /\ HolderOf \in [Managers -> Nodes]
  /\ ShardOf \in [Managers -> Shards]
  /\ ConfigToken \in [Managers -> ConfigTokens \cup {NoToken}]
ASSUME TimeAssumption ==
  /\ Skew \in [Nodes -> Nat]
  /\ TTL \in Nat \ {0}
  /\ RenewWithin \in Nat
  /\ MaxClock \in Nat
  /\ MaxEpoch \in Nat

VARIABLES
  clock,      \* real time
  leases,     \* Store.leases
  leaseLast,  \* Store.leaseLast
  current,    \* LeaseManager.current, the cached lease
  mtoken,     \* LeaseManager.token
  call,       \* the call a manager is inside of, and its local variables
  granted     \* history: every generation ever stored, per shard

store == <<leases, leaseLast, granted>>
vars == <<clock, leases, leaseLast, current, mtoken, call, granted>>

Steps == {"idle", "adoptLoad", "adoptCheck", "acquireLoad", "acquireSave",
          "acquireRetry", "renewLoad", "renewCheck", "renewSave",
          "handoffNow", "handoffSave"}

Record == Lease \cup {None}

\* obs: the record the call loaded; now: the instant it read; epoch: the epoch
\* its pending save asks for.
Call == [at : Steps, obs : Record, now : Nat, epoch : Nat \ {0}]

Idle == [at |-> "idle", obs |-> None, now |-> 0, epoch |-> 1]

TypeOK ==
  /\ clock \in Nat
  /\ leases \in [Shards -> Record]
  /\ leaseLast \in [Shards -> Nat]
  /\ current \in [Managers -> Record]
  /\ mtoken \in [Managers -> Tokens \cup {NoToken}]
  /\ call \in [Managers -> Call]
  /\ granted \in [Shards -> SUBSET Fence]

Init ==
  /\ clock = 0
  /\ leases = [s \in Shards |-> None]
  /\ leaseLast = [s \in Shards |-> 0]
  /\ current = [m \in Managers |-> None]
  /\ mtoken = ConfigToken
  /\ call = [m \in Managers |-> Idle]
  /\ granted = [s \in Shards |-> {}]

-----------------------------------------------------------------------------
(* What a manager reads and writes.                                        *)

Now(m) == clock + Skew[HolderOf[m]]

Loaded(m) == leases[ShardOf[m]]

At(m, step) == call[m].at = step

\* The call goes on at `step` with these local variables.
Enter(m, step, rec, now, epoch) ==
  call' = [call EXCEPT ![m] = [at |-> step, obs |-> rec, now |-> now, epoch |-> epoch]]

Goto(m, step) == Enter(m, step, None, 0, 1)

Observe(m, step) == Enter(m, step, Loaded(m), 0, 1)

Return(m) == call' = [call EXCEPT ![m] = Idle]

Cache(m, rec) == current' = [current EXCEPT ![m] = rec]

\* The caller's token, or the default minted from the holder and the instant.
RequestToken(m) ==
  IF mtoken[m] # NoToken THEN mtoken[m] ELSE <<HolderOf[m], call[m].now>>

\* The record an acquire or a handoff asks the store to hold.
NewLease(m) ==
  [node |-> HolderOf[m], epoch |-> call[m].epoch, token |-> RequestToken(m),
   acquiredAt |-> call[m].now, expiresAt |-> call[m].now + TTL]

\* A save the store accepted: the table, the epoch counter and the history.
Put(s, rec) ==
  /\ leases' = [leases EXCEPT ![s] = SavedLease(leases[s], rec)]
  /\ leaseLast' = [leaseLast EXCEPT ![s] = Larger(@, rec.epoch)]
  /\ granted' = [granted EXCEPT ![s] = @ \cup {FenceOf(rec)}]

SaveOutcome(m, rec) ==
  SaveLeaseOutcome(Loaded(m), leaseLast[ShardOf[m]], rec)

-----------------------------------------------------------------------------
(* LeaseManager.Ensure.  A lease that is active and outside the renewal    *)
(* window is returned as it is: a stuttering step.                         *)

\* No cached lease, or an expired one, which is dropped: (re)acquire.
EnsureAcquire(m) ==
  /\ At(m, "idle")
  /\ ~HeldAt(current[m], Now(m))
  /\ Cache(m, None)
  /\ Goto(m, "adoptLoad")
  /\ UNCHANGED <<clock, store, mtoken>>

\* An active lease that expires within the window: renew.
EnsureRenew(m) ==
  /\ At(m, "idle")
  /\ HeldAt(current[m], Now(m))
  /\ RenewWithin > 0
  /\ current[m].expiresAt - Now(m) <= RenewWithin
  /\ Goto(m, "renewLoad")
  /\ UNCHANGED <<clock, store, current, mtoken>>

\* tryAdoptActiveLease loads the persisted record.
AdoptLoad(m) ==
  /\ At(m, "adoptLoad")
  /\ Observe(m, "adoptCheck")
  /\ UNCHANGED <<clock, store, current, mtoken>>

Adoptable(m) ==
  /\ call[m].obs.node = HolderOf[m]
  /\ mtoken[m] # NoToken => call[m].obs.token = mtoken[m]

\* Nothing active was loaded: AcquireLease starts by reading the clock.
\* Otherwise the lease is adopted if it is this holder's (and token's), and
\* the call fails with ErrLeaseHeld or ErrLeaseTokenMismatch if it is not.
AdoptCheck(m) ==
  /\ At(m, "adoptCheck")
  /\ \/ /\ ~HeldAt(call[m].obs, Now(m))
        /\ Enter(m, "acquireLoad", None, Now(m), 1)
        /\ UNCHANGED current
     \/ /\ HeldAt(call[m].obs, Now(m))
        /\ IF Adoptable(m) THEN Cache(m, call[m].obs) ELSE UNCHANGED current
        /\ Return(m)
  /\ UNCHANGED <<clock, store, mtoken>>

\* AcquireLease up to its save: give up on an active lease, else ask for the
\* epoch after the loaded record's (1 when there is none).
AcquireLoad(m) ==
  /\ At(m, "acquireLoad")
  /\ \/ /\ HeldAt(Loaded(m), call[m].now)
        /\ Return(m)
     \/ /\ ~HeldAt(Loaded(m), call[m].now)
        /\ Enter(m, "acquireSave", None, call[m].now,
                 IF Loaded(m) = None THEN 1 ELSE Loaded(m).epoch + 1)
  /\ UNCHANGED <<clock, store, current, mtoken>>

\* The save succeeded; LeaseManager caches the lease.
AcquireOK(m) ==
  /\ call[m].epoch <= MaxEpoch
  /\ SaveOutcome(m, NewLease(m)) = "ok"
  /\ Put(ShardOf[m], NewLease(m))
  /\ Cache(m, SavedLease(Loaded(m), NewLease(m)))
  /\ Return(m)
  /\ UNCHANGED <<clock, mtoken>>

\* The epoch LeaseStaleEpochError reports for the pending save.
Reported(m) == StaleCurrent(Loaded(m), leaseLast[ShardOf[m]], NewLease(m))

\* A stale epoch is retried once with the epoch after the reported one.
AcquireStale(m) ==
  /\ SaveOutcome(m, NewLease(m)) = "stale"
  /\ Reported(m) >= call[m].epoch
  /\ Enter(m, "acquireRetry", None, call[m].now, Reported(m) + 1)
  /\ UNCHANGED <<clock, store, current, mtoken>>

\* Any other refusal ends the call: ErrLeaseHeld, or the store's own error.
AcquireFailed(m) ==
  /\ SaveOutcome(m, NewLease(m)) # "ok"
  /\ SaveOutcome(m, NewLease(m)) = "stale" => Reported(m) < call[m].epoch
  /\ Return(m)
  /\ UNCHANGED <<clock, store, current, mtoken>>

AcquireSave(m) ==
  /\ At(m, "acquireSave")
  /\ AcquireOK(m) \/ AcquireStale(m) \/ AcquireFailed(m)

RetryFailed(m) ==
  /\ SaveOutcome(m, NewLease(m)) # "ok"
  /\ Return(m)
  /\ UNCHANGED <<clock, store, current, mtoken>>

AcquireRetry(m) ==
  /\ At(m, "acquireRetry")
  /\ AcquireOK(m) \/ RetryFailed(m)

-----------------------------------------------------------------------------
(* RenewLease as Ensure calls it, with the cached token.                   *)

\* A missing lease drops the cache and re-acquires (ErrOwnerNotFound); a lease
\* of another holder fails the call and keeps the cache.
RenewLoad(m) ==
  /\ At(m, "renewLoad")
  /\ \/ /\ Loaded(m) = None
        /\ Cache(m, None)
        /\ Goto(m, "adoptLoad")
     \/ /\ Loaded(m) # None
        /\ IF Loaded(m).node = HolderOf[m] THEN Observe(m, "renewCheck") ELSE Return(m)
        /\ UNCHANGED current
  /\ UNCHANGED <<clock, store, mtoken>>

\* An expired lease re-acquires, another token drops the cache and fails.
RenewCheck(m) ==
  /\ At(m, "renewCheck")
  /\ \/ /\ ~ActiveAt(call[m].obs, Now(m))
        /\ Cache(m, None)
        /\ Goto(m, "adoptLoad")
     \/ /\ ActiveAt(call[m].obs, Now(m)) /\ call[m].obs.token # current[m].token
        /\ Cache(m, None)
        /\ Return(m)
     \/ /\ ActiveAt(call[m].obs, Now(m)) /\ call[m].obs.token = current[m].token
        /\ Enter(m, "renewSave", call[m].obs, Now(m), 1)
        /\ UNCHANGED current
  /\ UNCHANGED <<clock, store, mtoken>>

\* The loaded generation, prolonged from the instant read in RenewCheck.
RenewedLease(m) == [call[m].obs EXCEPT !.expiresAt = call[m].now + TTL]

\* The save is accepted: the cache follows, unless the reply is lost on its
\* way (the commit happened, the call reports an error, the cache stays).
\* A refused save is the default branch of Ensure, which keeps the cache.
RenewSave(m) ==
  /\ At(m, "renewSave")
  /\ \/ /\ SaveOutcome(m, RenewedLease(m)) = "ok"
        /\ Put(ShardOf[m], RenewedLease(m))
        /\ Cache(m, SavedLease(Loaded(m), RenewedLease(m))) \/ UNCHANGED current
     \/ /\ SaveOutcome(m, RenewedLease(m)) # "ok"
        /\ UNCHANGED <<store, current>>
  /\ Return(m)
  /\ UNCHANGED <<clock, mtoken>>

-----------------------------------------------------------------------------
(* LeaseManager.Release, and HandoffDocument run by the coordinator of the *)
(* next holder, whose new manager caches the lease it was given.           *)

\* A refused release (the token is no longer the stored one) changes nothing.
Release(m) ==
  /\ At(m, "idle") /\ current[m] # None
  /\ ReleaseOK(Loaded(m), current[m].token)
  /\ leases' = [leases EXCEPT ![ShardOf[m]] = None]
  /\ leaseLast' = [leaseLast EXCEPT ![ShardOf[m]] = ReleasedLast(Loaded(m), @)]
  /\ Cache(m, None)
  /\ UNCHANGED <<clock, mtoken, call, granted>>

\* LookupOwner found another holder's active lease.
HandoffLookup(m) ==
  /\ At(m, "idle") /\ current[m] = None
  /\ HeldAt(Loaded(m), Now(m))
  /\ Loaded(m).node # HolderOf[m]
  /\ Observe(m, "handoffNow")
  /\ UNCHANGED <<clock, store, current, mtoken>>

\* StorageLeaseStore.HandoffLease reads the clock, refuses a lease that
\* expired meanwhile, and asks for the epoch after the observed one.
HandoffNow(m) ==
  /\ At(m, "handoffNow")
  /\ \/ /\ ~ActiveAt(call[m].obs, Now(m))
        /\ Return(m)
     \/ /\ ActiveAt(call[m].obs, Now(m))
        /\ Enter(m, "handoffSave", call[m].obs, Now(m), call[m].obs.epoch + 1)
  /\ UNCHANGED <<clock, store, current, mtoken>>

HandoffResult(m) ==
  HandoffOutcome(Loaded(m), leaseLast[ShardOf[m]], call[m].obs.token, NewLease(m))

HandoffSave(m) ==
  /\ At(m, "handoffSave")
  /\ \/ /\ HandoffResult(m) = "ok"
        /\ call[m].epoch <= MaxEpoch
        /\ leases' = [leases EXCEPT ![ShardOf[m]] = NewLease(m)]
        /\ leaseLast' = [leaseLast EXCEPT ![ShardOf[m]] = call[m].epoch]
        /\ granted' = [granted EXCEPT ![ShardOf[m]] = @ \cup {FenceOf(NewLease(m))}]
        /\ Cache(m, NewLease(m))
        /\ mtoken' = [mtoken EXCEPT ![m] = RequestToken(m)]
     \/ /\ HandoffResult(m) # "ok"
        /\ UNCHANGED <<store, current, mtoken>>
  /\ Return(m)
  /\ UNCHANGED clock

\* The node restarts, or the manager is dropped and a later claim builds a new
\* one: the cache and whatever call was under way are gone, the store is not.
Restart(m) ==
  /\ Cache(m, None)
  /\ mtoken' = [mtoken EXCEPT ![m] = ConfigToken[m]]
  /\ Return(m)
  /\ UNCHANGED <<clock, store>>

Tick ==
  /\ clock < MaxClock
  /\ clock' = clock + 1
  /\ UNCHANGED <<store, current, mtoken, call>>

-----------------------------------------------------------------------------
ManagerStep(m) ==
  \/ EnsureAcquire(m) \/ EnsureRenew(m)
  \/ AdoptLoad(m) \/ AdoptCheck(m)
  \/ AcquireLoad(m) \/ AcquireSave(m) \/ AcquireRetry(m)
  \/ RenewLoad(m) \/ RenewCheck(m) \/ RenewSave(m)

HandoffStep(m) == HandoffLookup(m) \/ HandoffNow(m) \/ HandoffSave(m)

Next ==
  \/ Tick
  \/ \E m \in Managers : ManagerStep(m) \/ HandoffStep(m) \/ Release(m) \/ Restart(m)

Spec == Init /\ [][Next]_vars

\* A deployment that never calls HandoffDocument.
NextNoHandoff ==
  \/ Tick
  \/ \E m \in Managers : ManagerStep(m) \/ Release(m) \/ Restart(m)

SpecNoHandoff == Init /\ [][NextNoHandoff]_vars

-----------------------------------------------------------------------------
(* Properties.                                                             *)

\* A stored lease is always of the newest generation ever granted for its
\* shard: whatever load-then-save races the adapters run, no renewal, retry
\* or handoff puts an older epoch back into the table.
StoredIsNewest ==
  \A s \in Shards : leases[s] # None => leases[s].epoch = leaseLast[s]

\* An epoch names one generation: two grants of the same epoch of a shard went
\* to the same holder with the same token, so a fence cannot be matched by a
\* later owner (releases and expiries included).
GenerationUnique ==
  \A s \in Shards : \A f, g \in granted[s] : f.epoch = g.epoch => f = g

\* Epochs are handed out without gaps: a retry after a stale epoch asks for
\* the next one, never for one further on.
EpochsContiguous ==
  \A s \in Shards : {f.epoch : f \in granted[s]} = 1 .. leaseLast[s]

\* A manager believes it owns its shard while its cached lease is active on
\* its own clock.
Believes(m) == HeldAt(current[m], Now(m))

\* Two holders never both believe they own a shard.  This needs what the runs
\* that check it provide: equal clocks, one manager per node and shard, and no
\* handoff; without them only the fence keeps writers apart.
BeliefExclusive ==
  \A m, n \in Managers :
    /\ ShardOf[m] = ShardOf[n] /\ HolderOf[m] # HolderOf[n]
    /\ Believes(m)
    => ~Believes(n)

\* What a cached, still active lease is worth: unless a handoff or a release
\* removed it, the store holds that very generation, at least as long.
BeliefBacked ==
  \A m \in Managers :
    Believes(m) => /\ Loaded(m) # None
                   /\ SameLease(Loaded(m), current[m])
                   /\ Loaded(m).expiresAt >= current[m].expiresAt

\* The lease table implements the abstract authority: grants in epoch order,
\* revocations, and nothing else; a renewal changes no authority.
Owner == [s \in Shards |-> IF leases[s] = None THEN None ELSE FenceOf(leases[s])]

Authority == INSTANCE LeaseAuthority WITH gen <- leaseLast, owner <- Owner

ImplementsAuthority == Authority!Spec
=============================================================================
