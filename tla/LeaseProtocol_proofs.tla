------------------------ MODULE LeaseProtocol_proofs ------------------------
(***************************************************************************)
(* Proofs about LeaseProtocol for any set of nodes, shards and managers,   *)
(* any clock skew, TTL and renewal window.                                 *)
(*                                                                         *)
(* StoredIsNewest and GenerationUnique are not inductive by themselves: a  *)
(* pending save carries an epoch and a record loaded earlier.  Inv adds    *)
(* what is known about those: the record was granted once, and the epoch   *)
(* is at most one ahead of the counter.                                    *)
(*                                                                         *)
(* The second half is about when a manager may trust its cached lease:     *)
(* without handoffs, if the nodes' clocks agree, each node has one manager *)
(* per shard and configured tokens are not shared.  The invariant adds how *)
(* old every record in use is, whose token it has, and that the store      *)
(* backs the record an adoption is about to cache as it backs the cached   *)
(* one.                                                                    *)
(***************************************************************************)
EXTENDS LeaseProtocol, TLAPS

\* The stored generation is in the history.
StoredGranted ==
  \A s \in Shards : leases[s] # None => FenceOf(leases[s]) \in granted[s]

\* The history holds nothing beyond the counter.
GrantedBelow ==
  \A s \in Shards : \A f \in granted[s] : f.epoch <= leaseLast[s]

\* ... and every epoch up to it.
GrantedAll ==
  \A s \in Shards : \A e \in 1 .. leaseLast[s] : \E f \in granted[s] : f.epoch = e

\* A pending call loaded a granted generation and asks for at most the next.
CallBacked(m) ==
  /\ call[m].obs # None => FenceOf(call[m].obs) \in granted[ShardOf[m]]
  /\ call[m].epoch <= leaseLast[ShardOf[m]] + 1
  /\ call[m].at \in {"renewCheck", "renewSave", "handoffNow", "handoffSave"}
       => call[m].obs # None

CallsBacked == \A m \in Managers : CallBacked(m)

StoreInv == StoredIsNewest /\ StoredGranted /\ GrantedBelow /\ GrantedAll /\ GenerationUnique

Inv == TypeOK /\ StoreInv /\ CallsBacked

-----------------------------------------------------------------------------
(* The four things a step can do to the table of a shard.                  *)

Keep == UNCHANGED store

Renewal(s) ==
  /\ leases[s] # None
  /\ \E rec \in Lease : /\ SameLease(leases[s], rec)
                        /\ leases' = [leases EXCEPT ![s] = rec]
  /\ leaseLast' = leaseLast
  /\ granted' = granted

Granting(s) ==
  \E rec \in Lease :
    /\ rec.epoch = leaseLast[s] + 1
    /\ leases' = [leases EXCEPT ![s] = rec]
    /\ leaseLast' = [leaseLast EXCEPT ![s] = rec.epoch]
    /\ granted' = [granted EXCEPT ![s] = @ \cup {FenceOf(rec)}]

Revoking(s) ==
  /\ leases[s] # None
  /\ leases' = [leases EXCEPT ![s] = None]
  /\ leaseLast' = leaseLast
  /\ granted' = granted

StoreStep == Keep \/ \E s \in Shards : Renewal(s) \/ Granting(s) \/ Revoking(s)

-----------------------------------------------------------------------------
(* Facts about the operators.                                              *)

\* A request carries a token.
LEMMA RequestTokenType ==
  ASSUME TypeOK, NEW m \in Managers
  PROVE  RequestToken(m) \in Tokens
BY ManagerAssumption DEF TypeOK, RequestToken, Tokens, Call

\* A lease a manager asks for is a lease.
LEMMA NewLeaseType ==
  ASSUME TypeOK, NEW m \in Managers
  PROVE  NewLease(m) \in Lease
<1>1. RequestToken(m) \in Tokens
  BY RequestTokenType
<1>2. call[m].now \in Nat /\ call[m].epoch \in Nat \ {0}
  BY DEF TypeOK, Call
<1>3. call[m].now + TTL \in Nat
  BY <1>2, TimeAssumption
<1> QED BY <1>1, <1>2, <1>3, ManagerAssumption DEF NewLease, Lease

\* An accepted SaveLease of an epoch at most one ahead of the counter either
\* renews the stored generation or starts the next one.
LEMMA SaveAccepted ==
  ASSUME NEW cur \in Record, NEW last \in Nat, NEW rec \in Lease,
         cur # None => cur.epoch = last,
         rec.epoch <= last + 1,
         SaveLeaseOutcome(cur, last, rec) = "ok"
  PROVE  \/ cur # None /\ SameLease(cur, rec) /\ rec.epoch = last
         \/ ~(cur # None /\ SameLease(cur, rec)) /\ rec.epoch = last + 1
<1>1. ~SaveIsStale(cur, last, rec) /\ ~SaveConflicts(cur, rec)
  BY DEF SaveLeaseOutcome
<1>2. rec.epoch \in Nat
  BY DEF Lease
<1>3. CASE cur = None
  BY <1>1, <1>2, <1>3 DEF SaveIsStale
<1>4. CASE cur # None /\ SameLease(cur, rec)
  BY <1>4 DEF SameLease
<1>5. CASE cur # None /\ ~SameLease(cur, rec)
  BY <1>1, <1>2, <1>5 DEF SaveIsStale, SaveConflicts
<1> QED BY <1>3, <1>4, <1>5

\* Put, when the save was accepted, is one of the store's steps.
LEMMA PutStep ==
  ASSUME Inv, NEW s \in Shards, NEW rec \in Lease,
         rec.epoch <= leaseLast[s] + 1,
         SaveLeaseOutcome(leases[s], leaseLast[s], rec) = "ok",
         Put(s, rec)
  PROVE  Renewal(s) \/ Granting(s)
<1>1. leases[s] \in Record /\ leaseLast[s] \in Nat /\ granted \in [Shards -> SUBSET Fence]
      /\ leases \in [Shards -> Record] /\ leaseLast \in [Shards -> Nat]
  BY DEF Inv, TypeOK
<1>2. leases[s] # None => leases[s].epoch = leaseLast[s] /\ FenceOf(leases[s]) \in granted[s]
  BY DEF Inv, StoreInv, StoredIsNewest, StoredGranted
<1>3. CASE leases[s] # None /\ SameLease(leases[s], rec) /\ rec.epoch = leaseLast[s]
  <2>1. leases[s] \in Lease
    BY <1>1, <1>3 DEF Record
  <2>2. SavedLease(leases[s], rec) \in Lease /\ SameLease(leases[s], SavedLease(leases[s], rec))
    BY <1>3, <2>1 DEF SavedLease, SameLease, Lease
  <2>3. FenceOf(rec) = FenceOf(leases[s])
    BY <1>3 DEF FenceOf, SameLease
  <2>4. granted' = granted
    BY <1>1, <1>2, <1>3, <2>3 DEF Put
  <2>5. leaseLast' = leaseLast
    BY <1>1, <1>3 DEF Put, Larger
  <2> QED BY <1>3, <2>2, <2>4, <2>5 DEF Put, Renewal
<1>4. CASE ~(leases[s] # None /\ SameLease(leases[s], rec)) /\ rec.epoch = leaseLast[s] + 1
  <2>1. SavedLease(leases[s], rec) = rec
    BY <1>4 DEF SavedLease
  <2>2. Larger(leaseLast[s], rec.epoch) = rec.epoch
    BY <1>1, <1>4 DEF Larger
  <2> QED BY <1>4, <2>1, <2>2 DEF Put, Granting
<1> QED BY <1>1, <1>2, <1>3, <1>4, SaveAccepted

-----------------------------------------------------------------------------
(* Every action is one of the store's steps.                               *)

\* A renewal asks for a lease: the loaded generation with a later expiry.
LEMMA RenewedLeaseType ==
  ASSUME Inv, NEW m \in Managers, call[m].at = "renewSave"
  PROVE  /\ RenewedLease(m) \in Lease
         /\ RenewedLease(m).epoch <= leaseLast[ShardOf[m]]
<1>1. call[m] \in Call /\ call[m].obs \in Lease /\ FenceOf(call[m].obs) \in granted[ShardOf[m]]
  BY DEF Inv, TypeOK, CallsBacked, CallBacked, Call, Record
<1>2. call[m].now + TTL \in Nat
  BY <1>1, TimeAssumption DEF Call
<1>3. call[m].obs.epoch <= leaseLast[ShardOf[m]]
  BY <1>1, ManagerAssumption DEF Inv, StoreInv, GrantedBelow, FenceOf
<1> QED BY <1>1, <1>2, <1>3 DEF RenewedLease, Lease

\* Whatever a manager does, it writes the table by an accepted save, an
\* accepted handoff or a release, or not at all.
LEMMA ActionsAreStoreSteps ==
  ASSUME Inv, [Next]_vars
  PROVE  StoreStep
<1>1. CASE UNCHANGED vars
  BY <1>1 DEF vars, store, StoreStep, Keep
<1>2. CASE Tick
  BY <1>2 DEF Tick, StoreStep, Keep
<1>3. ASSUME NEW m \in Managers, AcquireOK(m)
      PROVE  StoreStep
  <2>1. NewLease(m) \in Lease /\ ShardOf[m] \in Shards
    BY NewLeaseType, ManagerAssumption DEF Inv
  <2>2. NewLease(m).epoch <= leaseLast[ShardOf[m]] + 1
    BY DEF Inv, CallsBacked, CallBacked, NewLease
  <2>3. Renewal(ShardOf[m]) \/ Granting(ShardOf[m])
    BY <1>3, <2>1, <2>2, PutStep DEF AcquireOK, SaveOutcome, Loaded
  <2> QED BY <2>1, <2>3 DEF StoreStep
<1>4. ASSUME NEW m \in Managers, RenewSave(m)
      PROVE  StoreStep
  <2>1. CASE UNCHANGED store
    BY <2>1 DEF StoreStep, Keep
  <2>2. CASE SaveOutcome(m, RenewedLease(m)) = "ok" /\ Put(ShardOf[m], RenewedLease(m))
    <3>1. RenewedLease(m) \in Lease /\ RenewedLease(m).epoch <= leaseLast[ShardOf[m]]
      BY <1>4, RenewedLeaseType DEF RenewSave, At
    <3>2. ShardOf[m] \in Shards /\ leaseLast[ShardOf[m]] \in Nat /\ RenewedLease(m).epoch \in Nat
      BY <3>1, ManagerAssumption DEF Inv, TypeOK, Lease
    <3>3. RenewedLease(m).epoch <= leaseLast[ShardOf[m]] + 1
      BY <3>1, <3>2
    <3>4. Renewal(ShardOf[m]) \/ Granting(ShardOf[m])
      BY <2>2, <3>1, <3>2, <3>3, PutStep DEF SaveOutcome, Loaded
    <3> QED BY <3>2, <3>4 DEF StoreStep
  <2> QED BY <1>4, <2>1, <2>2 DEF RenewSave
<1>5. ASSUME NEW m \in Managers, HandoffSave(m)
      PROVE  StoreStep
  <2>1. CASE UNCHANGED store
    BY <2>1 DEF StoreStep, Keep
  <2>2. CASE ~UNCHANGED store
    <3>1. /\ HandoffResult(m) = "ok"
          /\ leases' = [leases EXCEPT ![ShardOf[m]] = NewLease(m)]
          /\ leaseLast' = [leaseLast EXCEPT ![ShardOf[m]] = call[m].epoch]
          /\ granted' = [granted EXCEPT ![ShardOf[m]] = @ \cup {FenceOf(NewLease(m))}]
      BY <1>5, <2>2 DEF HandoffSave
    <3>2. NewLease(m) \in Lease /\ ShardOf[m] \in Shards /\ NewLease(m).epoch = call[m].epoch
      BY NewLeaseType, ManagerAssumption DEF Inv, NewLease
    <3>3. Loaded(m) # None /\ NewLease(m).epoch = Loaded(m).epoch + 1
      BY <3>1 DEF HandoffResult, HandoffOutcome
    <3>4. NewLease(m).epoch = leaseLast[ShardOf[m]] + 1
      BY <3>2, <3>3 DEF Inv, StoreInv, StoredIsNewest, Loaded
    <3>5. Granting(ShardOf[m])
      BY <3>1, <3>2, <3>4 DEF Granting
    <3> QED BY <3>2, <3>5 DEF StoreStep
  <2> QED BY <2>1, <2>2
<1>6. ASSUME NEW m \in Managers, Release(m)
      PROVE  StoreStep
  <2>1. Loaded(m) # None /\ ShardOf[m] \in Shards
    BY <1>6, ManagerAssumption DEF Release, ReleaseOK
  <2>2. ReleasedLast(Loaded(m), leaseLast[ShardOf[m]]) = leaseLast[ShardOf[m]]
    BY <2>1 DEF Inv, TypeOK, StoreInv, StoredIsNewest, Loaded, ReleasedLast, Larger
  <2>3. leaseLast' = leaseLast
    BY <1>6, <2>1, <2>2 DEF Release, Inv, TypeOK
  <2>4. Revoking(ShardOf[m])
    BY <1>6, <2>1, <2>3 DEF Release, Revoking, Loaded
  <2> QED BY <2>1, <2>4 DEF StoreStep
<1>7. ASSUME NEW m \in Managers,
             \/ EnsureAcquire(m) \/ EnsureRenew(m) \/ AdoptLoad(m) \/ AdoptCheck(m)
             \/ AcquireLoad(m) \/ AcquireStale(m) \/ AcquireFailed(m) \/ RetryFailed(m)
             \/ RenewLoad(m) \/ RenewCheck(m)
             \/ HandoffLookup(m) \/ HandoffNow(m) \/ Restart(m)
      PROVE  StoreStep
  <2>1. UNCHANGED store
    BY <1>7 DEF EnsureAcquire, EnsureRenew, AdoptLoad, AdoptCheck, AcquireLoad,
      AcquireStale, AcquireFailed, RetryFailed, RenewLoad, RenewCheck,
      HandoffLookup, HandoffNow, Restart
  <2> QED BY <2>1 DEF StoreStep, Keep
<1> QED
  BY <1>1, <1>2, <1>3, <1>4, <1>5, <1>6, <1>7
  DEF Next, ManagerStep, HandoffStep, AcquireSave, AcquireRetry

-----------------------------------------------------------------------------
(* The store's steps preserve the store's invariant, keep the history and  *)
(* never move a counter back.                                              *)

\* No step of the store forgets a generation or lowers a counter.
LEMMA StoreStepGrows ==
  ASSUME Inv, StoreStep
  PROVE  \A s \in Shards : granted[s] \subseteq granted'[s] /\ leaseLast[s] <= leaseLast'[s]
<1>1. leaseLast \in [Shards -> Nat] /\ granted \in [Shards -> SUBSET Fence]
  BY DEF Inv, TypeOK
<1>2. CASE Keep
  BY <1>1, <1>2 DEF Keep, store
<1>3. ASSUME NEW s \in Shards, Granting(s)
      PROVE  \A r \in Shards : granted[r] \subseteq granted'[r] /\ leaseLast[r] <= leaseLast'[r]
  BY <1>1, <1>3 DEF Granting, Lease
<1>4. ASSUME NEW s \in Shards, Renewal(s) \/ Revoking(s)
      PROVE  \A r \in Shards : granted[r] \subseteq granted'[r] /\ leaseLast[r] <= leaseLast'[r]
  BY <1>1, <1>4 DEF Renewal, Revoking
<1> QED BY <1>2, <1>3, <1>4 DEF StoreStep

\* The steps of the store keep its table, its counters and its history in line.
LEMMA StoreInvPreserved ==
  ASSUME Inv, StoreStep
  PROVE  StoreInv'
<1> USE DEF StoreInv, StoredIsNewest, StoredGranted, GrantedBelow, GrantedAll, GenerationUnique
<1>1. /\ leases \in [Shards -> Record] /\ leaseLast \in [Shards -> Nat]
      /\ granted \in [Shards -> SUBSET Fence]
      /\ StoreInv
  BY DEF Inv, TypeOK
<1>2. CASE Keep
  BY <1>1, <1>2 DEF Keep, store
<1>3. ASSUME NEW s \in Shards, Renewal(s)
      PROVE  StoreInv'
  <2>1. PICK rec \in Lease : /\ SameLease(leases[s], rec)
                             /\ leases' = [leases EXCEPT ![s] = rec]
    BY <1>3 DEF Renewal
  <2>2. FenceOf(rec) = FenceOf(leases[s]) /\ rec.epoch = leases[s].epoch /\ leases[s] # None
    BY <1>3, <2>1 DEF Renewal, SameLease, FenceOf
  <2>3. leaseLast' = leaseLast /\ granted' = granted
    BY <1>3 DEF Renewal
  <2> QED BY <1>1, <2>1, <2>2, <2>3
<1>4. ASSUME NEW s \in Shards, Revoking(s)
      PROVE  StoreInv'
  BY <1>1, <1>4 DEF Revoking
<1>5. ASSUME NEW s \in Shards, Granting(s)
      PROVE  StoreInv'
  <2>1. PICK rec \in Lease :
          /\ rec.epoch = leaseLast[s] + 1
          /\ leases' = [leases EXCEPT ![s] = rec]
          /\ leaseLast' = [leaseLast EXCEPT ![s] = rec.epoch]
          /\ granted' = [granted EXCEPT ![s] = @ \cup {FenceOf(rec)}]
    BY <1>5 DEF Granting
  <2>2. FenceOf(rec).epoch = rec.epoch /\ rec.epoch \in Nat
    BY DEF FenceOf, Lease
  <2>3. \A r \in Shards : \A f \in granted[r] : f.epoch \in Nat
    BY <1>1 DEF Fence
  <2>4. StoredIsNewest'
    BY <1>1, <2>1
  <2>5. StoredGranted'
    BY <1>1, <2>1
  <2>6. GrantedBelow'
    BY <1>1, <2>1, <2>2, <2>3
  <2>7. GrantedAll'
    BY <1>1, <2>1, <2>2
  <2>8. GenerationUnique'
    BY <1>1, <2>1, <2>2, <2>3
  <2> QED BY <2>4, <2>5, <2>6, <2>7, <2>8
<1> QED BY <1>2, <1>3, <1>4, <1>5 DEF StoreStep

-----------------------------------------------------------------------------
(* What a pending call knows stays true.                                   *)

\* Calls that do not move keep what they know: history and counters grow.
LEMMA OtherCallsBacked ==
  ASSUME Inv, StoreStep, NEW m \in Managers,
         call'[m] = call[m] \/ call'[m] = Idle
  PROVE  CallBacked(m)'
<1>1. /\ ShardOf[m] \in Shards
      /\ granted[ShardOf[m]] \subseteq granted'[ShardOf[m]]
      /\ leaseLast[ShardOf[m]] <= leaseLast'[ShardOf[m]]
  BY StoreStepGrows, ManagerAssumption
<1>2. leaseLast[ShardOf[m]] \in Nat /\ call[m].epoch \in Nat
  BY <1>1 DEF Inv, TypeOK, Call
<1>3. leaseLast'[ShardOf[m]] \in Nat
  <2>1. CASE Keep
    BY <1>2, <2>1 DEF Keep, store
  <2>2. ASSUME NEW s \in Shards, Renewal(s) \/ Granting(s) \/ Revoking(s)
        PROVE  leaseLast'[ShardOf[m]] \in Nat
    BY <1>1, <1>2, <2>2 DEF Renewal, Granting, Revoking, Inv, TypeOK, Lease
  <2> QED BY <2>1, <2>2 DEF StoreStep
<1>4. CASE call'[m] = call[m]
  BY <1>1, <1>2, <1>3, <1>4 DEF Inv, CallsBacked, CallBacked
<1>5. CASE call'[m] = Idle
  BY <1>1, <1>2, <1>3, <1>5 DEF Idle, CallBacked
<1> QED BY <1>4, <1>5

\* One manager moves: the others' calls are as they were.
LEMMA CallsBackedByMover ==
  ASSUME Inv, StoreStep, NEW m \in Managers,
         NEW c, call' = [call EXCEPT ![m] = c],
         CallBacked(m)'
  PROVE  CallsBacked'
<1> SUFFICES ASSUME NEW n \in Managers
             PROVE  CallBacked(n)'
  BY DEF CallsBacked
<1>1. CASE n = m
  BY <1>1
<1>2. CASE n # m
  <2>1. call'[n] = call[n]
    BY <1>2 DEF Inv, TypeOK
  <2> QED BY <2>1, OtherCallsBacked
<1> QED BY <1>1, <1>2

\* A call that returned has nothing left to be backed.
LEMMA ReturnBacked ==
  ASSUME Inv, StoreStep, NEW m \in Managers, Return(m)
  PROVE  CallsBacked'
<1>1. call' = [call EXCEPT ![m] = Idle] /\ call'[m] = Idle
  BY DEF Return, Inv, TypeOK
<1>2. CallBacked(m)'
  BY <1>1, OtherCallsBacked
<1> QED BY <1>1, <1>2, CallsBackedByMover

\* Entering a step that leaves the store alone.
LEMMA EnterBacked ==
  ASSUME Inv, UNCHANGED store, NEW m \in Managers,
         NEW step, NEW rec, NEW now, NEW epoch,
         Enter(m, step, rec, now, epoch),
         rec # None => FenceOf(rec) \in granted[ShardOf[m]],
         epoch <= leaseLast[ShardOf[m]] + 1,
         step \in {"renewCheck", "renewSave", "handoffNow", "handoffSave"} => rec # None
  PROVE  CallsBacked'
<1> DEFINE c == [at |-> step, obs |-> rec, now |-> now, epoch |-> epoch]
<1>1. call' = [call EXCEPT ![m] = c] /\ call'[m] = c
  BY DEF Enter, Inv, TypeOK
<1>2. CallBacked(m)'
  BY <1>1 DEF CallBacked, store
<1>3. StoreStep
  BY DEF StoreStep, Keep
<1> QED BY <1>1, <1>2, <1>3, CallsBackedByMover

\* What a call carries from its loads to its save stays backed by the history.
LEMMA CallsBackedPreserved ==
  ASSUME Inv, [Next]_vars
  PROVE  CallsBacked'
<1>0. StoreStep
  BY ActionsAreStoreSteps
<1>1. CASE UNCHANGED vars \/ Tick
  BY <1>0, <1>1, OtherCallsBacked DEF vars, Tick, CallsBacked
<1>a. ASSUME NEW m \in Managers
      PROVE  /\ ShardOf[m] \in Shards
             /\ leaseLast[ShardOf[m]] \in Nat
             /\ Loaded(m) \in Record
             /\ Loaded(m) # None => /\ FenceOf(Loaded(m)) \in granted[ShardOf[m]]
                                    /\ Loaded(m).epoch = leaseLast[ShardOf[m]]
             /\ call[m].obs # None => call[m].obs.epoch <= leaseLast[ShardOf[m]]
             /\ call[m].epoch \in Nat
  <2>1. ShardOf[m] \in Shards
    BY ManagerAssumption
  <2>2. call[m].obs # None => FenceOf(call[m].obs) \in granted[ShardOf[m]]
    BY DEF Inv, CallsBacked, CallBacked
  <2>3. call[m].obs # None => call[m].obs.epoch <= leaseLast[ShardOf[m]]
    BY <2>1, <2>2 DEF Inv, StoreInv, GrantedBelow, FenceOf
  <2> QED BY <2>1, <2>3 DEF Inv, TypeOK, StoreInv, StoredIsNewest, StoredGranted, Loaded, Call
<1>2. ASSUME NEW m \in Managers,
             AcquireOK(m) \/ AcquireFailed(m) \/ RetryFailed(m) \/ RenewSave(m)
               \/ HandoffSave(m) \/ Restart(m)
      PROVE  CallsBacked'
  <2>1. Return(m)
    BY <1>2 DEF AcquireOK, AcquireFailed, RetryFailed, RenewSave, HandoffSave, Restart
  <2> QED BY <1>0, <2>1, ReturnBacked
<1>3. ASSUME NEW m \in Managers, Release(m)
      PROVE  CallsBacked'
  BY <1>0, <1>3, OtherCallsBacked DEF Release, CallsBacked
<1>4. ASSUME NEW m \in Managers, NEW step \in {"adoptLoad", "renewLoad"},
             UNCHANGED store, Goto(m, step)
      PROVE  CallsBacked'
  BY <1>4, <1>a, EnterBacked DEF Goto
<1>5. ASSUME NEW m \in Managers, EnsureAcquire(m) \/ EnsureRenew(m)
      PROVE  CallsBacked'
  BY <1>4, <1>5 DEF EnsureAcquire, EnsureRenew
<1>6. ASSUME NEW m \in Managers, AdoptLoad(m)
      PROVE  CallsBacked'
  <2>1. Enter(m, "adoptCheck", Loaded(m), 0, 1) /\ UNCHANGED store
    BY <1>6 DEF AdoptLoad, Observe
  <2> QED BY <1>a, <2>1, EnterBacked
<1>7. ASSUME NEW m \in Managers, AdoptCheck(m)
      PROVE  CallsBacked'
  <2>1. UNCHANGED store /\ (Return(m) \/ Enter(m, "acquireLoad", None, Now(m), 1))
    BY <1>7 DEF AdoptCheck
  <2> QED BY <1>0, <1>a, <2>1, ReturnBacked, EnterBacked
<1>8. ASSUME NEW m \in Managers, AcquireLoad(m)
      PROVE  CallsBacked'
  <2>1. UNCHANGED store
    BY <1>8 DEF AcquireLoad
  <2>2. CASE Return(m)
    BY <1>0, <2>2, ReturnBacked
  <2>3. CASE Enter(m, "acquireSave", None, call[m].now,
                   IF Loaded(m) = None THEN 1 ELSE Loaded(m).epoch + 1)
    <3>1. (IF Loaded(m) = None THEN 1 ELSE Loaded(m).epoch + 1) <= leaseLast[ShardOf[m]] + 1
      BY <1>a
    <3> QED BY <2>1, <2>3, <3>1, EnterBacked
  <2> QED BY <1>8, <2>2, <2>3 DEF AcquireLoad
<1>9. ASSUME NEW m \in Managers, AcquireStale(m)
      PROVE  CallsBacked'
  <2>1. Enter(m, "acquireRetry", None, call[m].now, Reported(m) + 1) /\ UNCHANGED store
    BY <1>9 DEF AcquireStale
  <2>2. Reported(m) + 1 <= leaseLast[ShardOf[m]] + 1
    BY <1>a DEF Reported, StaleCurrent, Larger, Lease, Record
  <2> QED BY <2>1, <2>2, EnterBacked
<1>10. ASSUME NEW m \in Managers, RenewLoad(m)
       PROVE  CallsBacked'
  <2>1. UNCHANGED store
    BY <1>10 DEF RenewLoad
  <2>2. CASE Loaded(m) = None
    BY <1>4, <1>10, <2>1, <2>2 DEF RenewLoad
  <2>3. CASE Loaded(m) # None /\ Return(m)
    BY <1>0, <2>3, ReturnBacked
  <2>4. CASE Loaded(m) # None /\ Enter(m, "renewCheck", Loaded(m), 0, 1)
    BY <1>a, <2>1, <2>4, EnterBacked
  <2> QED BY <1>10, <2>2, <2>3, <2>4 DEF RenewLoad, Observe
<1>11. ASSUME NEW m \in Managers, RenewCheck(m)
       PROVE  CallsBacked'
  <2>1. UNCHANGED store /\ call[m].at = "renewCheck"
    BY <1>11 DEF RenewCheck, At
  <2>2. call[m].obs # None /\ FenceOf(call[m].obs) \in granted[ShardOf[m]]
    BY <2>1 DEF Inv, CallsBacked, CallBacked
  <2>3. CASE Goto(m, "adoptLoad")
    BY <1>4, <2>1, <2>3
  <2>4. CASE Return(m)
    BY <1>0, <2>4, ReturnBacked
  <2>5. CASE Enter(m, "renewSave", call[m].obs, Now(m), 1)
    BY <1>a, <2>1, <2>2, <2>5, EnterBacked
  <2> QED BY <1>11, <2>3, <2>4, <2>5 DEF RenewCheck
<1>12. ASSUME NEW m \in Managers, HandoffLookup(m)
       PROVE  CallsBacked'
  <2>1. Enter(m, "handoffNow", Loaded(m), 0, 1) /\ UNCHANGED store /\ Loaded(m) # None
    BY <1>12 DEF HandoffLookup, Observe, HeldAt
  <2> QED BY <1>a, <2>1, EnterBacked
<1>13. ASSUME NEW m \in Managers, HandoffNow(m)
       PROVE  CallsBacked'
  <2>1. UNCHANGED store /\ call[m].at = "handoffNow"
    BY <1>13 DEF HandoffNow, At
  <2>2. call[m].obs # None /\ FenceOf(call[m].obs) \in granted[ShardOf[m]]
    BY <2>1 DEF Inv, CallsBacked, CallBacked
  <2>3. CASE Return(m)
    BY <1>0, <2>3, ReturnBacked
  <2>4. CASE Enter(m, "handoffSave", call[m].obs, Now(m), call[m].obs.epoch + 1)
    <3>1. call[m].obs \in Lease
      BY <2>2 DEF Inv, TypeOK, Call, Record
    <3>2. call[m].obs.epoch + 1 <= leaseLast[ShardOf[m]] + 1
      BY <1>a, <2>2, <3>1 DEF Lease
    <3> QED BY <2>1, <2>2, <2>4, <3>2, EnterBacked
  <2> QED BY <1>13, <2>3, <2>4 DEF HandoffNow
<1> QED
  BY <1>1, <1>2, <1>3, <1>5, <1>6, <1>7, <1>8, <1>9, <1>10, <1>11, <1>12, <1>13
  DEF Next, ManagerStep, HandoffStep, AcquireSave, AcquireRetry

-----------------------------------------------------------------------------
(* Type correctness.                                                       *)

\* The clock, the table, its counters and its history keep their types.
LEMMA StoreTyped ==
  ASSUME Inv, StoreStep
  PROVE  /\ leases' \in [Shards -> Record]
         /\ leaseLast' \in [Shards -> Nat]
         /\ granted' \in [Shards -> SUBSET Fence]
<1>1. /\ leases \in [Shards -> Record] /\ leaseLast \in [Shards -> Nat]
      /\ granted \in [Shards -> SUBSET Fence]
  BY DEF Inv, TypeOK
<1>2. CASE Keep
  BY <1>1, <1>2 DEF Keep, store
<1>3. ASSUME NEW s \in Shards, Renewal(s) \/ Revoking(s)
      PROVE  /\ leases' \in [Shards -> Record]
             /\ leaseLast' \in [Shards -> Nat]
             /\ granted' \in [Shards -> SUBSET Fence]
  BY <1>1, <1>3 DEF Renewal, Revoking, Record
<1>4. ASSUME NEW s \in Shards, Granting(s)
      PROVE  /\ leases' \in [Shards -> Record]
             /\ leaseLast' \in [Shards -> Nat]
             /\ granted' \in [Shards -> SUBSET Fence]
  <2>1. PICK rec \in Lease :
          /\ leases' = [leases EXCEPT ![s] = rec]
          /\ leaseLast' = [leaseLast EXCEPT ![s] = rec.epoch]
          /\ granted' = [granted EXCEPT ![s] = @ \cup {FenceOf(rec)}]
    BY <1>4 DEF Granting
  <2>2. rec.epoch \in Nat /\ FenceOf(rec) \in Fence
    BY DEF Lease, FenceOf, Fence
  <2> QED BY <1>1, <2>1, <2>2 DEF Record
<1> QED BY <1>2, <1>3, <1>4 DEF StoreStep

\* What a manager caches is a lease or nothing, and so is its call.
LEMMA LocalTyped ==
  ASSUME Inv, [Next]_vars
  PROVE  /\ clock' \in Nat
         /\ current' \in [Managers -> Record]
         /\ mtoken' \in [Managers -> Tokens \cup {NoToken}]
         /\ call' \in [Managers -> Call]
<1> DEFINE Goal == /\ clock' \in Nat
                   /\ current' \in [Managers -> Record]
                   /\ mtoken' \in [Managers -> Tokens \cup {NoToken}]
                   /\ call' \in [Managers -> Call]
<1>1. /\ clock \in Nat /\ current \in [Managers -> Record]
      /\ mtoken \in [Managers -> Tokens \cup {NoToken}]
      /\ call \in [Managers -> Call]
  BY DEF Inv, TypeOK
<1>2. CASE UNCHANGED vars \/ Tick
  BY <1>1, <1>2 DEF vars, Tick
<1>3. Idle \in Call /\ None \in Record
  BY DEF Idle, Call, Record, Steps
<1>4. ASSUME NEW m \in Managers, Return(m) \/ UNCHANGED call
      PROVE  call' \in [Managers -> Call]
  BY <1>1, <1>3, <1>4 DEF Return
<1>5. ASSUME NEW m \in Managers, NEW rec \in Record,
             Cache(m, rec) \/ UNCHANGED current
      PROVE  current' \in [Managers -> Record]
  BY <1>1, <1>5 DEF Cache
<1>6. ASSUME NEW m \in Managers
      PROVE  /\ Now(m) \in Nat
             /\ Loaded(m) \in Record
             /\ leaseLast[ShardOf[m]] \in Nat
             /\ call[m].obs \in Record /\ call[m].now \in Nat /\ call[m].epoch \in Nat \ {0}
             /\ NewLease(m) \in Lease
  <2>1. Now(m) \in Nat
    BY <1>1, TimeAssumption, ManagerAssumption DEF Now
  <2>2. Loaded(m) \in Record /\ leaseLast[ShardOf[m]] \in Nat
    BY ManagerAssumption DEF Inv, TypeOK, Loaded
  <2> QED BY <1>1, <2>1, <2>2, NewLeaseType DEF Inv, Call
<1>7. ASSUME NEW m \in Managers, NEW step \in Steps, NEW rec \in Record,
             NEW now \in Nat, NEW epoch \in Nat \ {0}, Enter(m, step, rec, now, epoch)
      PROVE  call' \in [Managers -> Call]
  <2>1. [at |-> step, obs |-> rec, now |-> now, epoch |-> epoch] \in Call
    BY <1>7 DEF Call
  <2> QED BY <1>1, <1>7, <2>1 DEF Enter
<1>8. ASSUME NEW m \in Managers, EnsureAcquire(m) \/ EnsureRenew(m)
      PROVE  Goal
  <2>1. Enter(m, "adoptLoad", None, 0, 1) \/ Enter(m, "renewLoad", None, 0, 1)
    BY <1>8 DEF EnsureAcquire, EnsureRenew, Goto
  <2>2. call' \in [Managers -> Call]
    BY <1>3, <1>7, <2>1 DEF Steps
  <2>3. current' \in [Managers -> Record]
    BY <1>3, <1>5, <1>8 DEF EnsureAcquire, EnsureRenew
  <2> QED BY <1>1, <1>8, <2>2, <2>3 DEF EnsureAcquire, EnsureRenew
<1>9. ASSUME NEW m \in Managers, AdoptLoad(m)
      PROVE  Goal
  <2>1. Enter(m, "adoptCheck", Loaded(m), 0, 1)
    BY <1>9 DEF AdoptLoad, Observe
  <2>a. "adoptCheck" \in Steps /\ Loaded(m) \in Record /\ 0 \in Nat /\ 1 \in Nat \ {0}
    BY <1>6 DEF Steps
  <2>2. call' \in [Managers -> Call]
    BY <1>7, <2>1, <2>a
  <2> QED BY <1>1, <1>9, <2>2 DEF AdoptLoad
<1>10. ASSUME NEW m \in Managers, AdoptCheck(m)
       PROVE  Goal
  <2>1. Return(m) \/ Enter(m, "acquireLoad", None, Now(m), 1)
    BY <1>10 DEF AdoptCheck
  <2>2. call' \in [Managers -> Call]
    BY <1>3, <1>4, <1>6, <1>7, <2>1 DEF Steps
  <2>3. current' \in [Managers -> Record]
    BY <1>5, <1>6, <1>10 DEF AdoptCheck
  <2> QED BY <1>1, <1>10, <2>2, <2>3 DEF AdoptCheck
<1>11. ASSUME NEW m \in Managers, AcquireLoad(m)
       PROVE  Goal
  <2> DEFINE e == IF Loaded(m) = None THEN 1 ELSE Loaded(m).epoch + 1
  <2>1. Return(m) \/ Enter(m, "acquireSave", None, call[m].now, e)
    BY <1>11 DEF AcquireLoad
  <2>2. e \in Nat \ {0}
    BY <1>6 DEF Record, Lease
  <2>3. call' \in [Managers -> Call]
    BY <1>3, <1>4, <1>6, <1>7, <2>1, <2>2 DEF Steps
  <2> QED BY <1>1, <1>11, <2>3 DEF AcquireLoad
<1>12. ASSUME NEW m \in Managers, AcquireOK(m)
       PROVE  Goal
  <2>1. SavedLease(Loaded(m), NewLease(m)) \in Record
    BY <1>6 DEF SavedLease, Record, Lease
  <2>2. current' \in [Managers -> Record]
    BY <1>5, <1>12, <2>1 DEF AcquireOK
  <2> QED BY <1>1, <1>4, <1>12, <2>2 DEF AcquireOK
<1>13. ASSUME NEW m \in Managers, AcquireStale(m)
       PROVE  Goal
  <2>1. Enter(m, "acquireRetry", None, call[m].now, Reported(m) + 1)
    BY <1>13 DEF AcquireStale
  <2>2. Reported(m) + 1 \in Nat \ {0}
    BY <1>6 DEF Reported, StaleCurrent, Larger, Record, Lease
  <2>3. call' \in [Managers -> Call]
    BY <1>3, <1>6, <1>7, <2>1, <2>2 DEF Steps
  <2> QED BY <1>1, <1>13, <2>3 DEF AcquireStale
<1>14. ASSUME NEW m \in Managers, AcquireFailed(m) \/ RetryFailed(m)
       PROVE  Goal
  BY <1>1, <1>4, <1>14 DEF AcquireFailed, RetryFailed
<1>15. ASSUME NEW m \in Managers, RenewLoad(m)
       PROVE  Goal
  <2>1. \/ Enter(m, "adoptLoad", None, 0, 1) \/ Return(m)
        \/ Enter(m, "renewCheck", Loaded(m), 0, 1)
    BY <1>15 DEF RenewLoad, Goto, Observe
  <2>2. call' \in [Managers -> Call]
    BY <1>3, <1>4, <1>6, <1>7, <2>1 DEF Steps
  <2>3. current' \in [Managers -> Record]
    BY <1>3, <1>5, <1>15 DEF RenewLoad
  <2> QED BY <1>1, <1>15, <2>2, <2>3 DEF RenewLoad
<1>16. ASSUME NEW m \in Managers, RenewCheck(m)
       PROVE  Goal
  <2>1. \/ Enter(m, "adoptLoad", None, 0, 1) \/ Return(m)
        \/ Enter(m, "renewSave", call[m].obs, Now(m), 1)
    BY <1>16 DEF RenewCheck, Goto
  <2>2. call' \in [Managers -> Call]
    BY <1>3, <1>4, <1>6, <1>7, <2>1 DEF Steps
  <2>3. current' \in [Managers -> Record]
    BY <1>3, <1>5, <1>16 DEF RenewCheck
  <2> QED BY <1>1, <1>16, <2>2, <2>3 DEF RenewCheck
<1>17. ASSUME NEW m \in Managers, RenewSave(m)
       PROVE  Goal
  <2>1. RenewedLease(m) \in Lease
    BY <1>17, RenewedLeaseType DEF RenewSave, At
  <2>2. SavedLease(Loaded(m), RenewedLease(m)) \in Record
    BY <1>6, <2>1 DEF SavedLease, Record, Lease
  <2>3. current' \in [Managers -> Record]
    BY <1>5, <1>17, <2>2 DEF RenewSave
  <2> QED BY <1>1, <1>4, <1>17, <2>3 DEF RenewSave
<1>18. ASSUME NEW m \in Managers, Release(m) \/ Restart(m)
       PROVE  Goal
  <2>1. current' \in [Managers -> Record]
    BY <1>3, <1>5, <1>18 DEF Release, Restart
  <2>2. mtoken' \in [Managers -> Tokens \cup {NoToken}]
    BY <1>1, <1>18, ManagerAssumption DEF Release, Restart, Tokens
  <2> QED BY <1>1, <1>4, <1>18, <2>1, <2>2 DEF Release, Restart
<1>19. ASSUME NEW m \in Managers, HandoffLookup(m)
       PROVE  Goal
  <2>1. Enter(m, "handoffNow", Loaded(m), 0, 1)
    BY <1>19 DEF HandoffLookup, Observe
  <2>a. "handoffNow" \in Steps /\ Loaded(m) \in Record /\ 0 \in Nat /\ 1 \in Nat \ {0}
    BY <1>6 DEF Steps
  <2>2. call' \in [Managers -> Call]
    BY <1>7, <2>1, <2>a
  <2> QED BY <1>1, <1>19, <2>2 DEF HandoffLookup
<1>20. ASSUME NEW m \in Managers, HandoffNow(m)
       PROVE  Goal
  <2>1. call[m].obs \in Lease
    BY <1>6, <1>20 DEF HandoffNow, At, Inv, CallsBacked, CallBacked, Record
  <2>2. call[m].obs.epoch + 1 \in Nat \ {0}
    BY <2>1 DEF Lease
  <2>3. Return(m) \/ Enter(m, "handoffSave", call[m].obs, Now(m), call[m].obs.epoch + 1)
    BY <1>20 DEF HandoffNow
  <2>4. call' \in [Managers -> Call]
    BY <1>4, <1>6, <1>7, <2>2, <2>3 DEF Steps
  <2> QED BY <1>1, <1>20, <2>4 DEF HandoffNow
<1>21. ASSUME NEW m \in Managers, HandoffSave(m)
       PROVE  Goal
  <2>1. NewLease(m) \in Record /\ RequestToken(m) \in Tokens
    BY <1>6, RequestTokenType DEF Record, Inv
  <2>2. current' \in [Managers -> Record]
    BY <1>5, <1>21, <2>1 DEF HandoffSave
  <2>3. mtoken' \in [Managers -> Tokens \cup {NoToken}]
    BY <1>1, <1>21, <2>1 DEF HandoffSave
  <2> QED BY <1>1, <1>4, <1>21, <2>2, <2>3 DEF HandoffSave
<1> QED
  BY <1>2, <1>8, <1>9, <1>10, <1>11, <1>12, <1>13, <1>14, <1>15, <1>16, <1>17,
     <1>18, <1>19, <1>20, <1>21
  DEF Next, ManagerStep, HandoffStep, AcquireSave, AcquireRetry

-----------------------------------------------------------------------------
(* The theorems.                                                           *)

\* The inductive invariant holds at the start.
LEMMA InvInit == ASSUME Init PROVE Inv
<1>1. TypeOK
  <2>1. ConfigToken \in [Managers -> Tokens \cup {NoToken}]
    BY ManagerAssumption DEF Tokens
  <2> QED BY <2>1 DEF Init, TypeOK, Record, Call, Idle, Steps
<1>2. StoreInv
  BY DEF Init, StoreInv, StoredIsNewest, StoredGranted, GrantedBelow, GrantedAll, GenerationUnique
<1>3. CallsBacked
  BY ManagerAssumption DEF Init, CallsBacked, CallBacked, Idle
<1> QED BY <1>1, <1>2, <1>3 DEF Inv

\* Every step of the protocol keeps the inductive invariant.
LEMMA InvStep == ASSUME Inv, [Next]_vars PROVE Inv'
<1>1. StoreStep
  BY ActionsAreStoreSteps
<1> QED BY <1>1, StoreTyped, LocalTyped, StoreInvPreserved, CallsBackedPreserved DEF Inv, TypeOK

\* The inductive invariant of managers and lease table: types, the store's own
\* consistency, and what a call in progress knows of the store.
THEOREM Invariance == Spec => []Inv
<1>1. Init => Inv
  BY InvInit
<1>2. Inv /\ [Next]_vars => Inv'
  BY InvStep
<1> QED BY <1>1, <1>2, PTL DEF Spec

\* Every variable keeps its type, for any instance.
THEOREM TypeCorrect == Spec => []TypeOK
<1>1. Inv => TypeOK
  BY DEF Inv
<1> QED BY <1>1, Invariance, PTL

\* No race of loads and saves puts an old generation back: SaveLease,
\* HandoffLease and ReleaseLease keep the table at the newest epoch.
THEOREM StoreNeverRegresses == Spec => []StoredIsNewest
<1>1. Inv => StoredIsNewest
  BY DEF Inv, StoreInv
<1> QED BY <1>1, Invariance, PTL

\* An epoch of a shard names one holder and one token, for ever.
THEOREM EpochNamesOneGeneration == Spec => []GenerationUnique
<1>1. Inv => GenerationUnique
  BY DEF Inv, StoreInv
<1> QED BY <1>1, Invariance, PTL

\* Epochs are consecutive.
THEOREM EpochsHaveNoGaps == Spec => []EpochsContiguous
<1>1. ASSUME Inv PROVE EpochsContiguous
  <2> SUFFICES ASSUME NEW s \in Shards
               PROVE  {f.epoch : f \in granted[s]} = 1 .. leaseLast[s]
    BY DEF EpochsContiguous
  <2>1. leaseLast[s] \in Nat /\ \A f \in granted[s] : f.epoch \in Nat \ {0}
    BY <1>1 DEF Inv, TypeOK, Fence
  <2>2. \A f \in granted[s] : f.epoch \in 1 .. leaseLast[s]
    BY <1>1, <2>1 DEF Inv, StoreInv, GrantedBelow
  <2>3. \A e \in 1 .. leaseLast[s] : \E f \in granted[s] : f.epoch = e
    BY <1>1 DEF Inv, StoreInv, GrantedAll
  <2> QED BY <2>2, <2>3
<1> QED BY <1>1, Invariance, PTL

-----------------------------------------------------------------------------
(* Refinement of the abstract authority.                                   *)

\* A step of the table is a grant, a revocation or nothing to the owners.
LEMMA StoreStepRefines ==
  ASSUME Inv, StoreStep
  PROVE  Authority!Next \/ UNCHANGED <<leaseLast, Owner>>
<1>1. leases \in [Shards -> Record] /\ leaseLast \in [Shards -> Nat]
  BY DEF Inv, TypeOK
<1>2. CASE Keep
  BY <1>2 DEF Keep, store, Owner
<1>3. ASSUME NEW s \in Shards, Renewal(s)
      PROVE  UNCHANGED <<leaseLast, Owner>>
  <2>1. PICK rec \in Lease : SameLease(leases[s], rec) /\ leases' = [leases EXCEPT ![s] = rec]
    BY <1>3 DEF Renewal
  <2>2. FenceOf(rec) = FenceOf(leases[s]) /\ leases[s] # None /\ rec # None
    BY <1>3, <2>1, NoneAssumption DEF Renewal, SameLease, FenceOf
  <2>3. \A r \in Shards : Owner'[r] = Owner[r]
    BY <1>1, <2>1, <2>2 DEF Owner
  <2> QED BY <1>3, <2>3 DEF Renewal, Owner
<1>4. ASSUME NEW s \in Shards, Granting(s)
      PROVE  Authority!Grant(s)
  <2>1. PICK rec \in Lease :
          /\ rec.epoch = leaseLast[s] + 1
          /\ leases' = [leases EXCEPT ![s] = rec]
          /\ leaseLast' = [leaseLast EXCEPT ![s] = rec.epoch]
    BY <1>4 DEF Granting
  <2>2. rec # None /\ leases'[s] = rec /\ FenceOf(rec) \in Fence /\ FenceOf(rec).epoch = rec.epoch
    BY <1>1, <2>1, NoneAssumption DEF Lease, FenceOf, Fence
  <2>3. Owner'[s] = FenceOf(rec)
    BY <2>2 DEF Owner
  <2>4. Owner' = [Owner EXCEPT ![s] = Owner'[s]]
    BY <1>1, <2>1 DEF Owner
  <2>5. leaseLast' = [leaseLast EXCEPT ![s] = @ + 1]
    BY <2>1
  <2> QED BY <2>1, <2>2, <2>3, <2>4, <2>5 DEF Authority!Grant, Authority!Fence, Authority!Tokens, Fence, Tokens
<1>5. ASSUME NEW s \in Shards, Revoking(s)
      PROVE  Authority!Revoke(s)
  <2>1. leases[s] # None /\ FenceOf(leases[s]) \in Fence /\ leaseLast' = leaseLast
        /\ leases' = [leases EXCEPT ![s] = None]
    BY <1>1, <1>5 DEF Revoking, Record, Lease, FenceOf, Fence
  <2>2. Owner[s] # None
    BY <2>1, NoneAssumption DEF Owner
  <2>3. Owner' = [Owner EXCEPT ![s] = None]
    BY <1>1, <2>1 DEF Owner
  <2> QED BY <2>1, <2>2, <2>3 DEF Authority!Revoke
<1> QED BY <1>2, <1>3, <1>4, <1>5 DEF StoreStep, Authority!Next

\* The lease managers, adapters and store together implement LeaseAuthority.
THEOREM RefinesAuthority == Spec => ImplementsAuthority
<1>1. Init => Authority!Init
  BY DEF Init, Authority!Init, Owner
<1>2. Inv /\ [Next]_vars => [Authority!Next]_<<leaseLast, Owner>>
  BY ActionsAreStoreSteps, StoreStepRefines
<1> QED BY <1>1, <1>2, Invariance, PTL DEF Spec, ImplementsAuthority, Authority!Spec, Authority!avars

-----------------------------------------------------------------------------
(* Trusting the cached lease.                                              *)

\* The nodes read the same time.
EqualClocks == \A g, h \in Nodes : Skew[g] = Skew[h]

\* A node coordinates a shard with one manager.
OneManager == \A m, n \in Managers : HolderOf[m] = HolderOf[n] /\ ShardOf[m] = ShardOf[n] => m = n

\* Tokens a node's managers use: the minted ones, and those they are configured with.
HolderTokens(h) ==
  {<<h, t>> : t \in Nat} \cup ({ConfigToken[m] : m \in {k \in Managers : HolderOf[k] = h}} \ {NoToken})

\* No two nodes use one token.
OwnTokens == \A g, h \in Nodes : g # h => HolderTokens(g) \cap HolderTokens(h) = {}

Deployment == EqualClocks /\ OneManager /\ OwnTokens

\* A record of a holder's own making, dated by a clock that everybody reads.
Dated(rec) ==
  /\ rec.token \in HolderTokens(rec.node)
  /\ \A n \in Nodes : rec.acquiredAt <= clock + Skew[n] /\ rec.expiresAt <= clock + Skew[n] + TTL

RecordsDated ==
  /\ \A s \in Shards : leases[s] # None => Dated(leases[s])
  /\ \A m \in Managers : current[m] # None => Dated(current[m]) /\ current[m].node = HolderOf[m]
  /\ \A m \in Managers : call[m].obs # None => Dated(call[m].obs)
  /\ \A m \in Managers : call[m].now <= Now(m)

\* What a manager has in its cache while it is inside a call.
CallShape(m) ==
  /\ mtoken[m] = ConfigToken[m]
  /\ call[m].at \notin {"handoffNow", "handoffSave"}
  /\ call[m].at \in {"adoptLoad", "adoptCheck", "acquireLoad", "acquireSave", "acquireRetry"} =>
       current[m] = None
  /\ call[m].at \in {"renewLoad", "renewCheck", "renewSave"} => current[m] # None
  /\ call[m].at \in {"renewCheck", "renewSave"} => call[m].obs # None /\ call[m].obs.node = HolderOf[m]
  /\ call[m].at = "renewSave" => current[m].expiresAt <= call[m].now + TTL

\* While a record of the manager's own is active, the store has that generation,
\* at least as long.
Backing(m, rec) ==
  rec # None /\ rec.node = HolderOf[m] /\ ActiveAt(rec, Now(m)) =>
    Loaded(m) # None /\ SameLease(Loaded(m), rec) /\ Loaded(m).expiresAt >= rec.expiresAt

Pledged(m) == Backing(m, current[m]) /\ (call[m].at = "adoptCheck" => Backing(m, call[m].obs))

BeliefInv == RecordsDated /\ \A m \in Managers : CallShape(m) /\ Pledged(m)

-----------------------------------------------------------------------------
(* What one manager's step may do to the others.                           *)

\* Another manager's variables stay.
Alone(m) ==
  \A n \in Managers \ {m} : call'[n] = call[n] /\ current'[n] = current[n] /\ mtoken'[n] = mtoken[n]

\* What the manager's save would store.
Offer(m, rec) ==
  /\ rec \in Lease /\ rec.node = HolderOf[m] /\ Dated(rec) /\ rec.acquiredAt <= Now(m)
  /\ SaveOutcome(m, rec) = "ok"

\* The table does not change, or a save of this manager's is accepted, or it
\* releases a lease whose token it has.
StoreBy(m) ==
  \/ leases' = leases
  \/ \E rec \in Lease : /\ Offer(m, rec)
                        /\ leases' = [leases EXCEPT ![ShardOf[m]] = SavedLease(Loaded(m), rec)]
  \/ /\ Loaded(m) # None /\ Loaded(m).token \in HolderTokens(HolderOf[m])
     /\ leases' = [leases EXCEPT ![ShardOf[m]] = None]

\* What the manager caches, loads and reads in the step, and what it believes after.
MoverFits(m) ==
  /\ current'[m] # None => Dated(current'[m]) /\ current'[m].node = HolderOf[m]
  /\ call'[m].obs # None => Dated(call'[m].obs)
  /\ call'[m].now <= Now(m)
  /\ CallShape(m)' /\ Pledged(m)'

\* All managers read one clock.
LEMMA OneClock ==
  ASSUME Deployment, NEW m \in Managers, NEW n \in Nodes
  PROVE  Now(m) = clock + Skew[n]
BY ManagerAssumption DEF Deployment, EqualClocks, Now

\* Types of what a manager reads.
LEMMA Reads ==
  ASSUME Inv, NEW m \in Managers
  PROVE  /\ Loaded(m) \in Record /\ current[m] \in Record /\ call[m].obs \in Record
         /\ call[m].now \in Nat /\ call[m].epoch \in Nat \ {0} /\ Now(m) \in Nat
         /\ HolderOf[m] \in Nodes /\ ShardOf[m] \in Shards /\ TTL \in Nat \ {0}
         /\ call[m] = [at |-> call[m].at, obs |-> call[m].obs, now |-> call[m].now, epoch |-> call[m].epoch]
<1>1. HolderOf[m] \in Nodes /\ ShardOf[m] \in Shards /\ TTL \in Nat \ {0} /\ Skew \in [Nodes -> Nat]
  BY ManagerAssumption, TimeAssumption
<1>2. call[m] \in Call /\ current[m] \in Record /\ clock \in Nat /\ leases \in [Shards -> Record]
  BY DEF Inv, TypeOK
<1> QED BY <1>1, <1>2 DEF Call, Loaded, Now

\* SaveLease never replaces a lease that is active at the instant the caller read by
\* one of another generation.
LEMMA SaveDenied ==
  ASSUME NEW cur \in Lease, NEW last, NEW rec \in Lease, ~SameLease(cur, rec), ActiveAt(cur, rec.acquiredAt)
  PROVE  SaveLeaseOutcome(cur, last, rec) # "ok"
<1>1. rec.epoch \in Nat /\ cur.epoch \in Nat BY DEF Lease
<1>2. cur # None BY NoneAssumption
<1>3. SaveIsStale(cur, last, rec) \/ SaveConflicts(cur, rec) BY <1>1, <1>2 DEF SaveIsStale, SaveConflicts
<1> QED BY <1>3 DEF SaveLeaseOutcome

\* A record that backs a belief is active now, whoever asks.
LEMMA BackedActive ==
  ASSUME Inv, NEW n \in Managers, NEW r \in Lease, Backing(n, r), r.node = HolderOf[n], ActiveAt(r, Now(n))
  PROVE  Loaded(n) \in Lease /\ Loaded(n).node = HolderOf[n] /\ ActiveAt(Loaded(n), Now(n))
<1>1. r # None BY NoneAssumption
<1>2. Loaded(n) # None /\ SameLease(Loaded(n), r) /\ Loaded(n).expiresAt >= r.expiresAt
  BY <1>1 DEF Backing
<1>3. Loaded(n) \in Lease BY <1>2, Reads DEF Record
<1>4. Loaded(n).expiresAt \in Nat /\ r.expiresAt \in Nat /\ Now(n) \in Nat BY <1>3, Reads DEF Lease
<1> QED BY <1>2, <1>3, <1>4 DEF SameLease, ActiveAt

\* A manager's step leaves what backs another manager's belief where it is.
LEMMA OthersBacked ==
  ASSUME Inv, BeliefInv, Deployment, NEW m \in Managers, NEW n \in Managers, n # m,
         StoreBy(m), clock' = clock, NEW r \in Record, Backing(n, r)
  PROVE  Backing(n, r)'
<1> SUFFICES ASSUME r # None, r.node = HolderOf[n], ActiveAt(r, Now(n)) PROVE Loaded(n)' = Loaded(n)
  BY DEF Backing, Now
<1>1. r \in Lease BY DEF Record
<1>2. Loaded(n) \in Lease /\ Loaded(n).node = HolderOf[n] /\ ActiveAt(Loaded(n), Now(n))
  BY <1>1, BackedActive
<1>3. CASE ShardOf[n] # ShardOf[m] BY <1>3, Reads DEF StoreBy, Loaded, Inv, TypeOK
<1>4. CASE ShardOf[n] = ShardOf[m]
  <2>1. HolderOf[n] # HolderOf[m] /\ Loaded(n) = Loaded(m) BY <1>4 DEF Deployment, OneManager, Loaded
  <2>2. Now(n) = Now(m) /\ HolderOf[n] \in Nodes /\ HolderOf[m] \in Nodes
    BY OneClock, Reads
  <2>3. ~\E rec \in Lease : Offer(m, rec)
    <3> SUFFICES ASSUME NEW rec \in Lease, Offer(m, rec) PROVE FALSE OBVIOUS
    <3>1. ~SameLease(Loaded(m), rec) BY <1>2, <2>1 DEF Offer, SameLease
    <3>2. ActiveAt(Loaded(m), rec.acquiredAt)
      <4>1. Loaded(m).expiresAt \in Nat /\ rec.acquiredAt \in Nat /\ Now(m) \in Nat
        BY <1>2, <2>1, Reads DEF Lease
      <4>2. rec.acquiredAt <= Now(m) /\ Now(m) < Loaded(m).expiresAt
        BY <1>2, <2>1, <2>2 DEF Offer, ActiveAt
      <4> QED BY <4>1, <4>2 DEF ActiveAt
    <3> QED BY <1>2, <2>1, <3>1, <3>2, SaveDenied DEF Offer, SaveOutcome
  <2>4. Loaded(m).token \notin HolderTokens(HolderOf[m])
    <3>1. Loaded(n).token \in HolderTokens(HolderOf[n])
      <4>1. Loaded(n) # None /\ ShardOf[n] \in Shards BY <1>2, Reads, NoneAssumption
      <4>2. Dated(Loaded(n)) BY <4>1 DEF BeliefInv, RecordsDated, Loaded
      <4> QED BY <1>2, <4>2 DEF Dated
    <3> QED BY <2>1, <2>2, <3>1 DEF Deployment, OwnTokens
  <2> QED BY <2>3, <2>4 DEF StoreBy, Loaded
<1> QED BY <1>3, <1>4

\* An accepted save stores a record with the dates and the token of the offer, or with
\* an earlier start.
LEMMA OfferDated ==
  ASSUME Inv, BeliefInv, NEW m \in Managers, NEW rec \in Lease, Offer(m, rec)
  PROVE  LET new == SavedLease(Loaded(m), rec)
         IN  /\ new \in Lease /\ Dated(new) /\ new.node = HolderOf[m]
             /\ SameLease(new, rec) /\ new.expiresAt = rec.expiresAt
<1>0. Dated(rec) /\ rec.node = HolderOf[m] BY DEF Offer
<1>1. CASE Loaded(m) # None /\ SameLease(Loaded(m), rec)
  <2>1. Loaded(m) \in Lease BY <1>1, Reads DEF Record
  <2>2. Dated(Loaded(m)) BY <1>1, Reads DEF BeliefInv, RecordsDated, Loaded
  <2>3. SavedLease(Loaded(m), rec) = [rec EXCEPT !.acquiredAt = Loaded(m).acquiredAt]
    BY <1>1 DEF SavedLease
  <2> DEFINE new == [rec EXCEPT !.acquiredAt = Loaded(m).acquiredAt]
  <2>4. /\ new \in Lease /\ new.node = rec.node /\ new.epoch = rec.epoch /\ new.token = rec.token
        /\ new.expiresAt = rec.expiresAt /\ new.acquiredAt = Loaded(m).acquiredAt
    BY <2>1 DEF Lease
  <2> HIDE DEF new
  <2>5. Dated(new) BY <1>0, <2>2, <2>4 DEF Dated
  <2> QED BY <1>0, <2>3, <2>4, <2>5 DEF SameLease, new
<1>2. CASE ~(Loaded(m) # None /\ SameLease(Loaded(m), rec))
  <2>1. SavedLease(Loaded(m), rec) = rec BY <1>2 DEF SavedLease
  <2> QED BY <1>0, <2>1 DEF SameLease
<1> QED BY <1>1, <1>2

\* So what holds of the mover is all there is to show of a step.
LEMMA StepFits ==
  ASSUME Inv, BeliefInv, Deployment, NEW m \in Managers, clock' = clock, Alone(m), StoreBy(m), MoverFits(m)
  PROVE  BeliefInv'
<1>1. \A rec : Dated(rec)' <=> Dated(rec) BY DEF Dated
<1>2. RecordsDated'
  <2>1. ASSUME NEW s \in Shards, leases'[s] # None PROVE Dated(leases'[s])
    <3>0. leases \in [Shards -> Record] /\ ShardOf[m] \in Shards BY Reads DEF Inv, TypeOK
    <3>1. CASE leases'[s] = leases[s] BY <2>1, <3>1 DEF BeliefInv, RecordsDated
    <3>2. CASE leases'[s] # leases[s]
      <4>1. PICK rec \in Lease : Offer(m, rec) /\ leases'[s] = SavedLease(Loaded(m), rec)
        BY <2>1, <3>0, <3>2 DEF StoreBy
      <4> QED BY <4>1, OfferDated
    <3> QED BY <3>1, <3>2
  <2>2. ASSUME NEW n \in Managers
        PROVE  /\ current'[n] # None => Dated(current'[n]) /\ current'[n].node = HolderOf[n]
               /\ call'[n].obs # None => Dated(call'[n].obs)
               /\ call'[n].now <= Now(n)'
    BY DEF MoverFits, Alone, BeliefInv, RecordsDated, Now
  <2> QED BY <1>1, <2>1, <2>2 DEF RecordsDated
<1>3. ASSUME NEW n \in Managers, n # m PROVE CallShape(n)' /\ Pledged(n)'
  <2>1. call'[n] = call[n] /\ current'[n] = current[n] /\ mtoken'[n] = mtoken[n] BY <1>3 DEF Alone
  <2>2. CallShape(n)' BY <2>1 DEF BeliefInv, CallShape
  <2>3. PICK r \in Record : r = current[n] BY Reads
  <2>4. PICK q \in Record : q = call[n].obs BY Reads
  <2>5. Backing(n, r) /\ (call[n].at = "adoptCheck" => Backing(n, q))
    BY <2>3, <2>4 DEF BeliefInv, Pledged
  <2>6. Backing(n, r)' /\ (call[n].at = "adoptCheck" => Backing(n, q)')
    BY <1>3, <2>5, OthersBacked
  <2>7. Backing(n, current[n])' /\ (call'[n].at = "adoptCheck" => Backing(n, call[n].obs)')
    BY <2>1, <2>3, <2>4, <2>6 DEF Backing
  <2> QED BY <2>2, <2>7 DEF Pledged
<1> QED BY <1>2, <1>3 DEF BeliefInv, MoverFits

-----------------------------------------------------------------------------
(* The steps.                                                              *)

\* A step of m that leaves the table alone and caches nothing new.
LEMMA QuietStep ==
  ASSUME Inv, BeliefInv, Deployment, NEW m \in Managers, clock' = clock, leases' = leases, Alone(m),
         current'[m] = current[m] \/ current'[m] = None,
         call'[m].obs # None => Dated(call'[m].obs), call'[m].now <= Now(m), CallShape(m)',
         call'[m].at = "adoptCheck" => call'[m].obs = Loaded(m)
  PROVE  BeliefInv'
<1>1. StoreBy(m) BY DEF StoreBy
<1>2. current'[m] # None => Dated(current'[m]) /\ current'[m].node = HolderOf[m]
  BY DEF BeliefInv, RecordsDated
<1>3. Backing(m, current[m])'
  BY DEF BeliefInv, Pledged, Backing, Now, Loaded
<1>4. call'[m].at = "adoptCheck" => Backing(m, call[m].obs)'
  <2> SUFFICES ASSUME call'[m].at = "adoptCheck", Loaded(m) # None
               PROVE  SameLease(Loaded(m), Loaded(m)) /\ Loaded(m).expiresAt >= Loaded(m).expiresAt
    BY DEF Backing, Loaded
  <2>1. Loaded(m).expiresAt \in Nat BY Reads DEF Record, Lease
  <2> QED BY <2>1 DEF SameLease
<1>5. MoverFits(m) BY <1>2, <1>3, <1>4 DEF MoverFits, Pledged
<1> QED BY <1>1, <1>5, StepFits


\* A call goes on at another step, or ends, with the cache kept or dropped.
LEMMA EnterStep ==
  ASSUME Inv, BeliefInv, Deployment, NEW m \in Managers, clock' = clock, leases' = leases, mtoken' = mtoken,
         NEW step \in Steps, NEW rec \in Record, NEW now \in Nat, NEW epoch,
         Enter(m, step, rec, now, epoch),
         UNCHANGED current \/ Cache(m, None),
         rec # None => Dated(rec), now <= Now(m),
         step = "adoptCheck" => rec = Loaded(m),
         step \notin {"handoffNow", "handoffSave"},
         step \in {"adoptLoad", "adoptCheck", "acquireLoad", "acquireSave", "acquireRetry"} =>
           Cache(m, None) \/ current[m] = None,
         step \in {"renewLoad", "renewCheck", "renewSave"} => UNCHANGED current /\ current[m] # None,
         step \in {"renewCheck", "renewSave"} => rec # None /\ rec.node = HolderOf[m],
         step = "renewSave" => current[m].expiresAt <= now + TTL
  PROVE  BeliefInv'
<1> DEFINE c == [at |-> step, obs |-> rec, now |-> now, epoch |-> epoch]
<1>a. call \in [Managers -> Call] /\ current \in [Managers -> Record] BY DEF Inv, TypeOK
<1>1. Alone(m) /\ call'[m] = c
  BY <1>a DEF Enter, Cache, Alone
<1>2. c.at = step /\ c.obs = rec /\ c.now = now OBVIOUS
<1> HIDE DEF c
<1>3. UNCHANGED current => current'[m] = current[m] OBVIOUS
<1>4. Cache(m, None) => current'[m] = None BY <1>a DEF Cache
<1>5. mtoken'[m] = ConfigToken[m] BY DEF BeliefInv, CallShape
<1>6. CallShape(m)'
  <2>1. call'[m].at = step /\ call'[m].obs = rec /\ call'[m].now = now BY <1>1, <1>2
  <2> QED BY <1>3, <1>4, <1>5, <2>1 DEF CallShape
<1> QED BY <1>1, <1>2, <1>3, <1>4, <1>6, QuietStep

\* A call returns.
LEMMA ReturnStep ==
  ASSUME Inv, BeliefInv, Deployment, NEW m \in Managers, clock' = clock, leases' = leases, mtoken' = mtoken,
         Return(m), UNCHANGED current \/ Cache(m, None)
  PROVE  BeliefInv'
<1>1. Enter(m, "idle", None, 0, 1) BY DEF Return, Enter, Idle
<1>2. Now(m) \in Nat BY Reads
<1>3. 0 <= Now(m) BY <1>2
<1>4. "idle" \in Steps /\ None \in Record BY DEF Steps, Record
<1> QED BY <1>1, <1>3, <1>4, EnterStep

\* Ensure and the adoption's load.
LEMMA EnsureFits ==
  ASSUME Inv, BeliefInv, Deployment, NEW m \in Managers,
         EnsureAcquire(m) \/ EnsureRenew(m) \/ AdoptLoad(m)
  PROVE  BeliefInv'
<1>0. Now(m) \in Nat /\ Loaded(m) \in Record /\ None \in Record /\ 0 \in Nat BY Reads DEF Record
<1>1. 0 <= Now(m) BY <1>0
<1>2. CASE EnsureAcquire(m)
  <2>1. /\ clock' = clock /\ leases' = leases /\ mtoken' = mtoken /\ Cache(m, None)
        /\ Enter(m, "adoptLoad", None, 0, 1)
    BY <1>2 DEF EnsureAcquire, Goto, store
  <2> QED BY <1>0, <1>1, <2>1, EnterStep DEF Steps
<1>3. CASE EnsureRenew(m)
  <2>1. /\ clock' = clock /\ leases' = leases /\ mtoken' = mtoken /\ UNCHANGED current /\ current[m] # None
        /\ Enter(m, "renewLoad", None, 0, 1)
    BY <1>3 DEF EnsureRenew, Goto, store, HeldAt
  <2> QED BY <1>0, <1>1, <2>1, EnterStep DEF Steps
<1>4. CASE AdoptLoad(m)
  <2>1. /\ clock' = clock /\ leases' = leases /\ mtoken' = mtoken /\ UNCHANGED current
        /\ Enter(m, "adoptCheck", Loaded(m), 0, 1)
    BY <1>4 DEF AdoptLoad, Observe, store
  <2>2. current[m] = None BY <1>4 DEF AdoptLoad, At, BeliefInv, CallShape
  <2>3. Loaded(m) # None => Dated(Loaded(m)) BY Reads DEF BeliefInv, RecordsDated, Loaded
  <2> QED BY <1>0, <1>1, <2>1, <2>2, <2>3, EnterStep DEF Steps
<1> QED BY <1>2, <1>3, <1>4

\* The adoption caches the record it loaded only while that record is active, and the
\* store still backs it.
LEMMA AdoptFits ==
  ASSUME Inv, BeliefInv, Deployment, NEW m \in Managers, AdoptCheck(m)
  PROVE  BeliefInv'
<1>0. /\ clock' = clock /\ leases' = leases /\ mtoken' = mtoken /\ current[m] = None
      /\ call[m].at = "adoptCheck"
  BY DEF AdoptCheck, store, BeliefInv, CallShape, At
<1>1. CASE ~HeldAt(call[m].obs, Now(m))
  <2>1. UNCHANGED current /\ Enter(m, "acquireLoad", None, Now(m), 1) BY <1>1 DEF AdoptCheck
  <2>2. Now(m) \in Nat BY Reads
  <2>3. Now(m) <= Now(m) BY <2>2
  <2> QED BY <1>0, <2>1, <2>2, <2>3, EnterStep DEF Steps, Record
<1>2. CASE HeldAt(call[m].obs, Now(m)) /\ ~Adoptable(m)
  BY <1>0, <1>2, ReturnStep DEF AdoptCheck
<1>3. CASE HeldAt(call[m].obs, Now(m)) /\ Adoptable(m)
  <2>1. Cache(m, call[m].obs) /\ Return(m) BY <1>3 DEF AdoptCheck
  <2>2. Alone(m) /\ current'[m] = call[m].obs /\ call'[m] = Idle
    BY <1>0, <2>1 DEF Cache, Return, Inv, TypeOK, Alone
  <2>3. call[m].obs.node = HolderOf[m] /\ call[m].obs # None /\ Dated(call[m].obs)
    BY <1>3 DEF Adoptable, HeldAt, BeliefInv, RecordsDated
  <2>4. Backing(m, call[m].obs) BY <1>0 DEF BeliefInv, Pledged
  <2>5. Backing(m, current[m])'
    BY <1>0, <2>2, <2>4 DEF Backing, Now, Loaded
  <2>6. mtoken'[m] = ConfigToken[m] BY <1>0 DEF BeliefInv, CallShape
  <2>7. CallShape(m)' BY <2>2, <2>6 DEF CallShape, Idle
  <2>8. call'[m].obs = None /\ call'[m].now = 0 /\ call'[m].at # "adoptCheck" BY <2>2 DEF Idle
  <2>9. call'[m].now <= Now(m)
    <3>1. Now(m) \in Nat BY Reads
    <3> QED BY <2>8, <3>1
  <2>10. MoverFits(m) BY <2>2, <2>3, <2>5, <2>7, <2>8, <2>9 DEF MoverFits, Pledged
  <2>11. StoreBy(m) BY <1>0 DEF StoreBy
  <2> QED BY <1>0, <2>2, <2>10, <2>11, StepFits
<1> QED BY <1>1, <1>2, <1>3

\* A save that is accepted and cached.
LEMMA SavedFits ==
  ASSUME Inv, BeliefInv, Deployment, NEW m \in Managers, NEW rec \in Lease, Offer(m, rec),
         clock' = clock, mtoken' = mtoken, Return(m), Put(ShardOf[m], rec),
         Cache(m, SavedLease(Loaded(m), rec))
  PROVE  BeliefInv'
<1> DEFINE new == SavedLease(Loaded(m), rec)
<1>1. new \in Lease /\ Dated(new) /\ new.node = HolderOf[m] BY OfferDated
<1>2. leases' = [leases EXCEPT ![ShardOf[m]] = new] /\ StoreBy(m)
  BY DEF Put, StoreBy, Loaded
<1>3. Loaded(m)' = new BY <1>2, Reads DEF Loaded, Inv, TypeOK
<1>4. Alone(m) /\ current'[m] = new /\ call'[m] = Idle
  BY DEF Cache, Return, Inv, TypeOK, Alone
<1> HIDE DEF new
<1>5. Backing(m, current[m])'
  <2>1. new.expiresAt \in Nat BY <1>1 DEF Lease
  <2>2. SameLease(new, new) /\ new.expiresAt >= new.expiresAt /\ new # None
    BY <1>1, <2>1, NoneAssumption DEF SameLease
  <2> QED BY <1>3, <1>4, <2>2 DEF Backing, SameLease
<1>6. call'[m].obs = None /\ call'[m].now = 0 /\ call'[m].at = "idle" BY <1>4 DEF Idle
<1>7. call'[m].now <= Now(m)
  <2>1. Now(m) \in Nat BY Reads
  <2> QED BY <1>6, <2>1
<1>8. mtoken'[m] = ConfigToken[m] BY DEF BeliefInv, CallShape
<1>9. CallShape(m)' BY <1>6, <1>8 DEF CallShape
<1>10. MoverFits(m) BY <1>1, <1>4, <1>5, <1>6, <1>7, <1>9 DEF MoverFits, Pledged
<1> QED BY <1>2, <1>4, <1>10, StepFits

\* The token of a lease that is asked for is the holder's own, minted or configured.
LEMMA AskedIsOwn ==
  ASSUME Inv, BeliefInv, NEW m \in Managers
  PROVE  RequestToken(m) \in HolderTokens(HolderOf[m])
<1>1. mtoken[m] = ConfigToken[m] BY DEF BeliefInv, CallShape
<1>2. call[m].now \in Nat BY Reads
<1>3. CASE mtoken[m] = NoToken
  <2>1. RequestToken(m) = <<HolderOf[m], call[m].now>> BY <1>3 DEF RequestToken
  <2> QED BY <1>2, <2>1 DEF HolderTokens
<1>4. CASE mtoken[m] # NoToken
  <2>1. RequestToken(m) = ConfigToken[m] BY <1>1, <1>4 DEF RequestToken
  <2> QED BY <1>1, <1>4, <2>1 DEF HolderTokens
<1> QED BY <1>3, <1>4

\* AcquireLease, from its load to the accepted, retried or refused save.
LEMMA AcquireFits ==
  ASSUME Inv, BeliefInv, Deployment, NEW m \in Managers,
         AcquireLoad(m) \/ AcquireSave(m) \/ AcquireRetry(m)
  PROVE  BeliefInv'
<1>0. current[m] = None /\ call[m].now \in Nat /\ call[m].now <= Now(m) /\ None \in Record
  <2>1. call[m].at \in {"acquireLoad", "acquireSave", "acquireRetry"}
    BY DEF AcquireLoad, AcquireSave, AcquireRetry, At
  <2> QED BY <2>1, Reads DEF BeliefInv, CallShape, RecordsDated, Record
<1>1. CASE AcquireLoad(m)
  <2>1. clock' = clock /\ leases' = leases /\ mtoken' = mtoken /\ UNCHANGED current
    BY <1>1 DEF AcquireLoad, store
  <2>2. CASE Return(m) BY <2>1, <2>2, ReturnStep
  <2>3. CASE \E e : Enter(m, "acquireSave", None, call[m].now, e)
    <3>1. PICK e : Enter(m, "acquireSave", None, call[m].now, e) BY <2>3
    <3>2. "acquireSave" \in Steps BY DEF Steps
    <3> QED BY <1>0, <2>1, <3>1, <3>2, EnterStep
  <2> QED BY <1>1, <2>2, <2>3 DEF AcquireLoad
<1>2. CASE AcquireOK(m)
  <2>1. NewLease(m) \in Lease BY NewLeaseType DEF Inv
  <2>2. PICK rec \in Lease : rec = NewLease(m) BY <2>1
  <2>3. /\ rec.node = HolderOf[m] /\ rec.token = RequestToken(m)
        /\ rec.acquiredAt = call[m].now /\ rec.expiresAt = call[m].now + TTL
    BY <2>2 DEF NewLease
  <2>4. ASSUME NEW n \in Nodes
        PROVE  rec.acquiredAt <= clock + Skew[n] /\ rec.expiresAt <= clock + Skew[n] + TTL
    <3>1. Now(m) = clock + Skew[n] BY OneClock
    <3>2. Now(m) \in Nat /\ TTL \in Nat BY Reads
    <3>3. call[m].now <= Now(m) /\ call[m].now + TTL <= Now(m) + TTL BY <1>0, <3>2
    <3> QED BY <2>3, <3>1, <3>3
  <2>5. Dated(rec) BY <2>3, <2>4, AskedIsOwn DEF Dated
  <2>6. Offer(m, rec) BY <1>0, <1>2, <2>2, <2>3, <2>5 DEF Offer, AcquireOK
  <2> QED BY <1>2, <2>2, <2>6, SavedFits DEF AcquireOK
<1>3. CASE AcquireStale(m)
  <2>1. /\ clock' = clock /\ leases' = leases /\ mtoken' = mtoken /\ UNCHANGED current
        /\ Enter(m, "acquireRetry", None, call[m].now, Reported(m) + 1)
    BY <1>3 DEF AcquireStale, store
  <2>2. "acquireRetry" \in Steps BY DEF Steps
  <2> QED BY <1>0, <2>1, <2>2, EnterStep
<1>4. CASE AcquireFailed(m) \/ RetryFailed(m)
  BY <1>4, ReturnStep DEF AcquireFailed, RetryFailed, store
<1> QED BY <1>1, <1>2, <1>3, <1>4 DEF AcquireSave, AcquireRetry

\* RenewLease up to its save, with the record it loaded.
LEMMA RenewFits ==
  ASSUME Inv, BeliefInv, Deployment, NEW m \in Managers, RenewLoad(m) \/ RenewCheck(m)
  PROVE  BeliefInv'
<1>0. /\ Now(m) \in Nat /\ Loaded(m) \in Record /\ call[m].obs \in Record /\ None \in Record /\ 0 \in Nat
      /\ current[m] # None
  <2>1. call[m].at \in {"renewLoad", "renewCheck"} BY DEF RenewLoad, RenewCheck, At
  <2> QED BY <2>1, Reads DEF Record, BeliefInv, CallShape
<1>1. 0 <= Now(m) /\ Now(m) <= Now(m) BY <1>0
<1>2. clock' = clock /\ leases' = leases /\ mtoken' = mtoken BY DEF RenewLoad, RenewCheck, store
<1>3. "adoptLoad" \in Steps /\ "renewCheck" \in Steps /\ "renewSave" \in Steps BY DEF Steps
<1>4. CASE Cache(m, None) /\ Goto(m, "adoptLoad")
  <2>1. Enter(m, "adoptLoad", None, 0, 1) BY <1>4 DEF Goto
  <2> QED BY <1>0, <1>1, <1>2, <1>3, <1>4, <2>1, EnterStep
<1>5. CASE Return(m) /\ (UNCHANGED current \/ Cache(m, None)) BY <1>2, <1>5, ReturnStep
<1>6. CASE UNCHANGED current /\ Loaded(m) # None /\ Loaded(m).node = HolderOf[m] /\ Observe(m, "renewCheck")
  <2>1. Enter(m, "renewCheck", Loaded(m), 0, 1) BY <1>6 DEF Observe
  <2>2. Dated(Loaded(m)) BY <1>6, Reads DEF BeliefInv, RecordsDated, Loaded
  <2> QED BY <1>0, <1>1, <1>2, <1>3, <1>6, <2>1, <2>2, EnterStep
<1>7. CASE /\ At(m, "renewCheck") /\ UNCHANGED current
           /\ Enter(m, "renewSave", call[m].obs, Now(m), 1)
  <2>1. call[m].obs # None /\ call[m].obs.node = HolderOf[m] /\ Dated(call[m].obs)
    BY <1>7 DEF At, BeliefInv, CallShape, RecordsDated
  <2>2. current[m].expiresAt <= Now(m) + TTL
    BY <1>0, Reads DEF BeliefInv, RecordsDated, Dated, Now
  <2> QED BY <1>0, <1>1, <1>2, <1>3, <1>7, <2>1, <2>2, EnterStep
<1> QED BY <1>4, <1>5, <1>6, <1>7 DEF RenewLoad, RenewCheck

\* The renewal's save.  When its reply is lost the cache keeps the old expiry, which the
\* stored one has passed; were another generation stored, a still active cache would
\* make the store refuse the save.
LEMMA RenewSaveFits ==
  ASSUME Inv, BeliefInv, Deployment, NEW m \in Managers, RenewSave(m)
  PROVE  BeliefInv'
<1>0. /\ call[m].at = "renewSave" /\ clock' = clock /\ mtoken' = mtoken /\ Return(m)
      /\ current[m] # None /\ call[m].obs # None /\ call[m].obs.node = HolderOf[m]
      /\ current[m].expiresAt <= call[m].now + TTL
  BY DEF RenewSave, At, BeliefInv, CallShape
<1>1. CASE SaveOutcome(m, RenewedLease(m)) # "ok"
  BY <1>0, <1>1, ReturnStep DEF RenewSave, store
<1>2. CASE SaveOutcome(m, RenewedLease(m)) = "ok"
  <2>1. call[m].obs \in Lease /\ call[m].now \in Nat /\ call[m].now <= Now(m) /\ Dated(call[m].obs)
        /\ Now(m) \in Nat /\ TTL \in Nat /\ current[m] \in Lease
    BY <1>0, Reads DEF Record, BeliefInv, RecordsDated
  <2>2. PICK rec \in Lease : rec = RenewedLease(m) BY <1>0, RenewedLeaseType
  <2>3. /\ rec.node = HolderOf[m] /\ rec.token = call[m].obs.token
        /\ rec.acquiredAt = call[m].obs.acquiredAt /\ rec.expiresAt = call[m].now + TTL
    BY <1>0, <2>1, <2>2 DEF RenewedLease, Lease
  <2>4. ASSUME NEW n \in Nodes
        PROVE  rec.acquiredAt <= clock + Skew[n] /\ rec.expiresAt <= clock + Skew[n] + TTL
    <3>1. Now(m) = clock + Skew[n] BY OneClock
    <3>2. call[m].now + TTL <= Now(m) + TTL BY <2>1
    <3> QED BY <2>1, <2>3, <3>1, <3>2 DEF Dated
  <2>5. Dated(rec) BY <1>0, <2>1, <2>3, <2>4 DEF Dated
  <2>6. rec.acquiredAt <= Now(m) BY <2>4, Reads DEF Now
  <2>7. Offer(m, rec) BY <1>2, <2>2, <2>3, <2>5, <2>6 DEF Offer
  <2>8. Put(ShardOf[m], rec) /\ (Cache(m, SavedLease(Loaded(m), rec)) \/ UNCHANGED current)
    BY <1>2, <2>2 DEF RenewSave
  <2>9. CASE Cache(m, SavedLease(Loaded(m), rec)) BY <1>0, <2>7, <2>8, <2>9, SavedFits
  <2>10. CASE UNCHANGED current
    <3> DEFINE new == SavedLease(Loaded(m), rec)
    <3>1. /\ new \in Lease /\ Dated(new) /\ new.node = HolderOf[m]
          /\ SameLease(new, rec) /\ new.expiresAt = rec.expiresAt
      BY <2>7, OfferDated
    <3>2. leases' = [leases EXCEPT ![ShardOf[m]] = new] /\ StoreBy(m)
      BY <2>7, <2>8 DEF Put, StoreBy, Loaded
    <3>3. Loaded(m)' = new BY <3>2, Reads DEF Loaded, Inv, TypeOK
    <3> HIDE DEF new
    <3>4. Alone(m) /\ current'[m] = current[m] /\ call'[m] = Idle
      BY <1>0, <2>10 DEF Return, Inv, TypeOK, Alone
    <3>5. Backing(m, current[m])'
      <4> SUFFICES ASSUME ActiveAt(current[m], Now(m))
                   PROVE  new # None /\ SameLease(new, current[m]) /\ new.expiresAt >= current[m].expiresAt
        BY <1>0, <3>3, <3>4 DEF Backing, Now
      <4>1. /\ Loaded(m) # None /\ SameLease(Loaded(m), current[m])
            /\ Loaded(m).expiresAt >= current[m].expiresAt
        BY <1>0 DEF BeliefInv, RecordsDated, Pledged, Backing
      <4>2. Loaded(m) \in Lease BY <4>1, Reads DEF Record
      <4>3. ActiveAt(Loaded(m), rec.acquiredAt)
        <5>1. /\ Loaded(m).expiresAt \in Nat /\ rec.acquiredAt \in Nat /\ current[m].expiresAt \in Nat
              /\ Now(m) < current[m].expiresAt
          BY <2>1, <4>2 DEF Lease, ActiveAt
        <5>2. rec.acquiredAt < Loaded(m).expiresAt BY <2>1, <2>6, <4>1, <5>1
        <5> QED BY <5>2 DEF ActiveAt
      <4>4. SameLease(Loaded(m), rec)
        <5> SUFFICES ASSUME ~SameLease(Loaded(m), rec) PROVE FALSE OBVIOUS
        <5>1. SaveLeaseOutcome(Loaded(m), leaseLast[ShardOf[m]], rec) = "ok"
          BY <1>2, <2>2 DEF SaveOutcome
        <5> QED BY <4>2, <4>3, <5>1, SaveDenied
      <4>5. SameLease(new, current[m]) BY <3>1, <4>1, <4>4 DEF SameLease
      <4>6. new.expiresAt \in Nat /\ current[m].expiresAt \in Nat BY <2>1, <3>1 DEF Lease
      <4>7. new.expiresAt >= current[m].expiresAt BY <1>0, <2>1, <2>3, <3>1, <4>6
      <4> QED BY <3>1, <4>5, <4>7, NoneAssumption
    <3>6. call'[m].obs = None /\ call'[m].now = 0 /\ call'[m].at = "idle" BY <3>4 DEF Idle
    <3>7. call'[m].now <= Now(m) BY <2>1, <3>6
    <3>8. mtoken'[m] = ConfigToken[m] BY <1>0 DEF BeliefInv, CallShape
    <3>9. CallShape(m)' BY <3>6, <3>8 DEF CallShape
    <3>10. current'[m] # None => Dated(current'[m]) /\ current'[m].node = HolderOf[m]
      BY <3>4 DEF BeliefInv, RecordsDated
    <3>11. MoverFits(m) BY <3>5, <3>6, <3>7, <3>9, <3>10 DEF MoverFits, Pledged
    <3> QED BY <1>0, <3>2, <3>4, <3>11, StepFits
  <2> QED BY <2>8, <2>9, <2>10
<1> QED BY <1>1, <1>2

\* A release removes a record with the manager's own token; a restart forgets the cache.
LEMMA LeaveFits ==
  ASSUME Inv, BeliefInv, Deployment, NEW m \in Managers, Release(m) \/ Restart(m)
  PROVE  BeliefInv'
<1>1. CASE Release(m)
  <2>1. /\ clock' = clock /\ mtoken' = mtoken /\ call' = call /\ call[m].at = "idle" /\ current[m] # None
        /\ leases' = [leases EXCEPT ![ShardOf[m]] = None] /\ Cache(m, None)
        /\ Loaded(m) # None /\ Loaded(m).token = current[m].token
    BY <1>1 DEF Release, At, ReleaseOK
  <2>2. Loaded(m).token \in HolderTokens(HolderOf[m])
    BY <2>1 DEF BeliefInv, RecordsDated, Dated
  <2>3. StoreBy(m) BY <2>1, <2>2 DEF StoreBy
  <2>4. Alone(m) /\ current'[m] = None /\ call'[m] = call[m]
    BY <2>1 DEF Cache, Inv, TypeOK, Alone
  <2>5. CallShape(m)' BY <2>1, <2>4 DEF BeliefInv, CallShape
  <2>6. Pledged(m)' BY <2>1, <2>4 DEF Pledged, Backing
  <2>7. MoverFits(m) BY <2>4, <2>5, <2>6 DEF MoverFits, BeliefInv, RecordsDated
  <2> QED BY <2>1, <2>3, <2>4, <2>7, StepFits
<1>2. CASE Restart(m)
  <2>1. mtoken' = mtoken
    <3>1. mtoken[m] = ConfigToken[m] BY DEF BeliefInv, CallShape
    <3> QED BY <1>2, <3>1 DEF Restart, Inv, TypeOK
  <2> QED BY <1>2, <2>1, ReturnStep DEF Restart, store
<1> QED BY <1>1, <1>2

\* Time only weakens what is claimed of a record.
LEMMA TickFits ==
  ASSUME Inv, BeliefInv, Tick
  PROVE  BeliefInv'
<1>0. /\ clock \in Nat /\ clock' = clock + 1 /\ Skew \in [Nodes -> Nat] /\ TTL \in Nat
      /\ leases' = leases /\ current' = current /\ mtoken' = mtoken /\ call' = call
  BY TimeAssumption DEF Tick, store, Inv, TypeOK
<1>1. ASSUME NEW rec \in Lease, Dated(rec) PROVE Dated(rec)'
  <2>1. rec.acquiredAt \in Nat /\ rec.expiresAt \in Nat BY DEF Lease
  <2>2. ASSUME NEW n \in Nodes
        PROVE  rec.acquiredAt <= clock' + Skew[n] /\ rec.expiresAt <= clock' + Skew[n] + TTL
    <3>1. rec.acquiredAt <= clock + Skew[n] /\ rec.expiresAt <= clock + Skew[n] + TTL BY <1>1 DEF Dated
    <3> QED BY <1>0, <2>1, <3>1
  <2> QED BY <1>1, <2>2 DEF Dated
<1>2. ASSUME NEW m \in Managers PROVE Now(m)' = Now(m) + 1 /\ Now(m) \in Nat
  BY <1>0, ManagerAssumption DEF Now
<1>3. RecordsDated'
  <2>1. ASSUME NEW s \in Shards, leases[s] # None PROVE Dated(leases[s])'
    <3>1. PICK r \in Lease : r = leases[s] BY <2>1 DEF Inv, TypeOK, Record
    <3>2. Dated(r)' BY <1>1, <2>1, <3>1 DEF BeliefInv, RecordsDated
    <3> QED BY <1>0, <3>1, <3>2 DEF Dated
  <2>2. ASSUME NEW m \in Managers, current[m] # None PROVE Dated(current[m])' /\ current[m].node = HolderOf[m]
    <3>1. PICK r \in Lease : r = current[m] BY <2>2, Reads DEF Record
    <3>2. Dated(r)' BY <1>1, <2>2, <3>1 DEF BeliefInv, RecordsDated
    <3> QED BY <1>0, <2>2, <3>1, <3>2 DEF Dated, BeliefInv, RecordsDated
  <2>3. ASSUME NEW m \in Managers, call[m].obs # None PROVE Dated(call[m].obs)'
    <3>1. PICK r \in Lease : r = call[m].obs BY <2>3, Reads DEF Record
    <3>2. Dated(r)' BY <1>1, <2>3, <3>1 DEF BeliefInv, RecordsDated
    <3> QED BY <1>0, <3>1, <3>2 DEF Dated
  <2>4. ASSUME NEW m \in Managers PROVE call[m].now <= Now(m)'
    <3>1. call[m].now \in Nat /\ call[m].now <= Now(m) BY Reads DEF BeliefInv, RecordsDated
    <3> QED BY <1>2, <3>1
  <2> QED BY <1>0, <2>1, <2>2, <2>3, <2>4 DEF RecordsDated
<1>4. ASSUME NEW m \in Managers PROVE CallShape(m)' BY <1>0 DEF BeliefInv, CallShape
<1>5. ASSUME NEW m \in Managers, NEW r \in Record, Backing(m, r) PROVE Backing(m, r)'
  <2> SUFFICES ASSUME r # None, r.node = HolderOf[m], ActiveAt(r, Now(m)') PROVE ActiveAt(r, Now(m))
    BY <1>0, <1>5 DEF Backing, Loaded
  <2>1. r.expiresAt \in Nat BY DEF Record, Lease
  <2> QED BY <1>2, <2>1 DEF ActiveAt
<1>6. ASSUME NEW m \in Managers PROVE Pledged(m)'
  <2>1. PICK r \in Record : r = current[m] BY Reads
  <2>2. PICK q \in Record : q = call[m].obs BY Reads
  <2>3. Backing(m, r)' /\ (call[m].at = "adoptCheck" => Backing(m, q)')
    BY <1>5, <2>1, <2>2 DEF BeliefInv, Pledged
  <2> QED BY <1>0, <2>1, <2>2, <2>3 DEF Pledged, Backing
<1> QED BY <1>3, <1>4, <1>6 DEF BeliefInv

-----------------------------------------------------------------------------
(* The theorems.                                                           *)

\* Nothing is cached, stored or under way at first.
LEMMA BeliefInit == ASSUME Init PROVE BeliefInv
<1>1. Inv BY InvInit
<1>2. \A m \in Managers : call[m] = Idle /\ current[m] = None /\ mtoken[m] = ConfigToken[m] BY DEF Init
<1>3. \A m \in Managers : CallShape(m) /\ Pledged(m)
  BY <1>2 DEF CallShape, Pledged, Backing, Idle
<1>4. \A m \in Managers : call[m].now <= Now(m)
  <2> SUFFICES ASSUME NEW m \in Managers PROVE 0 <= Now(m) BY <1>2 DEF Idle
  <2>1. Now(m) \in Nat BY <1>1, Reads
  <2> QED BY <2>1
<1>5. RecordsDated BY <1>2, <1>4 DEF RecordsDated, Init, Idle
<1> QED BY <1>3, <1>5 DEF BeliefInv

\* Every step without a handoff keeps the invariant.
LEMMA BeliefStep ==
  ASSUME Deployment, Inv, BeliefInv, [NextNoHandoff]_vars
  PROVE  BeliefInv'
<1>1. CASE UNCHANGED vars
  <2>1. /\ clock' = clock /\ leases' = leases /\ current' = current /\ mtoken' = mtoken /\ call' = call
    BY <1>1 DEF vars
  <2> QED BY <2>1 DEF BeliefInv, RecordsDated, Dated, CallShape, Pledged, Backing, Now, Loaded
<1>2. CASE Tick BY <1>2, TickFits
<1>3. ASSUME NEW m \in Managers, ManagerStep(m) \/ Release(m) \/ Restart(m) PROVE BeliefInv'
  BY <1>3, EnsureFits, AdoptFits, AcquireFits, RenewFits, RenewSaveFits, LeaveFits DEF ManagerStep
<1> QED BY <1>1, <1>2, <1>3 DEF NextNoHandoff

\* A deployment without handoffs takes steps of the protocol only.
LEMMA BeliefInvariance ==
  ASSUME Deployment
  PROVE  SpecNoHandoff => [](Inv /\ BeliefInv)
<1>1. Init => Inv /\ BeliefInv BY InvInit, BeliefInit
<1>2. [NextNoHandoff]_vars => [Next]_vars BY DEF NextNoHandoff, Next
<1>3. Inv /\ BeliefInv /\ [NextNoHandoff]_vars => (Inv /\ BeliefInv)'
  BY <1>2, InvStep, BeliefStep
<1> QED BY <1>1, <1>3, PTL DEF SpecNoHandoff

\* With equal clocks, one manager per node and shard, and tokens of their own, a lease a
\* manager's Ensure still takes for active is the one in the store, whatever saves of
\* others, lost renewal replies, restarts and releases come between its load and its use.
THEOREM BeliefIsBacked ==
  ASSUME Deployment
  PROVE  SpecNoHandoff => []BeliefBacked
<1>1. ASSUME Inv, BeliefInv PROVE BeliefBacked
  BY <1>1 DEF BeliefInv, RecordsDated, Pledged, Backing, BeliefBacked, Believes, HeldAt
<1> QED BY <1>1, BeliefInvariance, PTL

\* So two nodes never both take themselves for the owner of a shard.
THEOREM OneBeliever ==
  ASSUME Deployment
  PROVE  SpecNoHandoff => []BeliefExclusive
<1>1. ASSUME Inv, BeliefInv PROVE BeliefExclusive
  <2> SUFFICES ASSUME NEW m \in Managers, NEW n \in Managers, ShardOf[m] = ShardOf[n],
                      HolderOf[m] # HolderOf[n], Believes(m), Believes(n)
               PROVE  FALSE
    BY DEF BeliefExclusive
  <2>1. BeliefBacked
    BY <1>1 DEF BeliefInv, RecordsDated, Pledged, Backing, BeliefBacked, Believes, HeldAt
  <2>2. SameLease(Loaded(m), current[m]) /\ SameLease(Loaded(n), current[n]) /\ Loaded(m) = Loaded(n)
    BY <2>1 DEF BeliefBacked, Loaded
  <2>3. current[m].node = HolderOf[m] /\ current[n].node = HolderOf[n]
    BY <1>1 DEF BeliefInv, RecordsDated, Believes, HeldAt
  <2> QED BY <2>2, <2>3 DEF SameLease
<1> QED BY <1>1, BeliefInvariance, PTL
=============================================================================
