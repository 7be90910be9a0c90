-------------------------- MODULE RebalanceControl --------------------------
(***************************************************************************)
(* Moving documents between nodes: StorageOwnerLookup, the claim, promote, *)
(* handoff and rebalance calls of StorageOwnershipCoordinator, the planner *)
(* and the periodic RebalanceController with its health-filtered targets.  *)
(* Every call is a chain of store calls, and other calls run between any   *)
(* two of them.  A store call may fail, and a call's context may end: then *)
(* every later store call of it fails too, the undoing ones included.      *)
(* Acquiring a lease is one step here; LeaseProtocol has its inside.       *)
(***************************************************************************)
EXTENDS LeaseStore, Sequences, FiniteSets

CONSTANTS
  Docs,
  Rank,              \* the order of the node ids, and of the placement store's listing
  Shards, ShardOf,   \* DeterministicShardResolver
  Users, UserNode,   \* goroutines that call the coordinator of their node
  Ctl, CtlNode,      \* the controller's goroutine and its node
  FirstSeen,         \* when each node was seen last at the start, or None for never
  Reports,           \* what is published of a node: state, required labels, LastSeen set
  TTL, MaxStaleness, IncludeDraining, MaxMoves, PromoteIfOwnerMissing,
  MaxClock, MaxEpoch, MaxEvents   \* bounds

Procs == Users \cup {Ctl}

ASSUME ControlAssumption ==
  /\ Rank \in [Nodes \cup Docs -> Nat] /\ ShardOf \in [Docs -> Shards]
  /\ UserNode \in [Users -> Nodes] /\ Ctl \notin Users /\ CtlNode \in Nodes
  /\ TTL \in Nat \ {0} /\ MaxStaleness \in Nat /\ MaxMoves \in Nat
  /\ {IncludeDraining, PromoteIfOwnerMissing} \subseteq BOOLEAN
  /\ FirstSeen \in [Nodes -> {None, 0, 1}]

VARIABLES
  clock,
  placed,    \* documents with a placement record
  leases,    \* the lease table
  gens,      \* last epoch, per shard
  health,    \* NodeHealth records: state, required labels, and when last seen
  call,      \* the coordinator call under way in each goroutine
  ctl,       \* the controller's cycle
  holders,   \* history: the node each epoch of a shard was granted to
  report,    \* history: what a rebalance just told its caller, or None
  events     \* user calls, faults and health records so far

vars == <<clock, placed, leases, gens, health, call, ctl, holders, report, events>>
store == <<placed, leases, gens, holders>>

\* One coordinator call: where it is, what it was asked for, the lease its
\* lookup saw, whether it acquired the lease itself, whether its context lives.
Idle == [at |-> "idle", kind |-> "none", doc |-> None, target |-> None,
         promote |-> FALSE, seen |-> None, acquired |-> FALSE, live |-> TRUE]

\* A plan under construction: the load of each target, the documents counted
\* there that may still be moved, and the moves.
EmptyPlan(targets) ==
  [loads |-> [n \in targets |-> 0], owned |-> [n \in targets |-> {}], moves |-> <<>>]

\* A cycle: the listed documents not planned yet, the targets, the plan, the
\* move that is next, and whether a move failed.
Waiting == [at |-> "waiting", docs |-> {}, targets |-> {}, plan |-> EmptyPlan({}),
            next |-> 1, failed |-> FALSE]

\* Time starts at 1: a record may have been seen before, or never (LastSeen zero).
Init ==
  /\ clock = 1
  /\ \E owner \in [Docs -> Nodes \cup {None}] :
       /\ placed = {d \in Docs : owner[d] # None}
       /\ leases = [s \in Shards |->
            IF \E d \in placed : ShardOf[d] = s
              THEN LET n == owner[CHOOSE d \in placed : ShardOf[d] = s]
                   IN [node |-> n, epoch |-> 1, token |-> <<n, 0>>,
                       acquiredAt |-> 1, expiresAt |-> 1 + TTL]
              ELSE None]
  /\ gens = [s \in Shards |-> IF leases[s] = None THEN 0 ELSE 1]
  /\ holders = [s \in Shards |-> IF leases[s] = None THEN <<>> ELSE <<leases[s].node>>]
  /\ health = [n \in Nodes |-> [state |-> "ready", labelled |-> TRUE, lastSeen |-> FirstSeen[n]]]
  /\ call = [p \in Procs |-> Idle]
  /\ ctl = Waiting
  /\ report = None
  /\ events = 0

-----------------------------------------------------------------------------
(* Health-filtered targets.                                                *)

AcceptsState(state) == state = "ready" \/ (state = "draining" /\ IncludeDraining)

\* A node that was never seen is stale, as is one seen too long ago.
IsStale(h) ==
  MaxStaleness > 0 /\ (h.lastSeen = None \/ clock - h.lastSeen > MaxStaleness)

\* HealthyRebalanceTargetSource.RebalanceTargets; who uses it goes by Rank.
RebalanceTargets ==
  {n \in Nodes : AcceptsState(health[n].state) /\ ~IsStale(health[n]) /\ health[n].labelled}

-----------------------------------------------------------------------------
(* PlanDocumentRebalance: a pass over the documents, then load shedding.   *)

LimitReached(moves) == MaxMoves > 0 /\ Len(moves) >= MaxMoves

First(S) == CHOOSE x \in S : \A y \in S : Rank[x] <= Rank[y]

\* The first target with the smallest, and with the largest, load.
LeastLoadedTarget(targets, loads) ==
  First({n \in targets : \A m \in targets : loads[n] <= loads[m]})

MostLoadedTarget(targets, loads) ==
  First({n \in targets : \A m \in targets : loads[n] >= loads[m]})

\* A document that needs an owner goes to the least loaded target.
Assign(plan, targets, d, from) ==
  LET to == LeastLoadedTarget(targets, plan.loads)
  IN [plan EXCEPT !.loads[to] = @ + 1,
                  !.moves = Append(@, [doc |-> d, from |-> from, to |-> to])]

\* The pass over the documents: missing owners and owners outside the targets
\* are moved, within the limit; the others are counted where they are.  `owner`
\* is what the lookup returned: a node, None (missing or expired), or "error".
PlanDocument(plan, targets, d, owner) ==
  IF owner \in targets
    THEN [plan EXCEPT !.loads[owner] = @ + 1, !.owned[owner] = @ \cup {d}]
  ELSE IF \/ owner = "error" \/ LimitReached(plan.moves)
          \/ owner = None /\ ~PromoteIfOwnerMissing
    THEN plan
  ELSE Assign(plan, targets, d, owner)

\* Fault: a difference of two is left alone.
TwoApart(plan, targets) ==
  LET from == MostLoadedTarget(targets, plan.loads)
      to   == LeastLoadedTarget(targets, plan.loads)
  IN plan.loads[from] - plan.loads[to] > 2 /\ plan.owned[from] # {}

\* The loads of the most and the least loaded target differ by more than one,
\* and the most loaded has a document to give.
Uneven(plan, targets) ==
  LET from == MostLoadedTarget(targets, plan.loads)
      to   == LeastLoadedTarget(targets, plan.loads)
  IN plan.loads[from] - plan.loads[to] > 1 /\ plan.owned[from] # {}

CanShed(plan, targets) == ~LimitReached(plan.moves) /\ Uneven(plan, targets)

\* One round of load shedding: the first document not moved yet.
Shed(plan, targets) ==
  LET from == MostLoadedTarget(targets, plan.loads)
      to   == LeastLoadedTarget(targets, plan.loads)
      d    == First(plan.owned[from])
  IN [plan EXCEPT !.loads[from] = @ - 1, !.loads[to] = @ + 1,
                  !.owned[from] = @ \ {d},
                  !.moves = Append(@, [doc |-> d, from |-> from, to |-> to])]

-----------------------------------------------------------------------------
(* Calls.                                                                  *)

NodeOf(p) == IF p = Ctl THEN CtlNode ELSE UserNode[p]

Shard(p) == ShardOf[call[p].doc]

At(p, step) == call[p].at = step

Goto(p, step) == call' = [call EXCEPT ![p].at = step]

\* The lease a claim or a handoff by `p` asks for, with a minted token.
NewLease(p) ==
  [node |-> call[p].target, epoch |-> gens[Shard(p)] + 1,
   token |-> <<call[p].target, clock>>, acquiredAt |-> clock, expiresAt |-> clock + TTL]

Grant(s, rec) ==
  /\ leases' = [leases EXCEPT ![s] = rec]
  /\ gens' = [gens EXCEPT ![s] = rec.epoch]
  /\ holders' = [holders EXCEPT ![s] = Append(@, rec.node)]

\* A call returns.  What it told its caller is kept; the controller goes on
\* with its next move and remembers an error.
Return(p, ok, told) ==
  /\ call' = [call EXCEPT ![p] = Idle]
  /\ report' = IF ok THEN told ELSE None
  /\ ctl' = IF p = Ctl THEN [ctl EXCEPT !.next = @ + 1, !.failed = @ \/ ~ok] ELSE ctl

Keep(p) == UNCHANGED <<ctl, report>>

\* Fault: an expired lease still names the owner.
FoundStored(p) == leases[Shard(p)]

\* What LookupOwner returns: the stored lease while it is active.
Found(p) == IF HeldAt(leases[Shard(p)], clock) THEN leases[Shard(p)] ELSE None

\* The plan's lookup of its next document returned.
Planned(owner) ==
  /\ ctl' = [ctl EXCEPT !.docs = @ \ {call[Ctl].doc},
       !.plan = PlanDocument(@, ctl.targets, call[Ctl].doc, owner)]
  /\ call' = [call EXCEPT ![Ctl] = Idle]
  /\ UNCHANGED report

\* The lookup is over: what the caller does with the lease or None it returns.
\* A plan notes it.  A rebalance promotes a missing owner if it may, is done if
\* the target is the owner, and else hands the lease off.  A promotion gives up
\* on an owner other than its own node.
Resolved(p, lease) ==
  LET kind == call[p].kind
  IN \/ /\ kind = "plan"
        /\ Planned(IF lease = None THEN None ELSE lease.node)
     \/ /\ kind = "rebalance" /\ lease = None /\ ~call[p].promote
        /\ Return(p, FALSE, None)
     \/ /\ kind = "rebalance" /\ lease = None /\ call[p].promote
        /\ call' = [call EXCEPT ![p].kind = "promote", ![p].at = "placement"]
        /\ Keep(p)
     \/ /\ kind = "rebalance" /\ lease # None /\ lease.node = call[p].target
        /\ Return(p, TRUE, None)
     \/ /\ kind = "rebalance" /\ lease # None /\ lease.node # call[p].target
        /\ call' = [call EXCEPT ![p].at = "handoff", ![p].seen = lease]
        /\ Keep(p)
     \/ /\ kind = "promote" /\ lease # None /\ lease.node # NodeOf(p)
        /\ Return(p, FALSE, None)
     \/ /\ kind = "promote" /\ (lease # None => lease.node = NodeOf(p))
        /\ Goto(p, "version") /\ Keep(p)

\* LookupOwner's first read.
LoadPlacement(p) ==
  /\ At(p, "placement")
  /\ IF call[p].doc \in placed THEN Goto(p, "lease") /\ Keep(p) ELSE Resolved(p, None)
  /\ UNCHANGED <<clock, store, health, events>>

\* LookupOwner's second read, and the expiry check.
LoadLease(p) ==
  /\ At(p, "lease")
  /\ Resolved(p, Found(p))
  /\ UNCHANGED <<clock, store, health, events>>

\* ClaimDocument: resolvePlacementVersion reads the placement.
ResolvePlacementVersion(p) ==
  /\ At(p, "version")
  /\ Goto(p, "acquire") /\ Keep(p)
  /\ UNCHANGED <<clock, store, health, events>>

\* acquireAction: adopt the holder's active lease, give up on another's.
Acquire(p) ==
  LET cur == leases[Shard(p)]
  IN /\ At(p, "acquire")
     /\ \/ /\ HeldAt(cur, clock) /\ cur.node # call[p].target
           /\ Return(p, FALSE, None)
           /\ UNCHANGED store
        \/ /\ HeldAt(cur, clock) /\ cur.node = call[p].target
           /\ call' = [call EXCEPT ![p].at = "save", ![p].seen = cur]
           /\ Keep(p)
           /\ UNCHANGED store
        \/ /\ ~HeldAt(cur, clock) /\ gens[Shard(p)] < MaxEpoch
           /\ Grant(Shard(p), NewLease(p))
           /\ call' = [call EXCEPT ![p].at = "save", ![p].seen = NewLease(p), ![p].acquired = TRUE]
           /\ Keep(p)
           /\ UNCHANGED placed
     /\ UNCHANGED <<clock, health, events>>

\* What a claim that was part of a rebalance reports: PromotedFromLost.
Promoted(p) ==
  IF call[p].kind = "promote" /\ call[p].promote
    THEN [doc |-> call[p].doc, from |-> None, to |-> call[p].target, epoch |-> call[p].seen.epoch]
    ELSE None

SavePlacement(p) ==
  /\ At(p, "save")
  /\ placed' = placed \cup {call[p].doc}
  /\ Return(p, TRUE, Promoted(p))
  /\ UNCHANGED <<clock, leases, gens, holders, health, events>>

\* The placement was not saved: a lease the claim acquired is given back.
Undo(p) ==
  LET cur == leases[Shard(p)]
  IN /\ At(p, "undo")
     /\ IF ReleaseOK(cur, call[p].seen.token)
          THEN /\ leases' = [leases EXCEPT ![Shard(p)] = None]
               /\ UNCHANGED <<placed, gens, holders>>
          ELSE UNCHANGED store
     /\ Return(p, FALSE, None)
     /\ UNCHANGED <<clock, health, events>>

\* What the call hands off to is what the lookup saw, perhaps no longer stored.
HandoffRecord(p) ==
  [NewLease(p) EXCEPT !.epoch = call[p].seen.epoch + 1]

HandoffDocument(p) ==
  LET s == Shard(p)
      outcome == HandoffOutcome(leases[s], gens[s], call[p].seen.token, HandoffRecord(p))
      moved == [doc |-> call[p].doc, from |-> call[p].seen.node,
                to |-> call[p].target, epoch |-> call[p].seen.epoch + 1]
  IN /\ At(p, "handoff")
     /\ IF ActiveAt(call[p].seen, clock) /\ outcome = "ok"
          THEN /\ call[p].seen.epoch < MaxEpoch
               /\ Grant(s, HandoffRecord(p))
               /\ Return(p, TRUE, moved)
          ELSE UNCHANGED <<leases, gens, holders>> /\ Return(p, FALSE, None)
     /\ UNCHANGED <<clock, placed, health, events>>

\* A store call fails, or the call's context ends before it.
FaultyStep(p) ==
  /\ ~At(p, "idle")
  /\ \/ /\ call[p].live /\ events < MaxEvents
        /\ events' = events + 1
     \/ ~call[p].live /\ UNCHANGED events
  /\ \E live \in {FALSE, call[p].live} :
       IF At(p, "save") /\ call[p].acquired
         THEN call' = [call EXCEPT ![p].at = "undo", ![p].live = live] /\ Keep(p)
       ELSE IF call[p].kind = "plan"
         THEN Planned("error")
       ELSE Return(p, FALSE, None)
  /\ UNCHANGED <<clock, store, health>>

-----------------------------------------------------------------------------
(* Callers.                                                                *)

Start(p, kind, d, target, promote) ==
  /\ call' = [call EXCEPT ![p] = [Idle EXCEPT
       !.at = IF kind = "claim" THEN "version" ELSE "placement",
       !.kind = kind, !.doc = d, !.target = target, !.promote = promote]]
  /\ report' = None

\* Another goroutine claims or promotes a document for its own node, or moves
\* it to any node.
UserCall(u) ==
  /\ At(u, "idle") /\ events < MaxEvents
  /\ events' = events + 1
  /\ \E d \in Docs :
       \/ \E kind \in {"claim", "promote"} : Start(u, kind, d, UserNode[u], FALSE)
       \/ \E n \in Nodes : Start(u, "rebalance", d, n, TRUE)
  /\ UNCHANGED <<clock, store, health, ctl>>

\* RunOnce lists the documents of the placement store ...
ListDocuments ==
  /\ ctl.at = "waiting"
  /\ ctl' = [Waiting EXCEPT !.at = "listing", !.docs = placed]
  /\ UNCHANGED <<clock, store, health, call, report, events>>

\* ... and then the targets; that none is healthy is an error, and Run ends with
\* the first error.
ListTargets ==
  /\ ctl.at = "listing"
  /\ ctl' = IF RebalanceTargets = {} THEN [Waiting EXCEPT !.at = "stopped"]
            ELSE [ctl EXCEPT !.at = "planning", !.targets = RebalanceTargets,
                    !.plan = EmptyPlan(RebalanceTargets)]
  /\ UNCHANGED <<clock, store, health, call, report, events>>

\* Either list cannot be read, or a health record is invalid.
ListFails ==
  /\ ctl.at \in {"waiting", "listing"} /\ events < MaxEvents
  /\ events' = events + 1
  /\ ctl' = [Waiting EXCEPT !.at = "stopped"]
  /\ UNCHANGED <<clock, store, health, call, report>>

PlanLookup ==
  /\ ctl.at = "planning" /\ At(Ctl, "idle") /\ ctl.docs # {}
  /\ Start(Ctl, "plan", First(ctl.docs), None, FALSE)
  /\ UNCHANGED <<clock, store, health, ctl, events>>

PlanShed ==
  /\ ctl.at = "planning" /\ At(Ctl, "idle") /\ ctl.docs = {}
  /\ IF CanShed(ctl.plan, ctl.targets)
       THEN ctl' = [ctl EXCEPT !.plan = Shed(@, ctl.targets)]
       ELSE ctl' = [ctl EXCEPT !.at = "executing"]
  /\ UNCHANGED <<clock, store, health, call, report, events>>

\* ExecuteRebalancePlan: one move after the other, whatever became of the last.
ExecuteMove ==
  /\ ctl.at = "executing" /\ At(Ctl, "idle") /\ ctl.next <= Len(ctl.plan.moves)
  /\ LET move == ctl.plan.moves[ctl.next]
     IN Start(Ctl, "rebalance", move.doc, move.to, move.from = None)
  /\ UNCHANGED <<clock, store, health, ctl, events>>

EndCycle ==
  /\ ctl.at = "executing" /\ At(Ctl, "idle") /\ ctl.next > Len(ctl.plan.moves)
  /\ ctl' = [Waiting EXCEPT !.at = IF ctl.failed THEN "stopped" ELSE "waiting"]
  /\ report' = None
  /\ UNCHANGED <<clock, store, health, call, events>>

\* A node's health record is written: external to the code.
Publish(n, r) ==
  /\ events < MaxEvents
  /\ events' = events + 1
  /\ health' = [health EXCEPT ![n] = [state |-> r.state, labelled |-> r.labelled,
                                      lastSeen |-> IF r.seen THEN clock ELSE None]]
  /\ health' # health
  /\ UNCHANGED <<clock, store, call, ctl, report>>

Tick ==
  /\ clock < MaxClock
  /\ clock' = clock + 1
  /\ UNCHANGED <<store, health, call, ctl, report, events>>

-----------------------------------------------------------------------------
CallStep(p) ==
  /\ call[p].live
  /\ \/ LoadPlacement(p) \/ LoadLease(p) \/ ResolvePlacementVersion(p)
     \/ Acquire(p) \/ SavePlacement(p) \/ Undo(p) \/ HandoffDocument(p)

Cycle == ListDocuments \/ ListTargets \/ PlanLookup \/ PlanShed \/ ExecuteMove \/ EndCycle

Next ==
  \/ Cycle \/ ListFails
  \/ \E p \in Procs : CallStep(p) \/ FaultyStep(p)
  \/ \E u \in Users : UserCall(u)
  \/ \E n \in Nodes, r \in Reports : Publish(n, r)
  \/ Tick

\* The ticker fires again and a call under way goes on: goroutines that can run
\* are run.  Nothing is assumed of users starting calls, faults, or time.
Fairness ==
  /\ WF_vars(Cycle)
  /\ \A p \in Procs : WF_vars(CallStep(p)) /\ WF_vars(FaultyStep(p) /\ ~call[p].live)

Spec == Init /\ [][Next]_vars /\ Fairness

-----------------------------------------------------------------------------
(* Properties.                                                             *)

\* Tables, calls and the cycle have their shapes, and a shard's counter, history
\* and lease name the same last epoch.
TypeOK ==
  /\ clock \in Nat
  /\ placed \subseteq Docs
  /\ leases \in [Shards -> Lease \cup {None}]
  /\ gens \in [Shards -> Nat]
  /\ \A s \in Shards : /\ Len(holders[s]) = gens[s]
                       /\ leases[s] # None => leases[s].epoch = gens[s]
  /\ \A p \in Procs : call[p].doc \in Docs \cup {None}
  /\ ctl.at \in {"waiting", "listing", "planning", "executing", "stopped"}

\* A rebalance tells its caller the truth although it read the owner and acted
\* on it in separate store calls: the generation it reports went to the target,
\* and a handoff took it from the very generation the lookup had seen.
ReportsTrue ==
  /\ TypeOK
  /\ report # None =>
       LET h == holders[ShardOf[report.doc]]
       IN /\ h[report.epoch] = report.to
          /\ report.from # None => report.epoch > 1 /\ h[report.epoch - 1] = report.from

\* A plan moves each document at most once, to a target other than its owner,
\* and without a limit it leaves the targets' loads within one of each other.
PlanBalances ==
  ctl.at = "executing" =>
    LET moves == ctl.plan.moves
        loads == ctl.plan.loads
    IN /\ \A i, j \in DOMAIN moves : moves[i].doc = moves[j].doc => i = j
       /\ \A i \in DOMAIN moves : moves[i].to \in ctl.targets /\ moves[i].from # moves[i].to
       /\ MaxMoves = 0 => \A m, n \in ctl.targets : loads[m] - loads[n] <= 1

\* Every placed document has an active owner among the targets, and their loads
\* are within one of each other.
Settled ==
  LET targets == RebalanceTargets
      On(n) == {d \in placed : HeldAt(leases[ShardOf[d]], clock) /\ leases[ShardOf[d]].node = n}
  IN /\ placed \subseteq UNION {On(n) : n \in targets}
     /\ \A m, n \in targets : Cardinality(On(m)) - Cardinality(On(n)) <= 1

\* With one document per shard, no move limit and promotion of lost documents,
\* the controller's Run either ends with an error or reaches a placement that
\* it then leaves alone, also after claims that failed half-way left a lease
\* behind, moves by others, drained nodes and expired leases.
SettlesOrStops == <>(ctl.at = "stopped") \/ <>[]Settled
=============================================================================
