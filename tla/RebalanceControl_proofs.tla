------------------------ MODULE RebalanceControl_proofs ------------------------
(***************************************************************************)
(* Proofs about RebalanceControl for any nodes, documents, shards, users,  *)
(* limits and clocks, faults included.                                     *)
(*                                                                         *)
(* ReportsTrue is not inductive: what a call reports comes from a lookup   *)
(* made store calls earlier.  Backed says what such a memory is worth      *)
(* against the history of grants.  PlanBalances is not inductive either: a *)
(* plan is built move by move, and it comes out even because a target is   *)
(* only ever given a document while it has the smallest load (Fair).       *)
(***************************************************************************)
EXTENDS RebalanceControl, FiniteSetTheorems, SequenceTheorems, WellFoundedInduction, TLAPS

-----------------------------------------------------------------------------
(* The invariant.                                                          *)

Steps == {"idle", "placement", "lease", "version", "acquire", "save", "undo", "handoff"}

CallRec == [at : Steps, kind : {"none", "plan", "claim", "promote", "rebalance"},
            doc : Docs \cup {None}, target : Nodes \cup {None}, promote : BOOLEAN,
            seen : Lease \cup {None}, acquired : BOOLEAN, live : BOOLEAN]

Move == [doc : Docs, from : Nodes \cup {None}, to : Nodes]

PlanRec(targets) == [loads : [targets -> Nat], owned : [targets -> SUBSET Docs], moves : Seq(Move)]

Plans == UNION {PlanRec(targets) : targets \in SUBSET Nodes}

CycleRec == [at : {"waiting", "listing", "planning", "executing", "stopped"}, docs : SUBSET Docs,
             targets : SUBSET Nodes, plan : Plans, next : Nat \ {0}, failed : BOOLEAN]

Typed ==
  /\ clock \in Nat
  /\ placed \in SUBSET Docs
  /\ leases \in [Shards -> Lease \cup {None}]
  /\ gens \in [Shards -> Nat]
  /\ holders \in [Shards -> Seq(Nodes)]
  /\ call \in [Procs -> CallRec]
  /\ ctl \in CycleRec

\* Generation e of shard s went to node n.
Given(s, e, n) == e \in 1 .. gens[s] /\ holders[s][e] = n

\* The table agrees with the history.
Recorded ==
  \A s \in Shards :
    /\ Len(holders[s]) = gens[s]
    /\ leases[s] # None => leases[s].epoch = gens[s] /\ Given(s, gens[s], leases[s].node)

\* A call that looks up is one that reads the result; one past the lookup has a
\* document and a target.
Shaped(c) ==
  /\ c.at # "idle" => c.doc \in Docs
  /\ c.at \in {"placement", "lease"} => c.kind \in {"plan", "promote", "rebalance"}
  /\ c.at # "idle" /\ c.kind # "plan" => c.target \in Nodes
  /\ c.kind = "plan" => c.at \in {"idle", "placement", "lease"}

\* The lease a call remembers was really granted, to its own target when it
\* claims.
Backed(c) ==
  c.at \in {"save", "undo", "handoff"} =>
    /\ c.seen # None
    /\ Given(ShardOf[c.doc], c.seen.epoch, c.seen.node)
    /\ c.at \in {"save", "undo"} => c.seen.node = c.target

\* What a call tells is in the history.
True(told) ==
  told # None =>
    /\ told.doc \in Docs
    /\ Given(ShardOf[told.doc], told.epoch, told.to)
    /\ told.from # None => Given(ShardOf[told.doc], told.epoch - 1, told.from)

\* The controller's calls belong to the phase it is in, and look up a document
\* it has not planned.
Phases ==
  /\ call[Ctl].at # "idle" => ctl.at \in {"planning", "executing"}
  /\ \A p \in Procs : call[p].at # "idle" =>
       (call[p].kind = "plan" <=> p = Ctl /\ ctl.at = "planning")
  /\ call[Ctl].at # "idle" /\ ctl.at = "planning" => call[Ctl].doc \in ctl.docs

\* No document is in two places of a plan: still to be looked up, counted at a
\* target, or moved.
Distinct(plan, docs, targets) ==
  /\ \A i, j \in DOMAIN plan.moves : plan.moves[i].doc = plan.moves[j].doc => i = j
  /\ \A i \in DOMAIN plan.moves :
       plan.moves[i].doc \notin docs /\ \A n \in targets : plan.moves[i].doc \notin plan.owned[n]
  /\ \A n \in targets : plan.owned[n] \cap docs = {}
  /\ \A m, n \in targets : m # n => plan.owned[m] \cap plan.owned[n] = {}

Aimed(plan, targets) ==
  \A i \in DOMAIN plan.moves :
    plan.moves[i].to \in targets /\ plan.moves[i].from # plan.moves[i].to

\* What a target was given by moves is at most one more than any target's load.
Fair(plan, targets) ==
  /\ \A n \in targets : IsFiniteSet(plan.owned[n]) /\ Cardinality(plan.owned[n]) <= plan.loads[n]
  /\ \A m, n \in targets : plan.loads[m] - Cardinality(plan.owned[m]) <= plan.loads[n] + 1

\* Loads do not grow without end.
Limited(plan, targets) == \E b \in Nat : \A n \in targets : plan.loads[n] <= b

Sound(plan, docs, targets) ==
  /\ plan \in PlanRec(targets)
  /\ Distinct(plan, docs, targets)
  /\ Aimed(plan, targets)
  /\ Fair(plan, targets)
  /\ Limited(plan, targets)

PlanSound ==
  ctl.at \in {"planning", "executing"} =>
    ctl.targets # {} /\ Sound(ctl.plan, ctl.docs, ctl.targets)

Inv ==
  /\ Typed /\ Recorded /\ Phases /\ PlanSound /\ PlanBalances
  /\ True(report)
  /\ \A p \in Procs : Shaped(call[p]) /\ Backed(call[p])

-----------------------------------------------------------------------------
(* Choices.                                                                *)

\* A set of numbers has a least one.
LEMMA LeastNatural ==
  ASSUME NEW S \in SUBSET Nat, S # {}
  PROVE  \E x \in S : \A y \in S : x <= y
<1> DEFINE R == OpToRel(<, Nat)
<1>1. IsWellFoundedOn(R, Nat) BY NatLessThanWellFounded
<1>2. \A x, y \in Nat : <<y, x>> \in R <=> y < x BY DEF OpToRel
<1> HIDE DEF R
<1>3. PICK x \in S : \A y \in S : ~(<<y, x>> \in R) BY <1>1, WFMin
<1>4. ASSUME NEW y \in S PROVE x <= y
  <2>1. x \in Nat /\ y \in Nat OBVIOUS
  <2>2. ~(y < x) BY <1>2, <1>3, <2>1
  <2> QED BY <2>1, <2>2
<1> QED BY <1>4

\* The order of the node ids and of the listing has a first element.
LEMMA FirstOf ==
  ASSUME NEW S, S \subseteq Nodes \cup Docs, S # {}
  PROVE  First(S) \in S
<1> DEFINE ranks == {Rank[x] : x \in S}
<1>1. ranks \in SUBSET Nat /\ ranks # {} BY ControlAssumption
<1>2. \E r \in ranks : \A q \in ranks : r <= q BY <1>1, LeastNatural
<1>3. \E x \in S : \A y \in S : Rank[x] <= Rank[y] BY <1>2
<1> QED BY <1>3 DEF First

\* leastLoadedTarget finds a target, and no target has a smaller load.
LEMMA LeastOf ==
  ASSUME NEW targets \in SUBSET Nodes, targets # {}, NEW loads \in [targets -> Nat]
  PROVE  /\ LeastLoadedTarget(targets, loads) \in targets
         /\ \A m \in targets : loads[LeastLoadedTarget(targets, loads)] <= loads[m]
<1> DEFINE values == {loads[n] : n \in targets}
           least == {n \in targets : \A m \in targets : loads[n] <= loads[m]}
<1>1. values \in SUBSET Nat /\ values # {} OBVIOUS
<1>2. \E v \in values : \A w \in values : v <= w BY <1>1, LeastNatural
<1>3. least # {} BY <1>2
<1>4. First(least) \in least BY <1>3, FirstOf
<1> QED BY <1>4 DEF LeastLoadedTarget

\* mostLoadedTarget finds a target, and no target has a larger load.
LEMMA MostOf ==
  ASSUME NEW targets \in SUBSET Nodes, targets # {}, NEW loads \in [targets -> Nat],
         NEW b \in Nat, \A n \in targets : loads[n] <= b
  PROVE  /\ MostLoadedTarget(targets, loads) \in targets
         /\ \A m \in targets : loads[MostLoadedTarget(targets, loads)] >= loads[m]
<1> DEFINE values == {b - loads[n] : n \in targets}
           most == {n \in targets : \A m \in targets : loads[n] >= loads[m]}
<1>1. values \in SUBSET Nat /\ values # {} OBVIOUS
<1>2. PICK v \in values : \A w \in values : v <= w BY <1>1, LeastNatural
<1>3. PICK n \in targets : v = b - loads[n] BY <1>2
<1>4. \A m \in targets : b - loads[n] <= b - loads[m] BY <1>2, <1>3
<1>5. \A m \in targets : loads[n] >= loads[m] BY <1>4
<1>6. most # {} BY <1>5
<1>7. First(most) \in most BY <1>6, FirstOf
<1> QED BY <1>7 DEF MostLoadedTarget

-----------------------------------------------------------------------------
(* Plans.                                                                  *)

\* An empty plan is sound.
LEMMA EmptySound ==
  ASSUME NEW docs \in SUBSET Docs, NEW targets \in SUBSET Nodes
  PROVE  Sound(EmptyPlan(targets), docs, targets)
<1> DEFINE plan == EmptyPlan(targets)
<1>1. plan \in PlanRec(targets) BY DEF EmptyPlan, PlanRec
<1>2. plan.moves = <<>> /\ \A n \in targets : plan.loads[n] = 0 /\ plan.owned[n] = {} BY DEF EmptyPlan
<1>3. DOMAIN plan.moves = {} BY <1>2
<1> HIDE DEF plan
<1>4. IsFiniteSet({}) /\ Cardinality({}) = 0 BY FS_EmptySet
<1>5. Distinct(plan, docs, targets) /\ Aimed(plan, targets) BY <1>2, <1>3 DEF Distinct, Aimed
<1>6. Fair(plan, targets)
  <2>1. \A n \in targets : IsFiniteSet(plan.owned[n]) /\ Cardinality(plan.owned[n]) = 0 BY <1>2, <1>4
  <2> QED BY <1>2, <2>1 DEF Fair
<1>7. Limited(plan, targets) BY <1>2 DEF Limited
<1> QED BY <1>1, <1>5, <1>6, <1>7 DEF Sound, plan

\* A move appended to a sound plan.
LEMMA Appended ==
  ASSUME NEW moves \in Seq(Move), NEW mv \in Move
  PROVE  /\ Append(moves, mv) \in Seq(Move)
         /\ DOMAIN Append(moves, mv) = DOMAIN moves \cup {Len(moves) + 1}
         /\ \A i \in DOMAIN moves : Append(moves, mv)[i] = moves[i]
         /\ Append(moves, mv)[Len(moves) + 1] = mv
         /\ Len(moves) + 1 \notin DOMAIN moves
<1>1. Append(moves, mv) \in Seq(Move) /\ Len(Append(moves, mv)) = Len(moves) + 1 /\ Len(moves) \in Nat
  BY AppendProperties
<1>2. DOMAIN moves = 1 .. Len(moves) /\ DOMAIN Append(moves, mv) = 1 .. Len(moves) + 1 BY <1>1
<1>3. 1 .. Len(moves) + 1 = (1 .. Len(moves)) \cup {Len(moves) + 1} BY <1>1
<1> QED BY <1>1, <1>2, <1>3, AppendProperties

\* Documents stay in one place: one that is counted, and one that is moved.
LEMMA AssignSound ==
  ASSUME NEW docs \in SUBSET Docs, NEW targets \in SUBSET Nodes, targets # {}, NEW plan,
         Sound(plan, docs, targets), NEW d \in docs, NEW from \in Nodes \cup {None}, from \notin targets
  PROVE  Sound(Assign(plan, targets, d, from), docs \ {d}, targets)
<1> DEFINE to == LeastLoadedTarget(targets, plan.loads)
           mv == [doc |-> d, from |-> from, to |-> to]
           new == Assign(plan, targets, d, from)
<1>0. /\ plan \in PlanRec(targets) /\ plan.loads \in [targets -> Nat]
      /\ plan.owned \in [targets -> SUBSET Docs] /\ plan.moves \in Seq(Move)
  BY DEF Sound, PlanRec
<1>1. to \in targets /\ \A m \in targets : plan.loads[to] <= plan.loads[m] BY <1>0, LeastOf
<1> HIDE DEF to
<1>2. mv \in Move /\ mv.doc = d /\ mv.from = from /\ mv.to = to BY <1>1 DEF Move
<1> HIDE DEF mv
<1>3. new = [plan EXCEPT !.loads[to] = plan.loads[to] + 1, !.moves = Append(plan.moves, mv)]
  BY DEF Assign, to, mv
<1> HIDE DEF new
<1>4. /\ new.loads = [plan.loads EXCEPT ![to] = plan.loads[to] + 1]
      /\ new.owned = plan.owned /\ new.moves = Append(plan.moves, mv)
      /\ new = [loads |-> new.loads, owned |-> new.owned, moves |-> new.moves]
  BY <1>0, <1>3 DEF PlanRec
<1>5. /\ new.moves \in Seq(Move) /\ DOMAIN new.moves = DOMAIN plan.moves \cup {Len(plan.moves) + 1}
      /\ \A i \in DOMAIN plan.moves : new.moves[i] = plan.moves[i]
      /\ new.moves[Len(plan.moves) + 1] = mv /\ Len(plan.moves) + 1 \notin DOMAIN plan.moves
  BY <1>0, <1>2, <1>4, Appended
<1>6. new.loads \in [targets -> Nat] /\ new.loads[to] = plan.loads[to] + 1
      /\ \A n \in targets : n # to => new.loads[n] = plan.loads[n]
  BY <1>0, <1>1, <1>4
<1>7. new \in PlanRec(targets) BY <1>0, <1>4, <1>5, <1>6 DEF PlanRec
<1>8. Distinct(new, docs \ {d}, targets)
  <2>1. \A i \in DOMAIN plan.moves : plan.moves[i].doc # d BY DEF Sound, Distinct
  <2>2. \A n \in targets : d \notin plan.owned[n] BY DEF Sound, Distinct
  <2>3. Distinct(plan, docs, targets) BY DEF Sound
  <2>4. \A i, j \in DOMAIN new.moves : new.moves[i].doc = new.moves[j].doc => i = j
    BY <1>2, <1>5, <2>1, <2>3 DEF Distinct
  <2>5. \A i \in DOMAIN new.moves :
          new.moves[i].doc \notin docs \ {d} /\ \A n \in targets : new.moves[i].doc \notin new.owned[n]
    BY <1>2, <1>4, <1>5, <2>2, <2>3 DEF Distinct
  <2> QED BY <1>4, <2>3, <2>4, <2>5 DEF Distinct
<1>9. Aimed(new, targets) BY <1>1, <1>2, <1>5 DEF Sound, Aimed
<1>10. Fair(new, targets)
  <2>1. Fair(plan, targets) BY DEF Sound
  <2>2. \A n \in targets : Cardinality(plan.owned[n]) \in Nat BY <2>1, FS_CardinalityType DEF Fair
  <2>3. \A n \in targets : IsFiniteSet(new.owned[n]) /\ Cardinality(new.owned[n]) <= new.loads[n]
    BY <1>0, <1>1, <1>4, <1>6, <2>1, <2>2 DEF Fair
  <2>4. ASSUME NEW m \in targets, NEW n \in targets
        PROVE  new.loads[m] - Cardinality(new.owned[m]) <= new.loads[n] + 1
    <3>1. PICK k \in Nat : k = Cardinality(plan.owned[m]) BY <2>2
    <3>2. plan.loads[m] - k <= plan.loads[n] + 1 BY <2>1, <3>1 DEF Fair
    <3>3. plan.loads[m] \in Nat /\ plan.loads[n] \in Nat /\ plan.loads[to] \in Nat BY <1>0, <1>1
    <3>4. new.loads[n] >= plan.loads[n] BY <1>6, <3>3
    <3>5. CASE m = to
      <4>1. new.loads[m] = plan.loads[to] + 1 /\ plan.loads[to] <= plan.loads[n] BY <1>1, <1>6, <3>5
      <4>2. new.loads[m] - k <= new.loads[n] + 1 BY <1>6, <3>1, <3>3, <3>4, <4>1
      <4> QED BY <1>4, <3>1, <4>2
    <3>6. CASE m # to
      <4>1. new.loads[m] = plan.loads[m] BY <1>6, <3>6
      <4>2. new.loads[m] - k <= new.loads[n] + 1 BY <1>6, <3>1, <3>2, <3>3, <3>4, <4>1
      <4> QED BY <1>4, <3>1, <4>2
    <3> QED BY <3>5, <3>6
  <2> QED BY <2>3, <2>4 DEF Fair
<1>11. Limited(new, targets)
  <2>1. PICK b \in Nat : \A n \in targets : plan.loads[n] <= b BY DEF Sound, Limited
  <2>2. \A n \in targets : new.loads[n] <= b + 1 BY <1>0, <1>1, <1>6, <2>1
  <2> QED BY <2>1, <2>2 DEF Limited
<1> QED BY <1>7, <1>8, <1>9, <1>10, <1>11 DEF Sound, new

\* The pass over the documents keeps a plan sound, whatever the lookup returned.
LEMMA PlanDocumentSound ==
  ASSUME NEW docs \in SUBSET Docs, NEW targets \in SUBSET Nodes, targets # {}, NEW plan,
         Sound(plan, docs, targets), NEW d \in docs, NEW owner \in Nodes \cup {None, "error"}
  PROVE  Sound(PlanDocument(plan, targets, d, owner), docs \ {d}, targets)
<1>1. CASE owner \in targets
  <2> DEFINE loads == [plan.loads EXCEPT ![owner] = plan.loads[owner] + 1]
             owned == [plan.owned EXCEPT ![owner] = plan.owned[owner] \cup {d}]
             new == [plan EXCEPT !.loads = loads, !.owned = owned]
  <2>0. /\ plan \in PlanRec(targets) /\ plan.loads \in [targets -> Nat]
        /\ plan.owned \in [targets -> SUBSET Docs] /\ plan.moves \in Seq(Move)
    BY DEF Sound, PlanRec
  <2>1. PlanDocument(plan, targets, d, owner) = new BY <1>1 DEF PlanDocument
  <2>2. /\ new.loads = [plan.loads EXCEPT ![owner] = plan.loads[owner] + 1]
        /\ new.owned = [plan.owned EXCEPT ![owner] = plan.owned[owner] \cup {d}]
        /\ new.moves = plan.moves
        /\ new = [loads |-> new.loads, owned |-> new.owned, moves |-> new.moves]
    <3> HIDE DEF loads, owned
    <3>0. new = [plan EXCEPT !.loads = loads, !.owned = owned] OBVIOUS
    <3> HIDE DEF new
    <3>1. new.loads = loads /\ new.owned = owned /\ new.moves = plan.moves
          /\ new = [loads |-> new.loads, owned |-> new.owned, moves |-> new.moves]
      BY <2>0, <3>0 DEF PlanRec
    <3> QED BY <3>1 DEF loads, owned
  <2> HIDE DEF new
  <2>3. /\ new.loads \in [targets -> Nat] /\ new.loads[owner] = plan.loads[owner] + 1
        /\ new.owned \in [targets -> SUBSET Docs] /\ new.owned[owner] = plan.owned[owner] \cup {d}
        /\ \A n \in targets : n # owner => new.loads[n] = plan.loads[n] /\ new.owned[n] = plan.owned[n]
    BY <1>1, <2>0, <2>2
  <2>4. new \in PlanRec(targets) BY <2>0, <2>2, <2>3 DEF PlanRec
  <2>5. Distinct(plan, docs, targets) /\ Fair(plan, targets) BY DEF Sound
  <2>6. Distinct(new, docs \ {d}, targets)
    <3>1. \A n \in targets : new.owned[n] \subseteq plan.owned[n] \cup {d} BY <2>3
    <3>2. \A i \in DOMAIN new.moves :
            new.moves[i].doc \notin docs \ {d} /\ \A n \in targets : new.moves[i].doc \notin new.owned[n]
      BY <2>2, <2>5, <3>1 DEF Distinct
    <3>3. \A n \in targets : new.owned[n] \cap (docs \ {d}) = {} BY <2>5, <3>1 DEF Distinct
    <3>4. ASSUME NEW m \in targets, NEW n \in targets, m # n PROVE new.owned[m] \cap new.owned[n] = {}
      <4>1. d \notin plan.owned[m] /\ d \notin plan.owned[n] /\ plan.owned[m] \cap plan.owned[n] = {}
        BY <2>5, <3>4 DEF Distinct
      <4> QED BY <2>3, <3>4, <4>1
    <3> QED BY <2>2, <2>5, <3>2, <3>3, <3>4 DEF Distinct
  <2>7. Aimed(new, targets) BY <2>2 DEF Sound, Aimed
  <2>8. Fair(new, targets)
    <3>1. \A n \in targets : Cardinality(plan.owned[n]) \in Nat BY <2>5, FS_CardinalityType DEF Fair
    <3>2. d \notin plan.owned[owner] BY <1>1, <2>5 DEF Distinct
    <3>3. IsFiniteSet(new.owned[owner]) /\ Cardinality(new.owned[owner]) = Cardinality(plan.owned[owner]) + 1
      <4>1. PICK O : O = plan.owned[owner] OBVIOUS
      <4>2. IsFiniteSet(O) BY <1>1, <2>5, <4>1 DEF Fair
      <4>3. IsFiniteSet(O \cup {d}) /\ Cardinality(O \cup {d}) = Cardinality(O) + 1
        BY <3>2, <4>1, <4>2, FS_AddElement
      <4> QED BY <2>3, <4>1, <4>3
    <3>a. ASSUME NEW n \in targets
          PROVE  /\ IsFiniteSet(new.owned[n]) /\ new.loads[n] >= plan.loads[n]
                 /\ new.loads[n] - Cardinality(new.owned[n]) = plan.loads[n] - Cardinality(plan.owned[n])
                 /\ Cardinality(new.owned[n]) <= new.loads[n]
      <4>1. PICK k \in Nat : k = Cardinality(plan.owned[n]) BY <3>1
      <4>2. plan.loads[n] \in Nat /\ k <= plan.loads[n] BY <2>0, <2>5, <4>1 DEF Fair
      <4>3. CASE n = owner
        <5>1. Cardinality(new.owned[n]) = k + 1 /\ new.loads[n] = plan.loads[n] + 1
          BY <2>3, <3>3, <4>1, <4>3
        <5>2. plan.loads[n] + 1 - (k + 1) = plan.loads[n] - k /\ k + 1 <= plan.loads[n] + 1 BY <4>1, <4>2
        <5> QED BY <3>3, <4>1, <4>2, <4>3, <5>1, <5>2
      <4>4. CASE n # owner
        <5>1. new.loads[n] = plan.loads[n] /\ new.owned[n] = plan.owned[n] BY <2>3, <4>4
        <5>2. IsFiniteSet(plan.owned[n]) BY <2>5 DEF Fair
        <5> QED BY <4>1, <4>2, <5>1, <5>2
      <4> QED BY <4>3, <4>4
    <3>4. \A n \in targets : IsFiniteSet(new.owned[n]) /\ Cardinality(new.owned[n]) <= new.loads[n] BY <3>a
    <3>5. \A n \in targets : new.loads[n] - Cardinality(new.owned[n]) = plan.loads[n] - Cardinality(plan.owned[n])
                             /\ new.loads[n] >= plan.loads[n]
      BY <3>a
    <3>6. ASSUME NEW m \in targets, NEW n \in targets
          PROVE  new.loads[m] - Cardinality(new.owned[m]) <= new.loads[n] + 1
      <4>1. plan.loads[m] - Cardinality(plan.owned[m]) <= plan.loads[n] + 1 BY <2>5 DEF Fair
      <4>2. plan.loads[m] \in Nat /\ plan.loads[n] \in Nat /\ new.loads[n] \in Nat BY <2>0, <2>3
      <4> QED BY <3>1, <3>5, <4>1, <4>2
    <3> QED BY <3>4, <3>6 DEF Fair
  <2>9. Limited(new, targets)
    <3>1. PICK b \in Nat : \A n \in targets : plan.loads[n] <= b BY DEF Sound, Limited
    <3>2. \A n \in targets : new.loads[n] <= b + 1 BY <1>1, <2>0, <2>3, <3>1
    <3> QED BY <3>1, <3>2 DEF Limited
  <2> QED BY <2>1, <2>4, <2>6, <2>7, <2>8, <2>9 DEF Sound
<1>2. CASE owner \notin targets /\ PlanDocument(plan, targets, d, owner) = plan
  <2>1. Distinct(plan, docs \ {d}, targets) BY DEF Sound, Distinct
  <2> QED BY <1>2, <2>1 DEF Sound
<1>3. CASE owner \notin targets /\ owner # "error"
           /\ PlanDocument(plan, targets, d, owner) = Assign(plan, targets, d, owner)
  BY <1>3, AssignSound
<1> QED BY <1>1, <1>2, <1>3 DEF PlanDocument

\* Load shedding keeps a plan sound: the target that gains a document had, and the one
\* that loses it still has, no less than the least.
LEMMA ShedSound ==
  ASSUME NEW docs \in SUBSET Docs, NEW targets \in SUBSET Nodes, targets # {}, NEW plan,
         Sound(plan, docs, targets), Uneven(plan, targets)
  PROVE  Sound(Shed(plan, targets), docs, targets)
<1> DEFINE from == MostLoadedTarget(targets, plan.loads)
           to == LeastLoadedTarget(targets, plan.loads)
           d == First(plan.owned[from])
           mv == [doc |-> d, from |-> from, to |-> to]
           loads == [plan.loads EXCEPT ![from] = plan.loads[from] - 1, ![to] = plan.loads[to] + 1]
           owned == [plan.owned EXCEPT ![from] = plan.owned[from] \ {d}]
           moves == Append(plan.moves, mv)
           new == Shed(plan, targets)
<1>0. /\ plan \in PlanRec(targets) /\ plan.loads \in [targets -> Nat]
      /\ plan.owned \in [targets -> SUBSET Docs] /\ plan.moves \in Seq(Move)
  BY DEF Sound, PlanRec
<1>1. to \in targets /\ \A m \in targets : plan.loads[to] <= plan.loads[m] BY <1>0, LeastOf
<1>2. from \in targets /\ \A m \in targets : plan.loads[from] >= plan.loads[m]
  <2>1. PICK b \in Nat : \A n \in targets : plan.loads[n] <= b BY DEF Sound, Limited
  <2> QED BY <1>0, <2>1, MostOf
<1>3. plan.loads[from] - plan.loads[to] > 1 /\ plan.owned[from] # {} BY DEF Uneven
<1> HIDE DEF from, to
<1>4. d \in plan.owned[from] /\ d \in Docs
  <2>1. plan.owned[from] \in SUBSET Docs BY <1>0, <1>2
  <2> QED BY <1>3, <2>1, FirstOf
<1> HIDE DEF d
<1>5. plan.loads[from] \in Nat /\ plan.loads[to] \in Nat /\ from # to
      /\ plan.loads[from] >= plan.loads[to] + 2
  BY <1>0, <1>1, <1>2, <1>3
<1>6. mv \in Move /\ mv.doc = d /\ mv.from = from /\ mv.to = to BY <1>1, <1>2, <1>4 DEF Move
<1> HIDE DEF mv
<1>7. /\ new.loads = loads /\ new.owned = owned /\ new.moves = moves
      /\ new = [loads |-> new.loads, owned |-> new.owned, moves |-> new.moves]
  <2>1. new = [plan EXCEPT !.loads[from] = plan.loads[from] - 1, !.loads[to] = plan.loads[to] + 1,
                           !.owned[from] = plan.owned[from] \ {d}, !.moves = moves]
    BY DEF Shed, from, to, d, mv
  <2> HIDE DEF new, moves
  <2>2. new.loads = loads BY <1>0, <1>1, <1>2, <1>5, <2>1 DEF PlanRec
  <2>3. new.owned = owned BY <1>0, <1>2, <2>1 DEF PlanRec
  <2>4. new.moves = moves BY <1>0, <2>1 DEF PlanRec
  <2>5. new = [loads |-> new.loads, owned |-> new.owned, moves |-> new.moves] BY <1>0, <2>1 DEF PlanRec
  <2> QED BY <2>2, <2>3, <2>4, <2>5
<1> HIDE DEF new
<1>8. /\ new.loads \in [targets -> Nat] /\ new.loads[from] = plan.loads[from] - 1
      /\ new.loads[to] = plan.loads[to] + 1
      /\ \A n \in targets : n # from /\ n # to => new.loads[n] = plan.loads[n]
  <2>1. new.loads = loads BY <1>7
  <2>2. DOMAIN loads = targets /\ loads = [n \in targets |-> loads[n]] BY <1>0
  <2>3. loads[from] = plan.loads[from] - 1 /\ loads[to] = plan.loads[to] + 1 BY <1>0, <1>1, <1>2, <1>5
  <2>4. \A n \in targets : n # from /\ n # to => loads[n] = plan.loads[n] BY <1>0
  <2> HIDE DEF loads
  <2>5. \A n \in targets : plan.loads[n] \in Nat BY <1>0
  <2>6. plan.loads[from] - 1 \in Nat /\ plan.loads[to] + 1 \in Nat BY <1>5
  <2>7. \A n \in targets : loads[n] \in Nat BY <2>3, <2>4, <2>5, <2>6
  <2> QED BY <2>1, <2>2, <2>3, <2>4, <2>7
<1>9. /\ new.owned \in [targets -> SUBSET Docs] /\ new.owned[from] = plan.owned[from] \ {d}
      /\ \A n \in targets : n # from => new.owned[n] = plan.owned[n]
  BY <1>0, <1>2, <1>7
<1>10. /\ new.moves \in Seq(Move) /\ DOMAIN new.moves = DOMAIN plan.moves \cup {Len(plan.moves) + 1}
       /\ \A i \in DOMAIN plan.moves : new.moves[i] = plan.moves[i]
       /\ new.moves[Len(plan.moves) + 1] = mv /\ Len(plan.moves) + 1 \notin DOMAIN plan.moves
  BY <1>0, <1>6, <1>7, Appended
<1> HIDE DEF loads, owned, moves
<1>11. new \in PlanRec(targets) BY <1>7, <1>8, <1>9, <1>10 DEF PlanRec
<1>12. Distinct(plan, docs, targets) /\ Fair(plan, targets) BY DEF Sound
<1>13. Distinct(new, docs, targets)
  <2>1. \A n \in targets : new.owned[n] \subseteq plan.owned[n] BY <1>9
  <2>2. \A i \in DOMAIN plan.moves : plan.moves[i].doc # d BY <1>2, <1>4, <1>12 DEF Distinct
  <2>3. d \notin docs BY <1>2, <1>4, <1>12 DEF Distinct
  <2>4. \A n \in targets : d \notin new.owned[n] BY <1>2, <1>4, <1>9, <1>12 DEF Distinct
  <2>5. \A i, j \in DOMAIN new.moves : new.moves[i].doc = new.moves[j].doc => i = j
    BY <1>6, <1>10, <1>12, <2>2 DEF Distinct
  <2>6. \A i \in DOMAIN new.moves :
          new.moves[i].doc \notin docs /\ \A n \in targets : new.moves[i].doc \notin new.owned[n]
    BY <1>6, <1>10, <1>12, <2>1, <2>3, <2>4 DEF Distinct
  <2>7. \A n \in targets : new.owned[n] \cap docs = {} BY <1>12, <2>1 DEF Distinct
  <2>8. \A m, n \in targets : m # n => new.owned[m] \cap new.owned[n] = {}
    BY <1>12, <2>1 DEF Distinct
  <2> QED BY <2>5, <2>6, <2>7, <2>8 DEF Distinct
<1>14. Aimed(new, targets) BY <1>1, <1>5, <1>6, <1>10 DEF Sound, Aimed
<1>15. Fair(new, targets)
  <2>1. \A n \in targets : Cardinality(plan.owned[n]) \in Nat BY <1>12, FS_CardinalityType DEF Fair
  <2>2. IsFiniteSet(new.owned[from]) /\ Cardinality(new.owned[from]) = Cardinality(plan.owned[from]) - 1
    <3>1. PICK O : O = plan.owned[from] OBVIOUS
    <3>2. IsFiniteSet(O) BY <1>2, <1>12, <3>1 DEF Fair
    <3>3. IsFiniteSet(O \ {d}) /\ Cardinality(O \ {d}) = Cardinality(O) - 1
      BY <1>4, <3>1, <3>2, FS_RemoveElement
    <3> QED BY <1>9, <3>1, <3>3
  <2>3. ASSUME NEW m \in targets
        PROVE  /\ IsFiniteSet(new.owned[m]) /\ Cardinality(new.owned[m]) <= new.loads[m]
               /\ \A n \in targets : new.loads[m] - Cardinality(new.owned[m]) <= new.loads[n] + 1
    <3>1. PICK k \in Nat : k = Cardinality(plan.owned[m]) BY <2>1
    <3>2. /\ plan.loads[m] \in Nat /\ k <= plan.loads[m] /\ IsFiniteSet(plan.owned[m])
          /\ \A n \in targets : plan.loads[m] - k <= plan.loads[n] + 1
      BY <1>0, <1>12, <3>1 DEF Fair
    <3>3. ASSUME NEW n \in targets
          PROVE  plan.loads[n] \in Nat /\ new.loads[n] \in Nat /\ new.loads[n] >= plan.loads[to]
      <4>1. plan.loads[n] \in Nat /\ new.loads[n] \in Nat /\ plan.loads[n] >= plan.loads[to]
        BY <1>0, <1>1, <1>5, <1>8
      <4>2. CASE n = from BY <1>5, <1>8, <4>1, <4>2
      <4>3. CASE n = to BY <1>5, <1>8, <4>1, <4>3
      <4>4. CASE n # from /\ n # to BY <1>8, <4>1, <4>4
      <4> QED BY <4>2, <4>3, <4>4
    <3>4. CASE m = from
      <4>1. Cardinality(new.owned[m]) = k - 1 /\ new.loads[m] = plan.loads[m] - 1
        BY <1>8, <2>2, <3>1, <3>4
      <4>2. plan.loads[m] - k <= plan.loads[to] + 1 BY <1>1, <3>2
      <4>3. ASSUME NEW n \in targets PROVE new.loads[m] - (k - 1) <= new.loads[n] + 1
        BY <1>5, <3>1, <3>2, <3>3, <4>1, <4>2
      <4>4. k - 1 <= plan.loads[m] - 1 BY <3>1, <3>2
      <4> QED BY <2>2, <3>4, <4>1, <4>3, <4>4
    <3>5. CASE m = to
      <4>1. new.owned[m] = plan.owned[m] /\ new.loads[m] = plan.loads[to] + 1 BY <1>5, <1>8, <1>9, <3>5
      <4>2. ASSUME NEW n \in targets PROVE new.loads[m] - k <= new.loads[n] + 1
        BY <1>5, <3>1, <3>3, <4>1
      <4>3. k <= new.loads[m] BY <1>5, <3>1, <3>2, <3>5, <4>1
      <4> QED BY <3>1, <3>2, <4>1, <4>2, <4>3
    <3>6. CASE m # from /\ m # to
      <4>1. new.owned[m] = plan.owned[m] /\ new.loads[m] = plan.loads[m] BY <1>8, <1>9, <3>6
      <4>2. plan.loads[m] - k <= plan.loads[to] + 1 BY <1>1, <3>2
      <4>3. ASSUME NEW n \in targets PROVE new.loads[m] - k <= new.loads[n] + 1
        BY <1>5, <3>1, <3>2, <3>3, <4>1, <4>2
      <4> QED BY <3>1, <3>2, <4>1, <4>3
    <3> QED BY <3>4, <3>5, <3>6
  <2> QED BY <2>3 DEF Fair
<1>16. Limited(new, targets)
  <2>1. \A n \in targets : new.loads[n] <= plan.loads[from] BY <1>0, <1>2, <1>5, <1>8
  <2> QED BY <1>5, <2>1 DEF Limited
<1> QED BY <1>11, <1>13, <1>14, <1>15, <1>16 DEF Sound, new

\* When nothing can be shed any more, the loads are within one of each other, also if the
\* most loaded target has no document left to give: then all it has was given to it while
\* it had the smallest load.
LEMMA Balanced ==
  ASSUME NEW docs, NEW targets \in SUBSET Nodes, targets # {}, NEW plan,
         Sound(plan, docs, targets), ~Uneven(plan, targets), NEW m \in targets, NEW n \in targets
  PROVE  plan.loads[m] - plan.loads[n] <= 1
<1> DEFINE from == MostLoadedTarget(targets, plan.loads)
           to == LeastLoadedTarget(targets, plan.loads)
<1>0. plan.loads \in [targets -> Nat] BY DEF Sound, PlanRec
<1>1. to \in targets /\ \A q \in targets : plan.loads[to] <= plan.loads[q] BY <1>0, LeastOf
<1>2. from \in targets /\ \A q \in targets : plan.loads[from] >= plan.loads[q]
  <2>1. PICK b \in Nat : \A q \in targets : plan.loads[q] <= b BY DEF Sound, Limited
  <2> QED BY <1>0, <2>1, MostOf
<1>3. ~(plan.loads[from] - plan.loads[to] > 1) \/ plan.owned[from] = {} BY DEF Uneven
<1> HIDE DEF from, to
<1>4. plan.loads[from] \in Nat /\ plan.loads[to] \in Nat /\ plan.loads[m] \in Nat /\ plan.loads[n] \in Nat
  BY <1>0, <1>1, <1>2
<1>5. CASE plan.owned[from] = {}
  <2>1. Cardinality(plan.owned[from]) = 0 BY <1>5, FS_EmptySet
  <2>2. plan.loads[from] - 0 <= plan.loads[n] + 1 BY <1>2, <2>1 DEF Sound, Fair
  <2> QED BY <1>2, <1>4, <2>2
<1>6. CASE ~(plan.loads[from] - plan.loads[to] > 1) BY <1>1, <1>2, <1>4, <1>6
<1> QED BY <1>3, <1>5, <1>6

-----------------------------------------------------------------------------
(* The lease table and its history.                                        *)

table == <<leases, gens, holders>>

\* What a step does to the table: nothing, a release, or the next generation.
TableStep ==
  \/ UNCHANGED table
  \/ \E s \in Shards : leases' = [leases EXCEPT ![s] = None] /\ UNCHANGED <<gens, holders>>
  \/ \E s \in Shards, rec \in Lease : rec.epoch = gens[s] + 1 /\ Grant(s, rec)

\* The history only grows.
HistoryKept == \A s \in Shards : \A e, n : Given(s, e, n) => Given(s, e, n)'

TableTyped ==
  /\ leases \in [Shards -> Lease \cup {None}]
  /\ gens \in [Shards -> Nat]
  /\ holders \in [Shards -> Seq(Nodes)]

\* The next generation is recorded beside all earlier ones.
LEMMA Granted ==
  ASSUME Inv, NEW s \in Shards, NEW rec \in Lease, rec.epoch = gens[s] + 1, Grant(s, rec)
  PROVE  TableTyped' /\ Recorded' /\ HistoryKept /\ Given(s, rec.epoch, rec.node)'
<1>0. TableTyped /\ Recorded BY DEF Inv, Typed, TableTyped
<1>1. rec.node \in Nodes /\ rec.epoch \in Nat /\ gens[s] \in Nat /\ holders[s] \in Seq(Nodes)
      /\ Len(holders[s]) = gens[s]
  BY <1>0 DEF TableTyped, Lease, Recorded
<1>2. PICK h \in Seq(Nodes) : h = Append(holders[s], rec.node) BY <1>1, AppendProperties
<1>3. /\ Len(h) = gens[s] + 1 /\ \A i \in 1 .. gens[s] : h[i] = holders[s][i]
      /\ h[gens[s] + 1] = rec.node
  BY <1>1, <1>2, AppendProperties
<1>4. /\ leases' = [leases EXCEPT ![s] = rec] /\ gens' = [gens EXCEPT ![s] = gens[s] + 1]
      /\ holders' = [holders EXCEPT ![s] = h]
  BY <1>2 DEF Grant
<1>5. gens'[s] = gens[s] + 1 /\ holders'[s] = h /\ leases'[s] = rec
      /\ \A t \in Shards : t # s => gens'[t] = gens[t] /\ holders'[t] = holders[t] /\ leases'[t] = leases[t]
  BY <1>0, <1>4 DEF TableTyped
<1>6. TableTyped' BY <1>0, <1>1, <1>2, <1>4 DEF TableTyped
<1>7. Given(s, rec.epoch, rec.node)' BY <1>1, <1>3, <1>5 DEF Given
<1>8. HistoryKept
  <2> SUFFICES ASSUME NEW t \in Shards, NEW e, NEW n, Given(t, e, n) PROVE Given(t, e, n)'
    BY DEF HistoryKept
  <2>1. CASE t = s BY <1>1, <1>3, <1>5, <2>1 DEF Given
  <2>2. CASE t # s BY <1>5, <2>2 DEF Given
  <2> QED BY <2>1, <2>2
<1>9. Recorded'
  <2> SUFFICES ASSUME NEW t \in Shards
               PROVE  /\ Len(holders'[t]) = gens'[t]
                      /\ leases'[t] # None => leases'[t].epoch = gens'[t] /\ Given(t, gens[t], leases[t].node)'
    BY DEF Recorded
  <2>1. CASE t = s BY <1>3, <1>5, <1>7, <2>1 DEF Given
  <2>2. CASE t # s BY <1>0, <1>5, <2>2 DEF Recorded, Given
  <2> QED BY <2>1, <2>2
<1> QED BY <1>6, <1>7, <1>8, <1>9

\* Table and history agree after every step on the table.
LEMMA Recording ==
  ASSUME Inv, TableStep
  PROVE  TableTyped' /\ Recorded' /\ HistoryKept
<1>0. TableTyped /\ Recorded BY DEF Inv, Typed, TableTyped
<1>1. CASE UNCHANGED table BY <1>0, <1>1 DEF table, TableTyped, Recorded, HistoryKept, Given
<1>2. ASSUME NEW s \in Shards, leases' = [leases EXCEPT ![s] = None], UNCHANGED <<gens, holders>>
      PROVE  TableTyped' /\ Recorded' /\ HistoryKept
  <2>1. TableTyped' BY <1>0, <1>2 DEF TableTyped
  <2>2. \A t \in Shards : leases'[t] = leases[t] \/ leases'[t] = None BY <1>0, <1>2 DEF TableTyped
  <2>3. Recorded' BY <1>0, <1>2, <2>2 DEF Recorded, Given
  <2> QED BY <1>2, <2>1, <2>3 DEF HistoryKept, Given
<1> QED BY <1>1, <1>2, Granted DEF TableStep

-----------------------------------------------------------------------------
(* What a step does to the calls.                                          *)

\* A call goes on.
Advance(p, c) ==
  /\ call[p].at # "idle" /\ c.at # "idle"
  /\ call' = [call EXCEPT ![p] = c] /\ UNCHANGED <<ctl, report>>
  /\ c \in CallRec /\ Shaped(c) /\ Backed(c)'
  /\ c.doc = call[p].doc /\ (c.kind = "plan" <=> call[p].kind = "plan")

\* A call other than a plan's lookup returns.
Ends(p, ok, told) ==
  /\ call[p].at # "idle" /\ call[p].kind # "plan"
  /\ Return(p, ok, told) /\ (ok => True(told)')

\* A plan's lookup returns.
PlanEnds(owner) ==
  /\ call[Ctl].at # "idle" /\ call[Ctl].kind = "plan"
  /\ Planned(owner)

\* A call begins; the controller's fits its phase.
Begins(p, c) ==
  /\ call[p].at = "idle" /\ c.at \in {"placement", "version"}
  /\ call' = [call EXCEPT ![p] = c] /\ UNCHANGED ctl /\ report' = None
  /\ c \in CallRec /\ Shaped(c)
  /\ IF p = Ctl
       THEN \/ ctl.at = "planning" /\ c.kind = "plan" /\ c.doc \in ctl.docs
            \/ ctl.at = "executing" /\ c.kind # "plan"
       ELSE c.kind # "plan"

CallMoves(p) ==
  \/ \E c : Advance(p, c)
  \/ \E ok \in BOOLEAN : \E told : Ends(p, ok, told)
  \/ \E owner \in Nodes \cup {None, "error"} : p = Ctl /\ PlanEnds(owner)

\* The types of what a call and a cycle hold.
LEMMA CallTypes ==
  ASSUME Inv
  PROVE  /\ call \in [Procs -> CallRec] /\ ctl \in CycleRec /\ Ctl \in Procs
         /\ \A p \in Procs : /\ call[p] \in CallRec /\ Shaped(call[p]) /\ Backed(call[p])
                             /\ NodeOf(p) \in Nodes
<1>1. \A p \in Procs : NodeOf(p) \in Nodes BY ControlAssumption DEF NodeOf, Procs
<1> QED BY <1>1 DEF Inv, Typed, Procs

\* A plan's lookup is the controller's.
LEMMA PlansOwn ==
  ASSUME Inv, NEW p \in Procs, call[p].at # "idle", call[p].kind = "plan"
  PROVE  p = Ctl
BY DEF Inv, Phases

\* A call that goes on with another step of its own, without a lease to remember.
LEMMA StepsOn ==
  ASSUME Inv, NEW p \in Procs, NEW c \in CallRec, call[p].at # "idle",
         c.at \in {"placement", "lease", "version", "acquire"}, c.doc = call[p].doc, Shaped(c),
         c.kind = "plan" <=> call[p].kind = "plan",
         call' = [call EXCEPT ![p] = c], UNCHANGED <<ctl, report>>
  PROVE  Advance(p, c)
<1>1. Backed(c)' BY DEF Backed
<1> QED BY <1>1 DEF Advance

\* What follows a lookup.
LEMMA AfterLookup ==
  ASSUME Inv, NEW p \in Procs, call[p].at \in {"placement", "lease"}, NEW lease \in Lease \cup {None},
         lease # None => Given(Shard(p), lease.epoch, lease.node),
         Resolved(p, lease), UNCHANGED table
  PROVE  CallMoves(p)
<1>0. call \in [Procs -> CallRec] /\ call[p] \in CallRec /\ Shaped(call[p]) BY CallTypes
<1>1. call[p].at # "idle" /\ call[p].doc \in Docs BY <1>0 DEF Shaped
<1>2. CASE call[p].kind = "plan"
  <2> DEFINE owner == IF lease = None THEN None ELSE lease.node
  <2>1. owner \in Nodes \cup {None, "error"} BY DEF Lease
  <2>2. Planned(owner) BY <1>2 DEF Resolved
  <2>3. p = Ctl BY <1>1, <1>2, PlansOwn
  <2> HIDE DEF owner
  <2> QED BY <1>1, <1>2, <2>1, <2>2, <2>3 DEF PlanEnds, CallMoves
<1>3. ASSUME call[p].kind # "plan", NEW ok \in BOOLEAN, Return(p, ok, None) PROVE CallMoves(p)
  <2>1. True(None)' BY DEF True
  <2> QED BY <1>1, <1>3, <2>1 DEF Ends, CallMoves
<1>4. CASE call' = [call EXCEPT ![p].kind = "promote", ![p].at = "placement"] /\ Keep(p) /\ call[p].kind = "rebalance"
  <2>0. PICK c : c = [call[p] EXCEPT !.kind = "promote", !.at = "placement"] OBVIOUS
  <2>1. c \in CallRec /\ c.at = "placement" /\ c.doc = call[p].doc /\ c.kind = "promote" /\ c.target = call[p].target
    BY <1>0, <2>0 DEF CallRec, Steps
  <2>2. call' = [call EXCEPT ![p] = c] BY <1>0, <1>4, <2>0
  <2>3. Shaped(c) BY <1>0, <1>1, <1>4, <2>1 DEF Shaped
  <2>4. UNCHANGED <<ctl, report>> BY <1>4 DEF Keep
  <2>5. c.kind = "plan" <=> call[p].kind = "plan" BY <1>4, <2>1
  <2>6. Advance(p, c) BY <1>1, <2>1, <2>2, <2>3, <2>4, <2>5, StepsOn
  <2> QED BY <2>6 DEF CallMoves
<1>5. CASE call' = [call EXCEPT ![p].at = "handoff", ![p].seen = lease] /\ Keep(p)
           /\ call[p].kind = "rebalance" /\ lease # None
  <2>0. PICK c : c = [call[p] EXCEPT !.at = "handoff", !.seen = lease] OBVIOUS
  <2>1. c \in CallRec /\ c.at = "handoff" /\ c.doc = call[p].doc /\ c.kind = call[p].kind
        /\ c.target = call[p].target /\ c.seen = lease
    BY <1>0, <2>0 DEF CallRec, Steps
  <2>2. call' = [call EXCEPT ![p] = c] BY <1>0, <1>5, <2>0
  <2>3. Shaped(c) BY <1>0, <1>1, <1>5, <2>1 DEF Shaped
  <2>4. UNCHANGED <<ctl, report>> BY <1>5 DEF Keep
  <2>5. Given(Shard(p), lease.epoch, lease.node) BY <1>5
  <2>6. Backed(c)' BY <1>5, <2>1, <2>5 DEF Backed, Given, table, Shard
  <2>7. Advance(p, c) BY <1>1, <2>1, <2>2, <2>3, <2>4, <2>6 DEF Advance
  <2> QED BY <2>7 DEF CallMoves
<1>6. CASE Goto(p, "version") /\ Keep(p) /\ call[p].kind = "promote"
  <2>0. PICK c : c = [call[p] EXCEPT !.at = "version"] OBVIOUS
  <2>1. c \in CallRec /\ c.at = "version" /\ c.doc = call[p].doc /\ c.kind = call[p].kind /\ c.target = call[p].target
    BY <1>0, <2>0 DEF CallRec, Steps
  <2>2. call' = [call EXCEPT ![p] = c] BY <1>0, <1>6, <2>0 DEF Goto
  <2>3. Shaped(c) BY <1>0, <1>1, <1>6, <2>1 DEF Shaped
  <2>4. UNCHANGED <<ctl, report>> BY <1>6 DEF Keep
  <2>5. Advance(p, c) BY <1>1, <2>1, <2>2, <2>3, <2>4, StepsOn
  <2> QED BY <2>5 DEF CallMoves
<1> QED BY <1>2, <1>3, <1>4, <1>5, <1>6 DEF Resolved

\* A claim asks for the next generation, for its target.
LEMMA NewLeaseOf ==
  ASSUME Inv, NEW p \in Procs, call[p].at = "acquire"
  PROVE  /\ Shard(p) \in Shards /\ NewLease(p) \in Lease /\ NewLease(p).node = call[p].target
         /\ NewLease(p).epoch = gens[Shard(p)] + 1
<1>0. call[p] \in CallRec /\ Shaped(call[p]) BY CallTypes
<1>1. call[p].doc \in Docs /\ call[p].target \in Nodes BY <1>0 DEF Shaped
<1>2. Shard(p) \in Shards BY <1>1, ControlAssumption DEF Shard
<1>3. gens[Shard(p)] \in Nat /\ clock \in Nat BY <1>2 DEF Inv, Typed
<1>4. <<call[p].target, clock>> \in Tokens BY <1>1, <1>3 DEF Tokens
<1>5. gens[Shard(p)] + 1 \in Nat \ {0} /\ clock + TTL \in Nat BY <1>3, ControlAssumption
<1> QED BY <1>1, <1>2, <1>3, <1>4, <1>5 DEF NewLease, Lease

\* A handoff that the table accepts takes the very generation the lookup saw to the next.
LEMMA HandoffOf ==
  ASSUME Inv, NEW p \in Procs, call[p].at = "handoff",
         HandoffOutcome(leases[Shard(p)], gens[Shard(p)], call[p].seen.token, HandoffRecord(p)) = "ok"
  PROVE  /\ Shard(p) \in Shards /\ HandoffRecord(p) \in Lease /\ HandoffRecord(p).node = call[p].target
         /\ HandoffRecord(p).epoch = gens[Shard(p)] + 1 /\ call[p].seen.epoch = gens[Shard(p)]
         /\ Given(Shard(p), call[p].seen.epoch, call[p].seen.node)
<1>0. call[p] \in CallRec /\ Shaped(call[p]) /\ Backed(call[p]) BY CallTypes
<1>1. call[p].doc \in Docs /\ call[p].target \in Nodes BY <1>0 DEF Shaped
<1>2. Shard(p) \in Shards BY <1>1, ControlAssumption DEF Shard
<1>3. gens[Shard(p)] \in Nat /\ clock \in Nat /\ leases[Shard(p)] \in Lease \cup {None}
  BY <1>2 DEF Inv, Typed
<1>4. <<call[p].target, clock>> \in Tokens BY <1>1, <1>3 DEF Tokens
<1>5. call[p].seen \in Lease /\ Given(Shard(p), call[p].seen.epoch, call[p].seen.node)
  BY <1>0 DEF Backed, Shard, CallRec
<1>6. call[p].seen.epoch \in Nat \ {0} BY <1>5 DEF Lease
<1>7. /\ HandoffRecord(p).epoch = call[p].seen.epoch + 1 /\ HandoffRecord(p).node = call[p].target
      /\ HandoffRecord(p) = [node |-> call[p].target, epoch |-> call[p].seen.epoch + 1,
           token |-> <<call[p].target, clock>>, acquiredAt |-> clock, expiresAt |-> clock + TTL]
  BY DEF HandoffRecord, NewLease
<1>8. call[p].seen.epoch + 1 \in Nat \ {0} /\ clock + TTL \in Nat BY <1>3, <1>6, ControlAssumption
<1>9. HandoffRecord(p) \in Lease BY <1>1, <1>3, <1>4, <1>7, <1>8 DEF Lease
<1>10. /\ leases[Shard(p)] # None
       /\ HandoffRecord(p).epoch = leases[Shard(p)].epoch + 1
  BY DEF HandoffOutcome
<1>11. leases[Shard(p)].epoch = gens[Shard(p)] BY <1>2, <1>10 DEF Inv, Recorded
<1> QED BY <1>2, <1>3, <1>5, <1>6, <1>7, <1>9, <1>10, <1>11

\* Every step of a call.
LEMMA CallSteps ==
  ASSUME Inv, NEW p \in Procs, CallStep(p) \/ FaultyStep(p)
  PROVE  TableStep /\ CallMoves(p) /\ UNCHANGED clock /\ placed' \in SUBSET Docs
<1>0. call \in [Procs -> CallRec] /\ call[p] \in CallRec /\ Shaped(call[p]) /\ Backed(call[p]) BY CallTypes
<1>p. placed \in SUBSET Docs BY DEF Inv, Typed
<1>q. \A ok \in BOOLEAN : Return(p, ok, None) /\ call[p].at # "idle" /\ call[p].kind # "plan" => CallMoves(p)
  <2>1. True(None)' BY DEF True
  <2> QED BY <2>1 DEF Ends, CallMoves
<1>r. call[p].at # "idle" => call[p].doc \in Docs /\ Shard(p) \in Shards
  BY <1>0, ControlAssumption DEF Shaped, Shard
<1>1. CASE LoadPlacement(p)
  <2>1. UNCHANGED table /\ UNCHANGED clock /\ placed' = placed BY <1>1 DEF LoadPlacement, store, table
  <2>2. CASE Goto(p, "lease") /\ Keep(p)
    <3>0. PICK c : c = [call[p] EXCEPT !.at = "lease"] OBVIOUS
    <3>1. c \in CallRec /\ c.at = "lease" /\ c.doc = call[p].doc /\ c.kind = call[p].kind /\ c.target = call[p].target
      BY <1>0, <3>0 DEF CallRec, Steps
    <3>2. call' = [call EXCEPT ![p] = c] BY <1>0, <2>2, <3>0 DEF Goto
    <3>3. call[p].at = "placement" BY <1>1 DEF LoadPlacement, At
    <3>4. Shaped(c) BY <1>0, <3>1, <3>3 DEF Shaped
    <3>5. UNCHANGED <<ctl, report>> BY <2>2 DEF Keep
    <3>6. Advance(p, c) BY <3>1, <3>2, <3>3, <3>4, <3>5, StepsOn
    <3> QED BY <1>p, <2>1, <3>6 DEF CallMoves, TableStep
  <2>3. CASE Resolved(p, None)
    <3>1. call[p].at = "placement" BY <1>1 DEF LoadPlacement, At
    <3>2. CallMoves(p) BY <2>1, <2>3, <3>1, AfterLookup
    <3> QED BY <1>p, <2>1, <3>2 DEF TableStep
  <2> QED BY <1>1, <2>2, <2>3 DEF LoadPlacement
<1>2. CASE LoadLease(p)
  <2>1. UNCHANGED table /\ UNCHANGED clock /\ placed' = placed BY <1>2 DEF LoadLease, store, table
  <2>2. call[p].at = "lease" /\ Resolved(p, Found(p)) BY <1>2 DEF LoadLease, At
  <2>3. Shard(p) \in Shards BY <1>r, <2>2
  <2>4. leases[Shard(p)] \in Lease \cup {None} BY <2>3 DEF Inv, Typed
  <2>5. Found(p) \in Lease \cup {None} BY <2>4 DEF Found
  <2>6. Found(p) # None => Given(Shard(p), Found(p).epoch, Found(p).node)
    BY <2>3 DEF Found, Inv, Recorded
  <2>7. PICK lease \in Lease \cup {None} : lease = Found(p) BY <2>5
  <2>8. CallMoves(p) BY <2>1, <2>2, <2>6, <2>7, AfterLookup
  <2> QED BY <1>p, <2>1, <2>8 DEF TableStep
<1>3. CASE ResolvePlacementVersion(p)
  <2>1. UNCHANGED table /\ UNCHANGED clock /\ placed' = placed /\ call[p].at = "version"
    BY <1>3 DEF ResolvePlacementVersion, store, table, At
  <2>2. PICK c : c = [call[p] EXCEPT !.at = "acquire"] OBVIOUS
  <2>3. c \in CallRec /\ c.at = "acquire" /\ c.doc = call[p].doc /\ c.kind = call[p].kind /\ c.target = call[p].target
    BY <1>0, <2>2 DEF CallRec, Steps
  <2>4. call' = [call EXCEPT ![p] = c] BY <1>0, <1>3, <2>2 DEF ResolvePlacementVersion, Goto
  <2>5. Shaped(c) BY <1>0, <2>1, <2>3 DEF Shaped
  <2>6. UNCHANGED <<ctl, report>> BY <1>3 DEF ResolvePlacementVersion, Keep
  <2>7. Advance(p, c) BY <2>1, <2>3, <2>4, <2>5, <2>6, StepsOn
  <2> QED BY <1>p, <2>1, <2>7 DEF CallMoves, TableStep
<1>4. CASE Acquire(p)
  <2>1. call[p].at = "acquire" /\ UNCHANGED clock BY <1>4 DEF Acquire, At
  <2>2. call[p].kind # "plan" /\ call[p].target \in Nodes /\ call[p].doc \in Docs BY <1>0, <2>1 DEF Shaped
  <2>3. Shard(p) \in Shards BY <1>r, <2>1
  <2>4. leases[Shard(p)] \in Lease \cup {None} BY <2>3 DEF Inv, Typed
  <2>5. CASE Return(p, FALSE, None) /\ UNCHANGED store
    BY <1>p, <1>q, <2>1, <2>2, <2>5 DEF TableStep, table, store
  <2>s. PICK s \in Shards : s = Shard(p) BY <2>3
  <2>6. ASSUME NEW lease \in Lease, lease.node = call[p].target, Given(s, lease.epoch, lease.node)',
               NEW acquired \in BOOLEAN,
               call' = [call EXCEPT ![p].at = "save", ![p].seen = lease, ![p].acquired = acquired],
               UNCHANGED <<ctl, report>>
        PROVE  CallMoves(p)
    <3>0. PICK c : c = [call[p] EXCEPT !.at = "save", !.seen = lease, !.acquired = acquired] OBVIOUS
    <3>1. c \in CallRec /\ c.at = "save" /\ c.doc = call[p].doc /\ c.kind = call[p].kind
          /\ c.target = call[p].target /\ c.seen = lease
      BY <1>0, <3>0 DEF CallRec, Steps
    <3>2. call' = [call EXCEPT ![p] = c] BY <1>0, <2>6, <3>0
    <3>3. Shaped(c) BY <2>2, <3>1 DEF Shaped
    <3>5. ShardOf[c.doc] = s /\ c.target = lease.node BY <2>s, <2>6, <3>1 DEF Shard
    <3>6. Given(s, lease.epoch, lease.node)' BY <2>6
    <3>7. lease # None BY NoneAssumption
    <3>8. Backed(c)' BY <3>1, <3>5, <3>6, <3>7 DEF Backed
    <3>9. Advance(p, c) BY <2>1, <2>6, <3>1, <3>2, <3>3, <3>8 DEF Advance
    <3> QED BY <3>9 DEF CallMoves
  <2>7. CASE /\ HeldAt(leases[Shard(p)], clock) /\ leases[Shard(p)].node = call[p].target
             /\ call' = [call EXCEPT ![p].at = "save", ![p].seen = leases[Shard(p)]]
             /\ Keep(p) /\ UNCHANGED store
    <3>1. PICK lease \in Lease : lease = leases[s] BY <2>4, <2>s, <2>7 DEF HeldAt
    <3>2. Given(s, lease.epoch, lease.node) BY <2>7, <2>s, <3>1 DEF HeldAt, Inv, Recorded
    <3>3. Given(s, lease.epoch, lease.node)' BY <2>7, <3>2 DEF Given, store
    <3>4. PICK acquired \in BOOLEAN : acquired = call[p].acquired BY <1>0 DEF CallRec
    <3>5. call' = [call EXCEPT ![p].at = "save", ![p].seen = lease, ![p].acquired = acquired]
      <4>1. [call[p] EXCEPT !.at = "save", !.seen = lease]
              = [call[p] EXCEPT !.at = "save", !.seen = lease, !.acquired = acquired]
        BY <1>0, <3>4 DEF CallRec
      <4> QED BY <1>0, <2>7, <2>s, <3>1, <4>1
    <3>6. CallMoves(p) BY <2>6, <2>7, <2>s, <3>1, <3>3, <3>5 DEF Keep
    <3> QED BY <1>p, <2>1, <2>7, <3>6 DEF TableStep, table, store
  <2>8. CASE /\ Grant(Shard(p), NewLease(p))
             /\ call' = [call EXCEPT ![p].at = "save", ![p].seen = NewLease(p), ![p].acquired = TRUE]
             /\ Keep(p) /\ UNCHANGED placed
    <3>1. PICK lease \in Lease : lease = NewLease(p) BY <2>1, NewLeaseOf
    <3>2. lease.node = call[p].target /\ lease.epoch = gens[s] + 1 BY <2>1, <2>s, <3>1, NewLeaseOf
    <3>3. Grant(s, lease) BY <2>8, <2>s, <3>1
    <3>4. Given(s, lease.epoch, lease.node)' BY <3>2, <3>3, Granted
    <3>5. CallMoves(p) BY <2>6, <2>8, <3>1, <3>2, <3>4 DEF Keep
    <3> QED BY <1>p, <2>1, <2>8, <3>2, <3>3, <3>5 DEF TableStep
  <2> QED BY <1>4, <2>5, <2>7, <2>8 DEF Acquire
<1>5. CASE SavePlacement(p)
  <2>1. call[p].at = "save" /\ UNCHANGED clock /\ UNCHANGED table /\ placed' = placed \cup {call[p].doc}
    BY <1>5 DEF SavePlacement, At, table
  <2>2. call[p].kind # "plan" /\ call[p].target \in Nodes /\ call[p].doc \in Docs BY <1>0, <2>1 DEF Shaped
  <2>3. PICK told : told = Promoted(p) OBVIOUS
  <2>4. True(told)
    <3>1. CASE told = None BY <3>1 DEF True
    <3>2. CASE told = [doc |-> call[p].doc, from |-> None, to |-> call[p].target, epoch |-> call[p].seen.epoch]
      <4>1. told.doc = call[p].doc /\ told.from = None /\ told.to = call[p].target /\ told.epoch = call[p].seen.epoch
        BY <3>2
      <4>2. Given(ShardOf[call[p].doc], call[p].seen.epoch, call[p].target) BY <1>0, <2>1 DEF Backed
      <4> QED BY <2>2, <4>1, <4>2 DEF True
    <3> QED BY <2>3, <3>1, <3>2 DEF Promoted
  <2>5. True(told)' BY <2>1, <2>4 DEF True, Given, table
  <2>6. Ends(p, TRUE, told) BY <1>5, <2>1, <2>2, <2>3, <2>5 DEF Ends, SavePlacement
  <2> QED BY <1>p, <2>1, <2>2, <2>6 DEF CallMoves, TableStep
<1>6. CASE Undo(p)
  <2>1. call[p].at = "undo" /\ UNCHANGED clock /\ Return(p, FALSE, None) /\ placed' = placed
    BY <1>6 DEF Undo, At, store
  <2>2. call[p].kind # "plan" BY <1>0, <2>1 DEF Shaped
  <2>3. TableStep BY <1>6, <1>r, <2>1 DEF Undo, TableStep, table, store
  <2> QED BY <1>p, <1>q, <2>1, <2>2, <2>3
<1>7. CASE HandoffDocument(p)
  <2>1. call[p].at = "handoff" /\ UNCHANGED clock /\ placed' = placed BY <1>7 DEF HandoffDocument, At
  <2>2. call[p].kind # "plan" /\ call[p].target \in Nodes /\ call[p].doc \in Docs BY <1>0, <2>1 DEF Shaped
  <2>3. CASE UNCHANGED <<leases, gens, holders>> /\ Return(p, FALSE, None)
    BY <1>p, <1>q, <2>1, <2>2, <2>3 DEF TableStep, table
  <2>4. CASE /\ HandoffOutcome(leases[Shard(p)], gens[Shard(p)], call[p].seen.token, HandoffRecord(p)) = "ok"
             /\ Grant(Shard(p), HandoffRecord(p))
             /\ Return(p, TRUE, [doc |-> call[p].doc, from |-> call[p].seen.node,
                                 to |-> call[p].target, epoch |-> call[p].seen.epoch + 1])
    <3>1. PICK s \in Shards, rec \in Lease : s = Shard(p) /\ rec = HandoffRecord(p)
      BY <2>1, <2>4, HandoffOf
    <3>2. /\ rec.node = call[p].target /\ rec.epoch = gens[s] + 1 /\ call[p].seen.epoch = gens[s]
          /\ Given(s, call[p].seen.epoch, call[p].seen.node)
      BY <2>1, <2>4, <3>1, HandoffOf
    <3>3. Grant(s, rec) BY <2>4, <3>1
    <3>4. HistoryKept /\ Given(s, rec.epoch, rec.node)' BY <3>2, <3>3, Granted
    <3>5. PICK old : old = call[p].seen OBVIOUS
    <3>6. Given(s, old.epoch, old.node)' BY <3>2, <3>4, <3>5 DEF HistoryKept
    <3>7. gens[s] \in Nat BY DEF Inv, Typed
    <3>8. PICK told : told = [doc |-> call[p].doc, from |-> call[p].seen.node,
                              to |-> call[p].target, epoch |-> call[p].seen.epoch + 1]
      OBVIOUS
    <3>9. told.doc = call[p].doc /\ told.from = old.node /\ told.to = rec.node /\ told.epoch = rec.epoch
          /\ told.epoch - 1 = old.epoch /\ ShardOf[told.doc] = s
      <4>1. told.doc = call[p].doc /\ told.from = call[p].seen.node /\ told.to = call[p].target
            /\ told.epoch = call[p].seen.epoch + 1
        BY <3>8
      <4>3. told.epoch = gens[s] + 1 /\ rec.epoch = gens[s] + 1 /\ old.epoch = gens[s] BY <3>2, <3>5, <4>1
      <4>4. told.epoch - 1 = old.epoch
        <5>1. PICK e \in Nat : e = gens[s] BY <3>7
        <5>2. told.epoch = e + 1 /\ old.epoch = e BY <4>3, <5>1
        <5> QED BY <5>1, <5>2, SMT
      <4>5. told.from = old.node /\ told.to = rec.node BY <3>2, <3>5, <4>1
      <4>6. ShardOf[told.doc] = s BY <3>1, <4>1 DEF Shard
      <4> QED BY <4>1, <4>3, <4>4, <4>5, <4>6
    <3>10. True(told)'
      <4>1. told.doc \in Docs BY <2>2, <3>9
      <4>2. Given(s, told.epoch, told.to)' BY <3>4, <3>9
      <4>3. Given(s, told.epoch - 1, told.from)' BY <3>6, <3>9
      <4> QED BY <3>9, <4>1, <4>2, <4>3 DEF True
    <3>11. Ends(p, TRUE, told) BY <2>1, <2>2, <2>4, <3>8, <3>10 DEF Ends
    <3> QED BY <1>p, <2>1, <3>2, <3>3, <3>11 DEF CallMoves, TableStep
  <2> QED BY <1>7, <2>3, <2>4 DEF HandoffDocument
<1>8. CASE FaultyStep(p)
  <2>1. call[p].at # "idle" /\ UNCHANGED clock /\ UNCHANGED table /\ placed' = placed
    BY <1>8 DEF FaultyStep, At, store, table
  <2>2. PICK live \in {FALSE, call[p].live} :
          \/ /\ call[p].at = "save"
             /\ call' = [call EXCEPT ![p].at = "undo", ![p].live = live] /\ Keep(p)
          \/ call[p].kind = "plan" /\ Planned("error")
          \/ call[p].kind # "plan" /\ Return(p, FALSE, None)
    BY <1>8 DEF FaultyStep, At
  <2>3. CASE /\ call[p].at = "save"
             /\ call' = [call EXCEPT ![p].at = "undo", ![p].live = live] /\ Keep(p)
    <3>0. PICK c : c = [call[p] EXCEPT !.at = "undo", !.live = live] OBVIOUS
    <3>1. c \in CallRec /\ c.at = "undo" /\ c.doc = call[p].doc /\ c.kind = call[p].kind
          /\ c.target = call[p].target /\ c.seen = call[p].seen
      BY <1>0, <3>0 DEF CallRec, Steps
    <3>2. call' = [call EXCEPT ![p] = c] BY <1>0, <2>3, <3>0
    <3>3. Shaped(c) BY <1>0, <2>3, <3>1 DEF Shaped
    <3>4. Backed(c) BY <1>0, <2>3, <3>1 DEF Backed
    <3>5. Backed(c)' BY <2>1, <3>4 DEF Backed, Given, table
    <3>6. Advance(p, c) BY <2>1, <2>3, <3>1, <3>2, <3>3, <3>5 DEF Advance, Keep
    <3> QED BY <1>p, <2>1, <3>6 DEF CallMoves, TableStep
  <2>4. CASE call[p].kind = "plan" /\ Planned("error")
    <3>1. p = Ctl BY <2>1, <2>4, PlansOwn
    <3>2. PlanEnds("error") BY <2>1, <2>4, <3>1 DEF PlanEnds
    <3> QED BY <1>p, <2>1, <3>1, <3>2 DEF CallMoves, TableStep
  <2>5. CASE call[p].kind # "plan" /\ Return(p, FALSE, None) BY <1>p, <1>q, <2>1, <2>5 DEF TableStep
  <2> QED BY <2>2, <2>3, <2>4, <2>5
<1> QED BY <1>1, <1>2, <1>3, <1>4, <1>5, <1>6, <1>7, <1>8 DEF CallStep

-----------------------------------------------------------------------------
(* Callers.                                                                *)

\* Every call begins with a document, and a target unless it is a plan's.
LEMMA Starting ==
  ASSUME Inv, NEW p \in Procs, call[p].at = "idle", NEW kind \in {"plan", "claim", "promote", "rebalance"},
         NEW d \in Docs, NEW target \in Nodes \cup {None}, NEW promote \in BOOLEAN,
         Start(p, kind, d, target, promote), UNCHANGED ctl, kind # "plan" => target \in Nodes,
         IF p = Ctl THEN \/ ctl.at = "planning" /\ kind = "plan" /\ d \in ctl.docs
                         \/ ctl.at = "executing" /\ kind # "plan"
                    ELSE kind # "plan"
  PROVE  \E c : Begins(p, c)
<1>1. PICK at \in {"placement", "version"} : at = IF kind = "claim" THEN "version" ELSE "placement" OBVIOUS
<1>2. PICK c : c = [Idle EXCEPT !.at = at, !.kind = kind, !.doc = d, !.target = target, !.promote = promote]
  OBVIOUS
<1>3. c \in CallRec /\ c.at = at /\ c.kind = kind /\ c.doc = d /\ c.target = target
  BY <1>2 DEF CallRec, Steps, Idle
<1>4. call' = [call EXCEPT ![p] = c] /\ report' = None BY <1>1, <1>2 DEF Start
<1>5. Shaped(c) BY <1>1, <1>3 DEF Shaped
<1> QED BY <1>3, <1>4, <1>5 DEF Begins

\* Who begins calls: the users, the plan's lookups and the execution's moves.
LEMMA Beginnings ==
  ASSUME Inv, (\E u \in Users : UserCall(u)) \/ PlanLookup \/ ExecuteMove
  PROVE  /\ \E p \in Procs : \E c : Begins(p, c)
         /\ UNCHANGED <<clock, placed, table>>
<1>0. Ctl \in Procs /\ ctl \in CycleRec BY CallTypes
<1>1. ASSUME NEW u \in Users, UserCall(u)
      PROVE  (\E p \in Procs : \E c : Begins(p, c)) /\ UNCHANGED <<clock, placed, table>>
  <2>1. u \in Procs /\ u # Ctl /\ UserNode[u] \in Nodes BY ControlAssumption DEF Procs
  <2>2. call[u].at = "idle" /\ UNCHANGED ctl /\ UNCHANGED <<clock, placed, table>>
    BY <1>1 DEF UserCall, At, store, table
  <2>3. PICK d \in Docs : \/ \E kind \in {"claim", "promote"} : Start(u, kind, d, UserNode[u], FALSE)
                          \/ \E n \in Nodes : Start(u, "rebalance", d, n, TRUE)
    BY <1>1 DEF UserCall
  <2>4. CASE \E kind \in {"claim", "promote"} : Start(u, kind, d, UserNode[u], FALSE)
    <3>1. PICK kind \in {"claim", "promote"} : Start(u, kind, d, UserNode[u], FALSE) BY <2>4
    <3>2. \E c : Begins(u, c) BY <2>1, <2>2, <3>1, Starting
    <3> QED BY <2>1, <2>2, <3>2
  <2>5. CASE \E n \in Nodes : Start(u, "rebalance", d, n, TRUE)
    <3>1. PICK n \in Nodes : Start(u, "rebalance", d, n, TRUE) BY <2>5
    <3>2. \E c : Begins(u, c) BY <2>1, <2>2, <3>1, Starting
    <3> QED BY <2>1, <2>2, <3>2
  <2> QED BY <2>3, <2>4, <2>5
<1>2. CASE PlanLookup
  <2>1. call[Ctl].at = "idle" /\ ctl.at = "planning" /\ UNCHANGED ctl /\ UNCHANGED <<clock, placed, table>>
        /\ ctl.docs # {} /\ Start(Ctl, "plan", First(ctl.docs), None, FALSE)
    BY <1>2 DEF PlanLookup, At, store, table
  <2>2. ctl.docs \in SUBSET Docs BY <1>0 DEF CycleRec
  <2>3. PICK d \in Docs : d = First(ctl.docs) /\ d \in ctl.docs BY <2>1, <2>2, FirstOf
  <2>4. Start(Ctl, "plan", d, None, FALSE) BY <2>1, <2>3
  <2>5. \E c : Begins(Ctl, c) BY <1>0, <2>1, <2>3, <2>4, Starting
  <2> QED BY <1>0, <2>1, <2>5
<1>3. CASE ExecuteMove
  <2>1. call[Ctl].at = "idle" /\ ctl.at = "executing" /\ UNCHANGED ctl /\ UNCHANGED <<clock, placed, table>>
        /\ ctl.next <= Len(ctl.plan.moves)
    BY <1>3 DEF ExecuteMove, At, store, table
  <2>2. PICK move : move = ctl.plan.moves[ctl.next] OBVIOUS
  <2>3. move \in Move
    <3>1. ctl.plan.moves \in Seq(Move) BY <2>1 DEF Inv, PlanSound, Sound, PlanRec
    <3>2. ctl.next \in Nat \ {0} BY <1>0 DEF CycleRec
    <3> QED BY <2>1, <2>2, <3>1, <3>2
  <2>4. move.doc \in Docs /\ move.to \in Nodes BY <2>3 DEF Move
  <2>5. PICK promote \in BOOLEAN : promote = (move.from = None) OBVIOUS
  <2>6. Start(Ctl, "rebalance", move.doc, move.to, promote) BY <1>3, <2>2, <2>5 DEF ExecuteMove
  <2>7. \E c : Begins(Ctl, c) BY <1>0, <2>1, <2>4, <2>6, Starting
  <2> QED BY <1>0, <2>1, <2>7
<1> QED BY <1>1, <1>2, <1>3

-----------------------------------------------------------------------------
(* The invariant is kept.                                                  *)

\* The cycle is where it was, up to the move that is next and what became of the last.
SameCycle ==
  /\ ctl' \in CycleRec
  /\ ctl'.at = ctl.at /\ ctl'.docs = ctl.docs /\ ctl'.targets = ctl.targets /\ ctl'.plan = ctl.plan

\* The plan in the cycle is not touched.
LEMMA SamePlan ==
  ASSUME Inv, SameCycle
  PROVE  PlanSound' /\ PlanBalances'
<1>1. PlanSound' BY DEF Inv, PlanSound, SameCycle
<1>2. PlanBalances' BY DEF Inv, PlanBalances, SameCycle
<1> QED BY <1>1, <1>2

\* What a call remembers and what was reported stay true while the history grows.
LEMMA StillBacked ==
  ASSUME HistoryKept, NEW c, Shaped(c), Backed(c)
  PROVE  Backed(c)'
<1> SUFFICES ASSUME c.at \in {"save", "undo", "handoff"}
             PROVE  c.seen # None /\ Given(ShardOf[c.doc], c.seen.epoch, c.seen.node)'
                    /\ (c.at \in {"save", "undo"} => c.seen.node = c.target)
  BY DEF Backed
<1>1. ShardOf[c.doc] \in Shards BY ControlAssumption DEF Shaped
<1> QED BY <1>1 DEF Backed, HistoryKept

\* A report made earlier stays true.
LEMMA StillTrue ==
  ASSUME HistoryKept, NEW told, True(told)
  PROVE  True(told)'
<1>1. told # None => ShardOf[told.doc] \in Shards BY ControlAssumption DEF True
<1> QED BY <1>1 DEF True, HistoryKept

\* The calls keep their shape when one of them is replaced.
LEMMA CallsKept ==
  ASSUME Inv, HistoryKept, NEW p \in Procs, NEW c \in CallRec, Shaped(c), Backed(c)',
         call' = [call EXCEPT ![p] = c]
  PROVE  /\ call' \in [Procs -> CallRec] /\ call'[p] = c
         /\ \A q \in Procs : q # p => call'[q] = call[q]
         /\ \A q \in Procs : Shaped(call[q])' /\ Backed(call[q])'
<1>0. call \in [Procs -> CallRec] /\ \A q \in Procs : Shaped(call[q]) /\ Backed(call[q]) BY CallTypes
<1>1. call' \in [Procs -> CallRec] /\ call'[p] = c /\ \A q \in Procs : q # p => call'[q] = call[q] BY <1>0
<1>2. ASSUME NEW q \in Procs PROVE Shaped(call[q])' /\ Backed(call[q])'
  <2>1. CASE q = p BY <1>1, <2>1 DEF Shaped, Backed
  <2>2. CASE q # p
    <3>1. PICK k : k = call[q] OBVIOUS
    <3>2. call'[q] = k BY <1>1, <2>2, <3>1
    <3>3. Shaped(k) /\ Backed(k)' BY <1>0, <3>1, StillBacked
    <3> QED BY <3>2, <3>3 DEF Shaped, Backed
  <2> QED BY <2>1, <2>2
<1> QED BY <1>1, <1>2

\* Nothing is remembered by a goroutine that is not in a call.
LEMMA IdleCall == Idle \in CallRec /\ Shaped(Idle) /\ Idle.at = "idle" /\ Backed(Idle) /\ Backed(Idle)'
<1>1. Idle \in CallRec /\ Idle.at = "idle" /\ Idle.kind = "none" BY DEF Idle, CallRec, Steps
<1> HIDE DEF Idle
<1>2. Idle' = Idle BY DEF Idle
<1> QED BY <1>1, <1>2 DEF Shaped, Backed

\* A step of a call, or a new call, keeps the invariant.
LEMMA MovesKeep ==
  ASSUME Inv, TableStep, UNCHANGED clock, placed' \in SUBSET Docs, NEW p \in Procs,
         CallMoves(p) \/ \E c : Begins(p, c)
  PROVE  Inv'
<1>0. ctl \in CycleRec /\ Ctl \in Procs /\ clock' \in Nat /\ call[Ctl] \in CallRec BY CallTypes DEF Inv, Typed
<1>1. TableTyped' /\ Recorded' /\ HistoryKept BY Recording
<1>t. True(None)' BY DEF True
<1>s. UNCHANGED ctl => SameCycle BY <1>0 DEF SameCycle
<1>q. ASSUME call' \in [Procs -> CallRec], \A q \in Procs : Shaped(call[q])' /\ Backed(call[q])',
             Phases', PlanSound', PlanBalances', True(report)', ctl' \in CycleRec
      PROVE  Inv'
  BY <1>0, <1>1, <1>q DEF Inv, Typed, TableTyped
<1>2. ASSUME NEW c, Advance(p, c) PROVE Inv'
  <2>1. /\ call' \in [Procs -> CallRec] /\ call'[p] = c
        /\ \A q \in Procs : q # p => call'[q] = call[q]
        /\ \A q \in Procs : Shaped(call[q])' /\ Backed(call[q])'
    BY <1>1, <1>2, CallsKept DEF Advance
  <2>2. /\ UNCHANGED ctl /\ UNCHANGED report /\ call[p].at # "idle" /\ c.at # "idle"
        /\ c.doc = call[p].doc /\ (c.kind = "plan" <=> call[p].kind = "plan")
    BY <1>2 DEF Advance
  <2>3. PlanSound' /\ PlanBalances' BY <1>s, <2>2, SamePlan
  <2>4. Phases' BY <1>0, <2>1, <2>2 DEF Inv, Phases
  <2>5. True(report)'
    <3>1. PICK told : told = report OBVIOUS
    <3>2. True(told)' BY <1>1, <3>1, StillTrue DEF Inv
    <3> QED BY <2>2, <3>1, <3>2 DEF True
  <2> QED BY <1>0, <1>q, <2>1, <2>2, <2>3, <2>4, <2>5
<1>3. ASSUME NEW ok \in BOOLEAN, NEW told, Ends(p, ok, told) PROVE Inv'
  <2>0. call' = [call EXCEPT ![p] = Idle] /\ call[p].at # "idle" /\ call[p].kind # "plan"
    BY <1>3 DEF Ends, Return
  <2>i. PICK c : c = Idle OBVIOUS
  <2>j. c \in CallRec /\ Shaped(c) /\ c.at = "idle" /\ Backed(c)' BY <2>i, IdleCall DEF Backed
  <2>1. /\ call' \in [Procs -> CallRec] /\ call'[p] = c
        /\ \A q \in Procs : q # p => call'[q] = call[q]
        /\ \A q \in Procs : Shaped(call[q])' /\ Backed(call[q])'
    BY <1>1, <2>0, <2>i, <2>j, CallsKept
  <2>2. SameCycle
    <3>1. CASE p = Ctl
      <4>1. ctl' = [ctl EXCEPT !.next = ctl.next + 1, !.failed = ctl.failed \/ ~ok]
        BY <1>3, <3>1 DEF Ends, Return
      <4>2. ctl.next + 1 \in Nat \ {0} /\ (ctl.failed \/ ~ok) \in BOOLEAN BY <1>0 DEF CycleRec
      <4> QED BY <1>0, <4>1, <4>2 DEF SameCycle, CycleRec
    <3>2. CASE p # Ctl BY <1>3, <1>s, <3>2 DEF Ends, Return
    <3> QED BY <3>1, <3>2
  <2>3. PlanSound' /\ PlanBalances' BY <2>2, SamePlan
  <2>4. Phases' BY <1>0, <2>1, <2>2, <2>j DEF Inv, Phases, SameCycle
  <2>5. True(report)'
    <3>1. report' = IF ok THEN told ELSE None BY <1>3 DEF Ends, Return
    <3>2. ok => True(told)' BY <1>3 DEF Ends
    <3> QED BY <1>t, <3>1, <3>2 DEF True
  <2> QED BY <1>q, <2>1, <2>2, <2>3, <2>4, <2>5 DEF SameCycle
<1>4. ASSUME NEW owner \in Nodes \cup {None, "error"}, p = Ctl, PlanEnds(owner) PROVE Inv'
  <2>0. /\ call[Ctl].at # "idle" /\ call[Ctl].kind = "plan" /\ call' = [call EXCEPT ![Ctl] = Idle]
        /\ ctl' = [ctl EXCEPT !.docs = ctl.docs \ {call[Ctl].doc},
             !.plan = PlanDocument(ctl.plan, ctl.targets, call[Ctl].doc, owner)]
        /\ UNCHANGED report
    BY <1>4 DEF PlanEnds, Planned
  <2>i. PICK c : c = Idle OBVIOUS
  <2>j. c \in CallRec /\ Shaped(c) /\ c.at = "idle" /\ Backed(c)' BY <2>i, IdleCall DEF Backed
  <2>1. /\ call' \in [Procs -> CallRec] /\ call'[Ctl] = c
        /\ \A q \in Procs : q # Ctl => call'[q] = call[q]
        /\ \A q \in Procs : Shaped(call[q])' /\ Backed(call[q])'
    BY <1>0, <1>1, <2>0, <2>i, <2>j, CallsKept
  <2>2. ctl.at = "planning" /\ call[Ctl].doc \in ctl.docs BY <1>0, <2>0 DEF Inv, Phases
  <2>3. PICK d, docs, targets, plan :
          d = call[Ctl].doc /\ docs = ctl.docs /\ targets = ctl.targets /\ plan = ctl.plan
    OBVIOUS
  <2>4. docs \in SUBSET Docs /\ targets \in SUBSET Nodes /\ d \in docs BY <1>0, <2>2, <2>3 DEF CycleRec
  <2>5. targets # {} /\ Sound(plan, docs, targets) BY <2>2, <2>3 DEF Inv, PlanSound
  <2>6. Sound(PlanDocument(plan, targets, d, owner), docs \ {d}, targets) BY <2>4, <2>5, PlanDocumentSound
  <2>7. PICK new : new = PlanDocument(plan, targets, d, owner) OBVIOUS
  <2>8. Sound(new, docs \ {d}, targets) BY <2>6, <2>7
  <2>9. new \in Plans BY <2>4, <2>8 DEF Sound, Plans
  <2>10. ctl' = [ctl EXCEPT !.docs = docs \ {d}, !.plan = new] BY <2>0, <2>3, <2>7
  <2>11. /\ ctl' \in CycleRec /\ ctl'.at = "planning" /\ ctl'.docs = docs \ {d}
         /\ ctl'.plan = new /\ ctl'.targets = targets
    BY <1>0, <2>2, <2>3, <2>4, <2>9, <2>10 DEF CycleRec
  <2>12. PlanSound' /\ PlanBalances' BY <2>5, <2>8, <2>11 DEF PlanSound, PlanBalances
  <2>13. Phases' BY <1>0, <2>1, <2>2, <2>11, <2>j DEF Inv, Phases
  <2>14. True(report)'
    <3>1. PICK told : told = report OBVIOUS
    <3>2. True(told)' BY <1>1, <3>1, StillTrue DEF Inv
    <3> QED BY <2>0, <3>1, <3>2 DEF True
  <2> QED BY <1>q, <2>1, <2>11, <2>12, <2>13, <2>14
<1>5. ASSUME NEW c, Begins(p, c) PROVE Inv'
  <2>0. Backed(c)' BY <1>5 DEF Begins, Backed
  <2>1. /\ call' \in [Procs -> CallRec] /\ call'[p] = c
        /\ \A q \in Procs : q # p => call'[q] = call[q]
        /\ \A q \in Procs : Shaped(call[q])' /\ Backed(call[q])'
    BY <1>1, <1>5, <2>0, CallsKept DEF Begins
  <2>2. UNCHANGED ctl /\ report' = None BY <1>5 DEF Begins
  <2>3. PlanSound' /\ PlanBalances' BY <1>s, <2>2, SamePlan
  <2>4. Phases' BY <1>0, <1>5, <2>1, <2>2 DEF Inv, Phases, Begins
  <2>5. True(report)' BY <2>2 DEF True
  <2> QED BY <1>0, <1>q, <2>1, <2>2, <2>3, <2>4, <2>5
<1> QED BY <1>2, <1>3, <1>4, <1>5 DEF CallMoves

\* A step that leaves store and calls alone.
LEMMA Elsewhere ==
  ASSUME Inv, UNCHANGED <<placed, table, call>>, clock' \in Nat, report' \in {None, report},
         ctl' \in CycleRec, PlanSound', PlanBalances', Phases'
  PROVE  Inv'
<1>1. Typed' BY DEF Inv, Typed, table
<1>2. Recorded' BY DEF Inv, Recorded, Given, table
<1>3. True(report)' BY DEF Inv, True, Given, table
<1>4. \A p \in Procs : Shaped(call[p])' /\ Backed(call[p])' BY DEF Inv, Shaped, Backed, Given, table
<1> QED BY <1>1, <1>2, <1>3, <1>4 DEF Inv

\* A controller that waits has no plan.
LEMMA WaitingCycle == Waiting \in CycleRec /\ Waiting.at = "waiting"
<1>1. EmptyPlan({}) \in PlanRec({}) BY EmptySound DEF Sound
<1>2. EmptyPlan({}) \in Plans BY <1>1 DEF Plans
<1> HIDE DEF EmptyPlan
<1> QED BY <1>2 DEF Waiting, CycleRec

\* The controller's own steps: the cycle begins with an empty plan, sheds load while the
\* loads are uneven, and executes a plan that is even or at its limit.
LEMMA CycleKeeps ==
  ASSUME Inv, ListDocuments \/ ListTargets \/ ListFails \/ PlanShed \/ EndCycle
  PROVE  Inv'
<1>0. ctl \in CycleRec /\ Ctl \in Procs /\ clock \in Nat /\ placed \in SUBSET Docs BY CallTypes DEF Inv, Typed
<1>1. UNCHANGED <<placed, table, call>> /\ clock' \in Nat /\ report' \in {None, report}
  BY <1>0 DEF ListDocuments, ListTargets, ListFails, PlanShed, EndCycle, store, table
<1>2. CASE ListDocuments \/ ListTargets \/ ListFails
  <2>1. call[Ctl].at = "idle" /\ ctl.at \in {"waiting", "listing"}
    BY <1>2 DEF ListDocuments, ListTargets, ListFails, Inv, Phases
  <2>2. CASE ctl' = [Waiting EXCEPT !.at = "stopped"]
    <3>1. ctl' \in CycleRec /\ ctl'.at = "stopped" BY <2>2, WaitingCycle DEF CycleRec
    <3>2. PlanSound' /\ PlanBalances' BY <3>1 DEF PlanSound, PlanBalances
    <3>3. Phases' BY <1>0, <1>1, <2>1, <3>1 DEF Inv, Phases
    <3> QED BY <1>1, <3>1, <3>2, <3>3, Elsewhere
  <2>3. CASE /\ RebalanceTargets # {}
             /\ ctl' = [ctl EXCEPT !.at = "planning", !.targets = RebalanceTargets,
                          !.plan = EmptyPlan(RebalanceTargets)]
    <3>1. PICK targets \in SUBSET Nodes : targets = RebalanceTargets /\ targets # {}
      BY <2>3 DEF RebalanceTargets
    <3>2. PICK docs \in SUBSET Docs : docs = ctl.docs BY <1>0 DEF CycleRec
    <3>3. PICK plan : plan = EmptyPlan(targets) OBVIOUS
    <3>4. Sound(plan, docs, targets) BY <3>3, EmptySound
    <3>5. plan \in Plans BY <3>4 DEF Sound, Plans
    <3>6. ctl' = [ctl EXCEPT !.at = "planning", !.targets = targets, !.plan = plan]
      BY <2>3, <3>1, <3>3
    <3>7. /\ ctl' \in CycleRec /\ ctl'.at = "planning" /\ ctl'.docs = docs
          /\ ctl'.targets = targets /\ ctl'.plan = plan
      BY <1>0, <3>2, <3>5, <3>6 DEF CycleRec
    <3>8. PlanSound' /\ PlanBalances' BY <3>1, <3>4, <3>7 DEF PlanSound, PlanBalances
    <3>9. Phases' BY <1>0, <1>1, <2>1, <3>7 DEF Inv, Phases
    <3> QED BY <1>1, <3>7, <3>8, <3>9, Elsewhere
  <2>4. CASE ctl' = [Waiting EXCEPT !.at = "listing", !.docs = placed]
    <3>1. ctl' \in CycleRec /\ ctl'.at = "listing" BY <1>0, <2>4, WaitingCycle DEF CycleRec
    <3>2. PlanSound' /\ PlanBalances' BY <3>1 DEF PlanSound, PlanBalances
    <3>3. Phases' BY <1>0, <1>1, <2>1, <3>1 DEF Inv, Phases
    <3> QED BY <1>1, <3>1, <3>2, <3>3, Elsewhere
  <2> QED BY <1>2, <2>2, <2>3, <2>4 DEF ListDocuments, ListTargets, ListFails
<1>3. CASE PlanShed
  <2>1. call[Ctl].at = "idle" /\ ctl.at = "planning" BY <1>3 DEF PlanShed, At
  <2>2. PICK docs, targets, plan : docs = ctl.docs /\ targets = ctl.targets /\ plan = ctl.plan OBVIOUS
  <2>3. docs \in SUBSET Docs /\ targets \in SUBSET Nodes BY <1>0, <2>2 DEF CycleRec
  <2>4. targets # {} /\ Sound(plan, docs, targets) BY <2>1, <2>2 DEF Inv, PlanSound
  <2>5. CASE CanShed(plan, targets) /\ ctl' = [ctl EXCEPT !.plan = Shed(plan, targets)]
    <3>1. Uneven(plan, targets) BY <2>5 DEF CanShed
    <3>2. PICK new : new = Shed(plan, targets) OBVIOUS
    <3>3. Sound(new, docs, targets) BY <2>3, <2>4, <3>1, <3>2, ShedSound
    <3>4. new \in Plans BY <2>3, <3>3 DEF Sound, Plans
    <3>5. ctl' = [ctl EXCEPT !.plan = new] BY <2>5, <3>2
    <3>6. /\ ctl' \in CycleRec /\ ctl'.at = "planning" /\ ctl'.docs = docs
          /\ ctl'.targets = targets /\ ctl'.plan = new
      BY <1>0, <2>1, <2>2, <3>4, <3>5 DEF CycleRec
    <3>7. PlanSound' /\ PlanBalances' BY <2>4, <3>3, <3>6 DEF PlanSound, PlanBalances
    <3>8. Phases' BY <1>0, <1>1, <2>1, <3>6 DEF Inv, Phases
    <3> QED BY <1>1, <3>6, <3>7, <3>8, Elsewhere
  <2>6. CASE ~CanShed(plan, targets) /\ ctl' = [ctl EXCEPT !.at = "executing"]
    <3>1. /\ ctl' \in CycleRec /\ ctl'.at = "executing" /\ ctl'.docs = docs
          /\ ctl'.targets = targets /\ ctl'.plan = plan
      BY <1>0, <2>2, <2>6 DEF CycleRec
    <3>2. PlanSound' BY <2>4, <3>1 DEF PlanSound
    <3>3. ASSUME MaxMoves = 0, NEW m \in targets, NEW n \in targets PROVE plan.loads[m] - plan.loads[n] <= 1
      <4>1. ~Uneven(plan, targets) BY <2>6, <3>3 DEF CanShed, LimitReached
      <4> QED BY <2>3, <2>4, <4>1, Balanced
    <3>4. PlanBalances' BY <2>4, <3>1, <3>3 DEF PlanBalances, Sound, Distinct, Aimed
    <3>5. Phases' BY <1>0, <1>1, <2>1, <3>1 DEF Inv, Phases
    <3> QED BY <1>1, <3>1, <3>2, <3>4, <3>5, Elsewhere
  <2> QED BY <1>3, <2>2, <2>5, <2>6 DEF PlanShed
<1>4. CASE EndCycle
  <2>1. call[Ctl].at = "idle" /\ ctl.at = "executing" BY <1>4 DEF EndCycle, At
  <2>2. PICK at \in {"waiting", "stopped"} : at = IF ctl.failed THEN "stopped" ELSE "waiting" OBVIOUS
  <2>3. ctl' = [Waiting EXCEPT !.at = at] BY <1>4, <2>2 DEF EndCycle
  <2>4. ctl' \in CycleRec /\ ctl'.at = at BY <2>3, WaitingCycle DEF CycleRec
  <2>5. PlanSound' /\ PlanBalances' BY <2>4 DEF PlanSound, PlanBalances
  <2>6. Phases' BY <1>0, <1>1, <2>1, <2>4 DEF Inv, Phases
  <2> QED BY <1>1, <2>4, <2>5, <2>6, Elsewhere
<1> QED BY <1>2, <1>3, <1>4

-----------------------------------------------------------------------------
(* The theorems.                                                           *)

\* The invariant holds initially: every placed document's shard was granted once.
LEMMA InitInv ==
  ASSUME Init
  PROVE  Inv
<1>1. PICK owner \in [Docs -> Nodes \cup {None}] :
        /\ placed = {d \in Docs : owner[d] # None}
        /\ leases = [s \in Shards |->
             IF \E d \in placed : ShardOf[d] = s
               THEN LET n == owner[CHOOSE d \in placed : ShardOf[d] = s]
                    IN [node |-> n, epoch |-> 1, token |-> <<n, 0>>, acquiredAt |-> 1, expiresAt |-> 1 + TTL]
               ELSE None]
  BY DEF Init
<1>2. placed \in SUBSET Docs BY <1>1
<1>3. ASSUME NEW s \in Shards PROVE leases[s] = None \/ (leases[s] \in Lease /\ leases[s].epoch = 1)
  <2>1. CASE \E d \in placed : ShardOf[d] = s
    <3>1. PICK e : e = CHOOSE d \in placed : ShardOf[d] = s OBVIOUS
    <3>2. e \in placed BY <2>1, <3>1
    <3>3. PICK n \in Nodes : n = owner[e] BY <1>1, <3>2
    <3>4. leases[s] = [node |-> n, epoch |-> 1, token |-> <<n, 0>>, acquiredAt |-> 1, expiresAt |-> 1 + TTL]
      BY <1>1, <2>1, <3>1, <3>3
    <3>5. <<n, 0>> \in Tokens BY DEF Tokens
    <3>6. TTL \in Nat BY ControlAssumption
    <3> QED BY <3>4, <3>5, <3>6 DEF Lease
  <2>2. CASE ~ \E d \in placed : ShardOf[d] = s BY <1>1, <2>2
  <2> QED BY <2>1, <2>2
<1>4. leases \in [Shards -> Lease \cup {None}]
  <2>1. leases = [s \in Shards |-> leases[s]] BY <1>1
  <2> QED BY <1>3, <2>1
<1>5. /\ gens = [s \in Shards |-> IF leases[s] = None THEN 0 ELSE 1]
      /\ holders = [s \in Shards |-> IF leases[s] = None THEN <<>> ELSE <<leases[s].node>>]
  BY DEF Init
<1>6. ASSUME NEW s \in Shards
      PROVE  /\ gens[s] \in Nat /\ holders[s] \in Seq(Nodes) /\ Len(holders[s]) = gens[s]
             /\ leases[s] # None => leases[s].epoch = gens[s] /\ Given(s, gens[s], leases[s].node)
  <2>1. CASE leases[s] = None
    <3>1. gens[s] = 0 /\ holders[s] = <<>> BY <1>5, <2>1
    <3> QED BY <2>1, <3>1
  <2>2. CASE leases[s] # None
    <3>1. leases[s].epoch = 1 /\ leases[s].node \in Nodes BY <1>3, <2>2 DEF Lease
    <3>2. PICK n \in Nodes : n = leases[s].node BY <3>1
    <3>3. gens[s] = 1 /\ holders[s] = <<n>> BY <1>5, <2>2, <3>2
    <3>4. <<n>> \in Seq(Nodes) /\ Len(<<n>>) = 1 /\ <<n>>[1] = n OBVIOUS
    <3>5. Given(s, 1, n) BY <3>3, <3>4 DEF Given
    <3> QED BY <3>1, <3>2, <3>3, <3>4, <3>5
  <2> QED BY <2>1, <2>2
<1>7. Recorded BY <1>6 DEF Recorded
<1>8. call = [p \in Procs |-> Idle] /\ ctl = Waiting /\ report = None /\ clock = 1 BY DEF Init
<1>9. \A p \in Procs : call[p] = Idle BY <1>8
<1>10. call \in [Procs -> CallRec] BY <1>8, IdleCall
<1>11. Typed
  <2>1. gens \in [Shards -> Nat] BY <1>5, <1>6
  <2>2. holders \in [Shards -> Seq(Nodes)] BY <1>5, <1>6
  <2> QED BY <1>2, <1>4, <1>8, <1>10, <2>1, <2>2, WaitingCycle DEF Typed
<1>12. \A p \in Procs : Shaped(call[p]) /\ Backed(call[p]) /\ call[p].at = "idle" BY <1>9, IdleCall
<1>13. Ctl \in Procs BY DEF Procs
<1>14. ctl.at = "waiting" BY <1>8, WaitingCycle
<1>15. Phases BY <1>12, <1>13 DEF Phases
<1>16. PlanSound /\ PlanBalances BY <1>14 DEF PlanSound, PlanBalances
<1>17. True(report) BY <1>8 DEF True
<1> QED BY <1>7, <1>11, <1>12, <1>15, <1>16, <1>17 DEF Inv

\* Every step keeps the invariant.
LEMMA NextInv ==
  ASSUME Inv, [Next]_vars
  PROVE  Inv'
<1>0. ctl \in CycleRec /\ clock \in Nat /\ placed \in SUBSET Docs BY CallTypes DEF Inv, Typed
<1>1. CASE ListDocuments \/ ListTargets \/ ListFails \/ PlanShed \/ EndCycle BY <1>1, CycleKeeps
<1>2. CASE (\E u \in Users : UserCall(u)) \/ PlanLookup \/ ExecuteMove
  <2>1. (\E p \in Procs : \E c : Begins(p, c)) /\ UNCHANGED <<clock, placed, table>> BY <1>2, Beginnings
  <2>2. PICK p \in Procs : \E c : Begins(p, c) BY <2>1
  <2>3. TableStep /\ UNCHANGED clock /\ placed' \in SUBSET Docs BY <1>0, <2>1 DEF TableStep
  <2> QED BY <2>2, <2>3, MovesKeep
<1>3. ASSUME NEW p \in Procs, CallStep(p) \/ FaultyStep(p) PROVE Inv'
  <2>1. TableStep /\ CallMoves(p) /\ UNCHANGED clock /\ placed' \in SUBSET Docs BY <1>3, CallSteps
  <2> QED BY <2>1, MovesKeep
<1>4. CASE (\E n \in Nodes, r \in Reports : Publish(n, r)) \/ Tick \/ UNCHANGED vars
  <2>1. UNCHANGED <<placed, table, call, ctl, report>> /\ clock' \in Nat
    BY <1>0, <1>4 DEF Publish, Tick, vars, store, table
  <2>2. PlanSound' /\ PlanBalances' BY <1>0, <2>1, SamePlan DEF SameCycle
  <2>3. Phases' BY <2>1 DEF Inv, Phases
  <2> QED BY <1>0, <2>1, <2>2, <2>3, Elsewhere
<1> QED BY <1>1, <1>2, <1>3, <1>4 DEF Next, Cycle

\* Any run of the controller and of the users' calls keeps the invariant.
THEOREM Invariance == Spec => []Inv
<1>1. Init => Inv BY InitInv
<1>2. Inv /\ [Next]_vars => Inv' BY NextInv
<1> QED BY <1>1, <1>2, PTL DEF Spec

\* A rebalance tells its caller the truth (RebalanceDocument's result): the generation it
\* names went to the target, and was taken from the very owner its lookup had seen, however
\* many other claims, handoffs, expiries, failures and ended contexts fell in between.
THEOREM ReportsAreTrue == Spec => []ReportsTrue
<1>1. Inv => ReportsTrue
  <2> SUFFICES ASSUME Inv PROVE ReportsTrue OBVIOUS
  <2>1. TypeOK
    <3>1. \A p \in Procs : call[p].doc \in Docs \cup {None} BY CallTypes DEF CallRec
    <3>2. ctl.at \in {"waiting", "listing", "planning", "executing", "stopped"} BY CallTypes DEF CycleRec
    <3> QED BY <3>1, <3>2 DEF TypeOK, Inv, Typed, Recorded
  <2>2. ASSUME report # None
        PROVE  LET h == holders[ShardOf[report.doc]]
               IN /\ h[report.epoch] = report.to
                  /\ report.from # None => report.epoch > 1 /\ h[report.epoch - 1] = report.from
    <3>1. PICK s : s = ShardOf[report.doc] OBVIOUS
    <3>2. s \in Shards /\ Given(s, report.epoch, report.to)
          /\ (report.from # None => Given(s, report.epoch - 1, report.from))
      BY <2>2, <3>1, ControlAssumption DEF Inv, True
    <3>3. gens[s] \in Nat BY <3>2 DEF Inv, Typed
    <3>4. PICK e \in Nat : e = report.epoch BY <3>2, <3>3 DEF Given
    <3>5. report.from # None => e - 1 >= 1 BY <3>2, <3>3, <3>4 DEF Given
    <3>6. report.from # None => report.epoch > 1 BY <3>4, <3>5
    <3> QED BY <3>1, <3>2, <3>6 DEF Given
  <2> QED BY <2>1, <2>2 DEF ReportsTrue
<1> QED BY <1>1, Invariance, PTL

\* A plan that is executed (PlanDocumentRebalance's result) moves each document once, to a
\* target other than its owner, and without a limit leaves the loads within one of
\* each other, whatever the lookups returned, failed lookups included.
THEOREM PlansBalance == Spec => []PlanBalances
<1>1. Inv => PlanBalances BY DEF Inv
<1> QED BY <1>1, Invariance, PTL
=============================================================================
