--------------------------- MODULE LeaseAuthority ---------------------------
(***************************************************************************)
(* What the lease table promises to everyone who writes under a fence: per *)
(* shard there is a generation counter that only grows by one, each new    *)
(* generation has one owner, and an owner that was replaced or revoked     *)
(* never becomes the owner again under the same epoch.                     *)
(***************************************************************************)
EXTENDS LeaseStore

CONSTANT Shards

VARIABLES
  gen,    \* gen[s]: the newest generation of shard s
  owner   \* owner[s]: the fence that is valid for s, or None

avars == <<gen, owner>>

Init ==
  /\ gen = [s \in Shards |-> 0]
  /\ owner = [s \in Shards |-> None]

\* The next generation gets an owner, whoever held the shard before.
Grant(s) ==
  /\ gen' = [gen EXCEPT ![s] = @ + 1]
  /\ owner' = [owner EXCEPT ![s] = owner'[s]]
  /\ owner'[s] \in Fence
  /\ owner'[s].epoch = gen[s] + 1

\* The owner gives the shard up; the counter stays.
Revoke(s) ==
  /\ owner[s] # None
  /\ owner' = [owner EXCEPT ![s] = None]
  /\ UNCHANGED gen

Next == \E s \in Shards : Grant(s) \/ Revoke(s)

Spec == Init /\ [][Next]_avars
=============================================================================
