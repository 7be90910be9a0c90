------------------------- MODULE MCOwnershipRuntime -------------------------
(* Small instances of OwnershipRuntime for TLC.                            *)
EXTENDS OwnershipRuntime, TLC

CONSTANTS d1, d2, s1, s2, c1, c2, e1, e2, e3, t1, t2, t3, t4

\* Two documents of one shard, and of two.
MCSameShard == [d \in Docs |-> s1]
MCOwnShards == (d1 :> s1) @@ (d2 :> s2)

\* Callers, entries and tokens are interchangeable.
MCSymmetry == Permutations(Callers) \cup Permutations(Entries) \cup Permutations(Tokens)

\* What a free entry still holds is of no consequence.
MCView == <<held, entries, [e \in Entries |-> IF Free(e) THEN NoEntry ELSE entry[e]],
            caller, closed>>
=============================================================================
