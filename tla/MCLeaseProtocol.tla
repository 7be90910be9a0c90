--------------------------- MODULE MCLeaseProtocol ---------------------------
(* Small instances of LeaseProtocol for TLC: two managers of one shard.    *)
EXTENDS LeaseProtocol, TLC

CONSTANTS a, b, m1, m2, m3, s1, tok

MCNodes == {a, b}
MCHolderOf == [m \in Managers |-> IF m = m2 THEN b ELSE a]
MCShardOf == [m \in Managers |-> s1]

\* m2 is configured with a token of its own, the others mint theirs.
MCConfigToken == [m \in Managers |-> IF m = m2 THEN tok ELSE NoToken]

MCSkewed == (a :> 0) @@ (b :> 1)
MCSynchronous == [n \in Nodes |-> 0]

\* Two nodes with one manager each.
MCPair == {m1, m2}
=============================================================================
