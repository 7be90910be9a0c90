-------------------------- MODULE MCRebalanceControl --------------------------
(* A small instance of RebalanceControl: a shard per document.             *)
EXTENDS RebalanceControl, TLC

CONSTANTS a, b, d1, d2, s1, s2, u

MCRank == (a :> 1) @@ (b :> 2) @@ (d1 :> 1) @@ (d2 :> 2)
MCShardOf == (d1 :> s1) @@ (d2 :> s2)
MCUserNode == (u :> b)
MCFirstSeen == (a :> 1) @@ (b :> 0)
MCReports == {[state |-> "ready", labelled |-> TRUE, seen |-> TRUE],
              [state |-> "draining", labelled |-> TRUE, seen |-> TRUE],
              [state |-> "ready", labelled |-> FALSE, seen |-> FALSE]}
=============================================================================
