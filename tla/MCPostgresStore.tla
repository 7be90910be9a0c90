--------------------------- MODULE MCPostgresStore ---------------------------
(* A small instance of PostgresStore.                                      *)
EXTENDS PostgresStore, TLC

CONSTANTS a, b, c1, c2, s1, s2

MCNodeOf == (c1 :> a) @@ (c2 :> b)
MCMaxEpoch == (s1 :> 2) @@ (s2 :> 0)

\* The nodes, with their sessions are interchangeable.
MCSwap == (a :> b) @@ (b :> a) @@ (c1 :> c2) @@ (c2 :> c1)
MCStay == (a :> a) @@ (b :> b) @@ (c1 :> c1) @@ (c2 :> c2)
MCSymmetry == {MCSwap, MCStay}
=============================================================================
