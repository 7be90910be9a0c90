--------------------------- MODULE MCDocumentRooms ---------------------------
(* Small instances of DocumentRooms for TLC.                               *)
EXTENDS DocumentRooms, TLC

CONSTANTS a, b, c1, c2, r1, r2

\* Failover: two nodes that serve one connection each.
MCApart == (c1 :> a) @@ (c2 :> b)

\* One node that serves two connections.
MCTogether == (c1 :> a) @@ (c2 :> a)

\* Rooms, and the connections of one node, are interchangeable.
MCRoomSymmetry == Permutations(Rooms)
MCTogetherSymmetry == Permutations(Rooms) \cup Permutations({c1, c2})

\* Nothing reads a room that nothing refers to: states that differ only in
\* its stale contents are one state.
MCView ==
  <<gen, owner, snapshot, log, next, rooms, flight, conn, acked,
    [r \in {x \in Rooms : ~Free(x)} |-> room[r]]>>
=============================================================================
