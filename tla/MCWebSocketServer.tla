-------------------------- MODULE MCWebSocketServer --------------------------
(* Small instances of WebSocketServer: r1 and its reconnect r2, and a peer. *)
EXTENDS WebSocketServer, TLC

CONSTANTS r1, r2, r3, x, y, c1, c2

MCIdOf == (r1 :> x) @@ (r2 :> x) @@ (r3 :> y)
MCClientOf == (r1 :> c1) @@ (r2 :> c1) @@ (r3 :> c2)

\* Nothing reads what the browser behind a closed socket knew: states that differ
\* only in it are one state.
MCView ==
  <<pc, socket, quota, handles, room, session, out, server, cluster, echoed, sent,
    [r \in Requests |-> IF socket[r] = "open" THEN view[r] ELSE None]>>
=============================================================================
