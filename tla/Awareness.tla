----------------------------- MODULE Awareness -----------------------------
(***************************************************************************)
(* internal/yawareness StateManager: what a manager knows of one client is *)
(* its entry, the last clock it accepted and the state (Null once removed).*)
(* Entries outlive states, so that a late old message is recognised.  When *)
(* an entry was updated is left out: nothing in the server expires states. *)
(* Every operator is one method under m.mu.                                *)
(***************************************************************************)
EXTENDS Integers

CONSTANT Null   \* the JSON null that removes a client

\* No meta for the client.
Unknown == [clock |-> -1, state |-> Null]

HasMeta(e) == e.clock >= 0
HasState(e) == e.state # Null

\* Old news: a smaller clock, or the same clock unless it removes the state.
Outdated(e, msg) ==
  /\ HasMeta(e)
  /\ \/ e.clock > msg.clock
     \/ e.clock = msg.clock /\ (msg.state # Null \/ ~HasState(e))

\* applyClientLocked: a removal of the manager's own client, while it has a
\* state, keeps the state and moves the clock past the removal.
ApplyClient(e, isLocal, msg) ==
  IF Outdated(e, msg) THEN e
  ELSE IF msg.state = Null /\ isLocal /\ HasState(e)
    THEN [e EXCEPT !.clock = msg.clock + 1]
    ELSE [clock |-> msg.clock, state |-> msg.state]

\* Fault: the clock starts again.
SetLocalStateFromZero(e, state) == [clock |-> 0, state |-> state]

\* SetLocalState: the next clock, 0 for the first.
SetLocalState(e, state) == [clock |-> e.clock + 1, state |-> state]

\* UpdateForClients for one client: nothing without meta, else state or Null.
UpdateFor(client, e) ==
  IF HasMeta(e) THEN {[client |-> client, clock |-> e.clock, state |-> e.state]} ELSE {}
=============================================================================
