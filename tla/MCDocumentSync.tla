--------------------------- MODULE MCDocumentSync ---------------------------
(* Small instances of DocumentSync (two clients, at most six clocks each), *)
(* of RangeSet (every set of clocks as an operand) and of ClientStructs.   *)
EXTENDS DocumentSync, ClientStructs

MCWidth == 8

Text(c, from, to, origin, right) ==
  Item(c, from, [i \in 1..(to - from) |-> from + i - 1], origin, right)

Of(c, list) == [b \in Clients |-> IF b = c THEN list ELSE <<>>]
Only(c, list) == [blocks |-> Of(c, list), ds |-> NoRanges]
Gone(c, ranges) == [blocks |-> Of(c, <<>>), ds |-> Of(c, ranges)]
Extent(clock, len) == [clock |-> clock, len |-> len]

\* What client 0 typed, as separate runs, as one run sliced elsewhere, and
\* with a part missing; a format mark; what client 1 typed between; deletes.
Start == Only(0, <<Text(0, 0, 2, NoId, NoId)>>)
Middle == Only(0, <<Text(0, 2, 5, <<0, 1>>, NoId)>>)
Sliced == Only(0, <<Text(0, 1, 4, <<0, 0>>, NoId)>>)
Holed == Only(0, <<Text(0, 0, 1, NoId, NoId), NewBlank("skip", 0, 1, 2), Text(0, 3, 5, <<0, 2>>, NoId)>>)
Mark == Only(0, <<[Text(0, 5, 6, <<0, 4>>, NoId) EXCEPT !.kind = "format", !.raw = "json"]>>)
Between == Only(1, <<Text(1, 0, 2, <<0, 1>>, <<0, 2>>), Text(1, 2, 3, NoId, <<1, 0>>)>>)
Collected1 == [Only(1, <<NewBlank("gc", 1, 0, 2)>>) EXCEPT !.ds = Of(1, <<Extent(0, 2)>>)]
Tombs == [Only(0, <<[NewBlank("deleted", 0, 2, 2) EXCEPT !.origin = <<0, 1>>]>>)
           EXCEPT !.ds = Of(0, <<Extent(2, 2)>>)]
Erase1 == Gone(0, <<Extent(1, 1), Extent(4, 1)>>)
Erase2 == Gone(0, <<Extent(0, 1), Extent(2, 1), Extent(4, 2)>>)

MCUpdates == {Start, Middle, Sliced, Holed, Mark, Between, Collected1, Tombs, Erase1, Erase2}

V(u) == Payload(u, "v2")
Torn == [fmt |-> "torn"]

\* Logs long enough for the parallel path, with a payload that fails to be
\* detected or decoded, formats mixed, and payloads of no bytes; short ones.
MCLogs == {<<V(Middle), V(Start), V(Erase1), V(Between), V(Mark)>>,
           <<V(Start), V(Mark), Torn, V(Holed), BadPayload>>,
           <<V(Holed), V(Sliced), V(Erase2), NoPayload, Payload(Mark, "v1")>>,
           <<V(Mark), V(Holed), NoPayload, V(Tombs), V(Start), V(Collected1)>>,
           <<V(Start), Torn>>, <<BadPayload>>, <<Payload(Start, "v1"), Payload(Mark, "v1")>>,
           <<NoPayload>>, <<>>}

\* The runs of a set of clocks, in order.
RunsOf(S) ==
  LET starts == SetToSortSeq({k \in S : k - 1 \notin S}, <)
      stop(k) == Min({j \in k..Width : j \notin S})
  IN [i \in DOMAIN starts |-> [clock |-> starts[i], len |-> stop(starts[i]) - starts[i]]]

MCTop == 7
MCOperands == {RunsOf(S) : S \in SUBSET (0..(MCTop - 1))}

\* Runs typed, sliced and with holes; a collected one; deletes.
Typed(from, to) == Text(0, from, to, IF from = 0 THEN NoId ELSE <<0, from - 1>>, NoId)
Hole(from, to) == NewBlank("skip", 0, from, to - from)
MCBrought ==
  {[list |-> list, ds |-> <<>>] :
     list \in {<<Typed(0, 3)>>, <<Typed(0, 1), Hole(1, 2), Typed(2, 5)>>, <<Typed(1, 2)>>,
              <<Typed(2, 4), Hole(4, 5), Typed(5, 6)>>, <<Typed(3, 4), Hole(4, 6), Typed(6, 7)>>}}
    \cup {[list |-> <<NewBlank("gc", 0, 1, 3)>>, ds |-> <<Extent(1, 3)>>],
          [list |-> <<>>, ds |-> <<Extent(0, 2), Extent(4, 2)>>], [list |-> <<>>, ds |-> <<Extent(3, 4)>>]}
MCContents == -1 .. (MCTop - 1)
MCForeign == {<<0, 1>>, <<0, 4>>}

\* The machines share nothing.  The id set moves where a load has failed and
\* the structs where an empty document is served, so that one run covers the
\* three without their product.
Untouched == held = <<>> /\ ids = {} /\ structs = <<>> /\ received = {}

MCInit == Init /\ ClientInit
MCNext ==
  \/ Next /\ Untouched /\ UNCHANGED clientVars
  \/ stage = "failed" /\ RangeNext /\ UNCHANGED <<vars, structs, received>>
  \/ stage = "serving" /\ live = 0 /\ known \cup deleted = {} /\ ClientNext /\ UNCHANGED vars
MCSpec == MCInit /\ [][MCNext]_<<vars, clientVars>> /\ AggFairness
=============================================================================
