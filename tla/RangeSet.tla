------------------------------ MODULE RangeSet ------------------------------
(* An IdSet through any sequence of calls, seen from one client: the       *)
(* ranges it holds next to the set of clocks it should stand for.  The     *)
(* operations treat the clients of a set one by one and independently.     *)
EXTENDS IdSets

CONSTANTS
  Top,        \* the clocks that occur are below Top
  Operands    \* the ranges of the client in the sets that calls are given

ASSUME RangeSetAssumption ==
  /\ Top \in 0..Width
  /\ \A other \in Operands :
       /\ other \in Seq({other[i] : i \in DOMAIN other})
       /\ \A i \in DOMAIN other : /\ other[i] = [clock |-> other[i].clock, len |-> other[i].len]
                                  /\ other[i].clock \in 0..Top /\ other[i].len \in 0..Top
                                  /\ End(other[i]) <= Top
       /\ Normal(other)

VARIABLES
  held,    \* the client's ranges
  ids      \* history: the clocks they should stand for

rangeVars == <<held, ids>>

RangeInit == held = <<>> /\ ids = {}

\* Add rejects what NewRange rejects.
Add(clock, len) ==
  /\ clock + len <= Top \/ clock + len > Width
  /\ IF NewRange(clock, len)
     THEN /\ held' = AddRange(held, [clock |-> clock, len |-> len])
          /\ ids' = ids \cup clock..(clock + len - 1)
     ELSE UNCHANGED rangeVars

Merge(other) ==
  /\ held' = UniteRanges(held, other)
  /\ ids' = ids \cup Clocks(other)

Intersect(other) ==
  /\ held' = CommonRanges(held, other)
  /\ ids' = ids \cap Clocks(other)

Subtract(other) ==
  /\ held' = LeftRanges(held, other)
  /\ ids' = ids \ Clocks(other)

RangeNext ==
  \/ \E clock, len \in 0..(Width - 1) : Add(clock, len)
  \/ \E other \in Operands : Merge(other) \/ Intersect(other) \/ Subtract(other)

RangeSpec == RangeInit /\ [][RangeNext]_rangeVars

-----------------------------------------------------------------------------
(* Properties.                                                             *)

\* Whatever calls came before, the ranges stand for the right clocks and are
\* in normal form: sorted, not empty, within the width, never touching, so
\* that equal sets have equal ranges (Range, Set).
RangesExact == Normal(held) /\ Clocks(held) = ids

\* The pieces of a window follow each other from its start to its end.
Consecutive(pieces, clock, end) ==
  /\ pieces # <<>>
  /\ pieces[1].clock = clock /\ End(pieces[Len(pieces)]) = end
  /\ \A i \in 1..(Len(pieces) - 1) : End(pieces[i]) = pieces[i + 1].clock

\* The binary search finds exactly the clocks of the set, and a window is cut
\* into pieces that follow each other and are each all in the set or all not
\* (Has, Slice; the length of a window is a number below the width).
AnswersExact ==
  /\ \A k \in 0..(Width - 1) : Holds(held, k) <=> k \in ids
  /\ \A clock, end \in 0..Top : clock < end /\ end - clock < Width =>
       LET pieces == Slice(held, clock, end - clock)
       IN /\ Consecutive(pieces, clock, end)
          /\ \A i \in DOMAIN pieces : \A k \in pieces[i].clock .. End(pieces[i]) - 1 :
               pieces[i].exists <=> k \in ids

\* Through any sequence of calls an IdSet is a set of clocks: what it holds,
\* and what it answers.
IdSetExact == RangesExact /\ AnswersExact
=============================================================================
