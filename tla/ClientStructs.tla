---------------------------- MODULE ClientStructs ----------------------------
(* What a document holds of one client, through any sequence of merges and *)
(* garbage collections: its structs, its deleted ranges (a RangeSet), and  *)
(* next to them what was received.  Merge, diff and collection treat the   *)
(* clients of an update independently, except for references.              *)
EXTENDS RangeSet, UpdateAlgebra

CONSTANTS
  Client,     \* the client whose structs these are
  Contents,   \* the elements of items
  Brought,    \* what updates bring of the client: structs and deleted ranges
  Foreign     \* ids that items of other clients may refer to

References == {NoId} \cup Clients \X (0..Top)

Structs ==
  [client : {Client}, clock : 0..Top, kind : {"text", "deleted", "format", "gc", "skip"},
   els : Seq(Contents), origin : References, right : References, raw : {"none", "json", "any"}]

ASSUME ClientStructsAssumption ==
  /\ Client \in Clients
  /\ Blank \in Contents
  /\ \A u \in Brought :
       /\ u.list \in Seq(Structs) /\ WellFormed(u.list)
       /\ \A i \in DOMAIN u.list : EndClock(u.list[i]) <= Top
       /\ u.ds \in Operands

VARIABLES
  structs,    \* the client's structs in the document
  received    \* history: the structs received, Skips left out

clientVars == <<rangeVars, structs, received>>

ClientInit == RangeInit /\ structs = <<>> /\ received = {}

\* An update is merged into the document.
Receive(u) ==
  /\ structs' = InsertList(Client, structs, u.list)
  /\ Merge(u.ds)
  /\ received' = received \cup {b \in ToSet(u.list) : ~IsSkip(b)}

\* The document is collected before it is stored; items of other clients
\* refer to `foreign`.
CollectGarbage(foreign) ==
  /\ structs' = CollectList(structs, held, ReferencesOf(structs) \cup foreign)
  /\ UNCHANGED <<rangeVars, received>>

ClientNext ==
  \/ \E u \in Brought : Receive(u)
  \/ \E foreign \in SUBSET Foreign : CollectGarbage(foreign)

ClientSpec == ClientInit /\ [][ClientNext]_clientVars

-----------------------------------------------------------------------------
(* Properties.                                                             *)

Span(b) == b.clock .. EndClock(b) - 1
Present(list) == UNION {Span(b) : b \in {x \in ToSet(list) : ~IsSkip(x)}}

\* What is left of a struct without some clocks at its start and its end.
Window(t, b) ==
  \E start, trim \in 0..Len(b.els) : start + trim < Len(b.els) /\ t = SliceStruct(b, start, trim)

\* The answer to a state vector holds exactly the clocks from the vector on,
\* each as it is in the document; the V1 count is the first clock missing,
\* the V2 count the one after the last held, past any gap before it
\* (DiffUpdateV1Context, stateVectorFromUpdateV1, stateVectorFromStructs).
AnswersComplete ==
  /\ \A clock \in 0..Top :
       LET answer == DiffList(structs, clock)
       IN /\ WellFormed(answer)
          /\ Present(answer) = {k \in Present(structs) : k >= clock}
          /\ \A t \in ToSet(answer) : \E b \in ToSet(structs) : Window(t, b)
  /\ \A k \in 0..Top : k = CountV1(structs, FALSE) <=> k \notin Present(structs) /\ 0..(k - 1) \subseteq Present(structs)
  /\ \A k \in Present(structs) : k < CountV2(structs)
  /\ CountV2(structs) = 0 \/ CountV2(structs) - 1 \in Present(structs)

\* A peer that holds any update, with or without gaps, and sends its V1 count
\* has all of the document next to its own once it has merged the answer
\* (DiffUpdateV1Context, stateVectorFromUpdateV1, mergeOverlappingStructLists).
PeersCatchUp ==
  \A u \in Brought :
    LET answer == DiffList(structs, CountV1(u.list, FALSE))
    IN Present(InsertList(Client, u.list, answer)) = Present(u.list) \cup Present(structs)

\* A selection by ranges is well-formed, made of windows of the structs, and
\* holds exactly the selected clocks, or nothing when a selected range starts
\* just where a struct ends (IntersectUpdateWithContentIDs).
SelectionsExact ==
  \A ranges \in Operands :
    LET got == Selected(structs, ranges)
    IN /\ WellFormed(got)
       /\ \A t \in ToSet(got) : IsSkip(t) \/ \E b \in ToSet(structs) : Window(t, b)
       /\ \/ Present(got) = Present(structs) \cap Clocks(ranges)
          \/ got = <<>> /\ \E b \in ToSet(structs), r \in ToSet(ranges) : EndClock(b) = r.clock

\* A collection leaves a clock that is not deleted, or that an item refers to,
\* with the struct it belongs to (garbageCollectStructWindow).
CollectionSafe ==
  \A foreign \in SUBSET Foreign :
    LET referenced == ReferencesOf(structs) \cup foreign
        out == CollectList(structs, held, referenced)
    IN \A b \in ToSet(structs), t \in ToSet(out) : \A k \in Span(b) \cap Span(t) :
         k \notin ids \/ <<Client, k>> \in referenced => Window(t, b)

\* Whatever was merged and collected before, in any order, the structs are
\* well-formed; every one is a Skip, a window of a struct received, with its
\* elements and the origin that belongs to it, or collected and deleted; no
\* clock received is missing, and none came from elsewhere; and what the next
\* answer, selection or collection makes of them is right, whichever peer asks
\* (mergeOverlappingStructLists, sliceStructWindowV1, garbageCollectStruct).
StructsExact ==
  /\ WellFormed(structs)
  /\ \A b \in ToSet(structs) :
       \/ IsSkip(b)
       \/ \E p \in received : Window(b, p)
       \/ b.kind = "gc" /\ Span(b) \subseteq ids
  /\ UNION {Span(p) : p \in received} \subseteq Present(structs)
  /\ Present(structs) \subseteq (UNION {Span(p) : p \in received}) \cup ids
  /\ AnswersComplete
  /\ PeersCatchUp
  /\ SelectionsExact
  /\ CollectionSafe
=============================================================================
