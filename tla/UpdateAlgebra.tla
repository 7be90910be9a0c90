--------------------------- MODULE UpdateAlgebra ---------------------------
(* Updates and the operations on decoded updates (internal/yupdate).  An   *)
(* update holds, per client, the structs of that client in clock order,    *)
(* and a delete set.  A struct is an item (text, deleted content, or a     *)
(* format mark), a GC or a Skip; it covers Len(els) clocks.  The elements  *)
(* of a text are named by the clock they were created at, so that a wrong  *)
(* slice or a shifted clock shows.                                         *)
EXTENDS IdSets

CONSTANT Clients      \* client ids: natural numbers, written in descending order

NoId == <<>>
Blank == -1           \* the element of a struct that carries no payload

Item(c, clock, els, origin, right) ==
  [client |-> c, clock |-> clock, kind |-> "text", els |-> els, origin |-> origin,
   right |-> right, raw |-> "none"]

NewBlank(kind, c, clock, len) ==
  [client |-> c, clock |-> clock, kind |-> kind, els |-> [i \in 1..len |-> Blank],
   origin |-> NoId, right |-> NoId, raw |-> "none"]

IsItem(b) == b.kind \notin {"gc", "skip"}
IsSkip(b) == b.kind = "skip"
EndClock(b) == b.clock + Len(b.els)
IdRange(b) == [clock |-> b.clock, len |-> Len(b.els)]

NoRanges == [c \in Clients |-> <<>>]
EmptyUpdate == [blocks |-> [c \in Clients |-> <<>>], ds |-> NoRanges]

\* The part of a struct without its first `start` and last `trim` clocks.  A
\* sliced item has the element before it as its origin.
SliceStruct(b, start, trim) ==
  [b EXCEPT !.clock = @ + start,
            !.els = SubSeq(@, start + 1, Len(@) - trim),
            !.origin = IF start = 0 \/ ~IsItem(b) THEN @ ELSE <<b.client, b.clock + start - 1>>]

-----------------------------------------------------------------------------
(* Merge.                                                                  *)

\* The structs not behind `next`, from the first that is not a Skip.
Ahead(refs, next) ==
  LET kept == {i \in DOMAIN refs : ~IsSkip(refs[i]) /\ EndClock(refs[i]) > next}
  IN IF kept = {} THEN <<>> ELSE SubSeq(refs, Min(kept), Len(refs))

\* How many of the structs go on from `next` without a hole.
RunLength(refs, next) ==
  Max({n \in 0..Len(refs) : \A i \in 1..n :
         ~IsSkip(refs[i]) /\ refs[i].clock = IF i = 1 THEN next ELSE EndClock(refs[i - 1])})

\* A fault: a struct that straddles `next` is not sliced.
StraddlingWhole(refs, next) == refs

\* A struct that straddles `next` is sliced.
Straddling(refs, next) ==
  IF refs # <<>> /\ Head(refs).clock < next
  THEN <<SliceStruct(Head(refs), next - Head(refs).clock, 0)>> \o Tail(refs)
  ELSE refs

\* One side drops what is already covered and gives what follows without a
\* hole.
Applied(side, next) ==
  LET refs == Straddling(Ahead(side, next), next)
      n    == RunLength(refs, next)
  IN [run |-> SubSeq(refs, 1, n), next |-> IF n = 0 THEN next ELSE EndClock(refs[n]),
      rest |-> SubSeq(refs, n + 1, Len(refs))]

ApplyLeft(s) ==
  LET a == Applied(s.left, s.next)
  IN [s EXCEPT !.out = @ \o a.run, !.next = a.next, !.left = a.rest]

ApplyRight(s) ==
  LET a == Applied(s.right, s.next)
  IN [s EXCEPT !.out = @ \o a.run, !.next = a.next, !.right = a.rest]

SkipTo(c, s, clock) ==
  IF clock > s.next
  THEN [s EXCEPT !.out = Append(@, NewBlank("skip", c, s.next, clock - s.next)), !.next = clock]
  ELSE s

\* A Skip is written when neither side goes on at `next`.
Bridge(c, s) ==
  IF s.left = <<>> /\ s.right = <<>> THEN s
  ELSE SkipTo(c, s, Min({Head(refs).clock : refs \in {s.left, s.right} \ {<<>>}}))

Bridged(c, s, both) ==
  IF both /\ (s.left = <<>> \/ s.right = <<>>) THEN s ELSE Bridge(c, s)

\* While both sides have structs each is applied in turn, then the one left.
Round(c, s) ==
  IF s.left = <<>> /\ s.right = <<>> THEN s
  ELSE Bridged(c, IF s.left = <<>> THEN ApplyRight(s)
                  ELSE IF s.right = <<>> THEN ApplyLeft(s)
                  ELSE ApplyRight(ApplyLeft(s)),
               s.left # <<>> /\ s.right # <<>>)

\* Two rounds use up a struct.
Rounds(c, left, right) ==
  LET round[n \in 0..(2 * (Len(left) + Len(right)))] ==
        IF n = 0 THEN [out |-> <<>>, next |-> Head(left).clock, left |-> left, right |-> right]
        ELSE Round(c, round[n - 1])
  IN round

MergeOverlapping(c, left, right) == Rounds(c, left, right)[2 * (Len(left) + Len(right))].out

MergeDisjoint(c, left, right) ==
  LET from == EndClock(Last(left))
      gap  == Head(right).clock - from
  IN left \o (IF gap > 0 THEN <<NewBlank("skip", c, from, gap)>> ELSE <<>>) \o right

\* The list that starts first is the left one.
MergeInOrder(c, left, right) ==
  IF Head(right).clock >= EndClock(Last(left))
  THEN MergeDisjoint(c, left, right)
  ELSE MergeOverlapping(c, left, right)

MergeLists(c, current, new) ==
  IF Head(current).clock < Head(new).clock
  THEN MergeInOrder(c, current, new) ELSE MergeInOrder(c, new, current)

InsertList(c, current, new) ==
  IF new = <<>> THEN current
  ELSE IF current = <<>> THEN new
  ELSE MergeLists(c, current, new)

InsertInto(current, new) == Fixed([c \in Clients |-> InsertList(c, current[c], new[c])])

MergeDecoded(entries) ==
  FoldLeft(LAMBDA u, e : [blocks |-> InsertInto(u.blocks, e.blocks), ds |-> MergeSets(u.ds, e.ds)],
           EmptyUpdate, entries)

-----------------------------------------------------------------------------
(* State vectors and diffs.                                                *)

\* The V1 vector counts a client's clocks from zero up to the first Skip; the
\* reader starts its count at the first struct of all, whatever its kind.
FirstClient(u) == Max({c \in Clients : u.blocks[c] # <<>>} \cup {-1})

CountV1(list, first) ==
  LET skips == {i \in DOMAIN list : IsSkip(list[i])}
      upto  == IF skips = {} THEN Len(list) ELSE Min(skips) - 1
  IN IF list = <<>> \/ Head(list).clock # 0 THEN 0
     ELSE IF upto > 0 THEN EndClock(list[upto])
     ELSE IF first THEN EndClock(Head(list)) ELSE 0

StateVectorV1(u) == [c \in Clients |-> CountV1(u.blocks[c], c = FirstClient(u))]

\* The V2 vector is the greatest end clock, gaps or not.
CountV2(list) == IF list = <<>> THEN 0 ELSE Max({EndClock(b) : b \in ToSet(list)})

StateVectorV2(u) == [c \in Clients |-> CountV2(u.blocks[c])]

MergeStateVectors(v, w) == [c \in Clients |-> Max({v[c], w[c]})]

\* DiffUpdate: per client the first struct past the vector, sliced, and all
\* that follows it; the delete set whole.
DiffList(list, clock) ==
  LET past == {i \in DOMAIN list : ~IsSkip(list[i]) /\ EndClock(list[i]) > clock}
      i    == Min(past)
  IN IF past = {} THEN <<>>
     ELSE <<SliceStruct(list[i], Max({clock - list[i].clock, 0}), 0)>>
            \o SubSeq(list, i + 1, Len(list))

\* A fault: only the structs that start past the vector are sent.
DiffWhole(u, vector) ==
  [blocks |-> [c \in Clients |-> SelectSeq(u.blocks[c], LAMBDA b : b.clock >= vector[c])], ds |-> u.ds]

Diff(u, vector) ==
  [blocks |-> Fixed([c \in Clients |-> DiffList(u.blocks[c], vector[c])]), ds |-> u.ds]

-----------------------------------------------------------------------------
(* Content ids and selection.                                              *)

\* The inserts are the ranges of structs that are not Skips, joined where they
\* touch; the deletes are the delete set.
ContentIDs(u) ==
  [inserts |-> Fixed([c \in Clients |->
     FoldLeft(LAMBDA rs, b : IF IsSkip(b) THEN rs ELSE AddRange(rs, IdRange(b)), <<>>, u.blocks[c])]),
   deletes |-> Fixed([c \in Clients |-> FoldLeft(AddRange, <<>>, u.ds[c])])]

MergeContentIDs(a, b) ==
  [inserts |-> MergeSets(a.inserts, b.inserts), deletes |-> MergeSets(a.deletes, b.deletes)]

IntersectContentIDs(a, b) ==
  [inserts |-> IntersectSets(a.inserts, b.inserts), deletes |-> IntersectSets(a.deletes, b.deletes)]

DiffContentIDs(a, b) ==
  [inserts |-> SubtractSets(a.inserts, b.inserts), deletes |-> SubtractSets(a.deletes, b.deletes)]

NoContentIDs(a) == IsEmpty(a.inserts) /\ IsEmpty(a.deletes)
IsSubsetContentIDs(a, b) == NoContentIDs(DiffContentIDs(a, b))

\* A fault: no Skip is written between two selected parts.
WrittenWithoutSkip(b, acc, r) ==
  LET from == Max({r.clock, b.clock})
      to   == Min({End(r), EndClock(b)})
  IN IF from >= to THEN acc
     ELSE [acc EXCEPT !.out = Append(@, SliceStruct(b, from - b.clock, EndClock(b) - to)), !.next = to]

\* IntersectUpdateWithContentIDs for one client.  Before anything is written,
\* a range that starts exactly where a struct ends drops the client's rest.
Written(b, acc, r) ==
  LET from == Max({r.clock, b.clock})
      to   == Min({End(r), EndClock(b)})
      gap  == IF acc.out # <<>> /\ from > acc.next
              THEN <<NewBlank("skip", b.client, acc.next, from - acc.next)>> ELSE <<>>
  IN IF from >= to THEN acc
     ELSE [acc EXCEPT !.out = @ \o gap \o <<SliceStruct(b, from - b.clock, EndClock(b) - to)>>,
                      !.next = to]

Dropped(b, acc, ranges) ==
  /\ acc.out = <<>>
  /\ \E r \in ToSet(ranges) : /\ r.clock = EndClock(b)
                              /\ \A q \in ToSet(ranges) : q.clock < r.clock => End(q) <= b.clock

Writes(b, acc, ranges) ==
  LET upTo[i \in 0..Len(ranges)] == IF i = 0 THEN acc ELSE Written(b, upTo[i - 1], ranges[i])
  IN upTo

SelectStruct(b, acc, ranges) ==
  IF acc.stop \/ IsSkip(b) THEN acc
  ELSE IF Dropped(b, acc, ranges) THEN [acc EXCEPT !.stop = TRUE]
  ELSE Writes(b, acc, ranges)[Len(ranges)]

Selections(list, ranges) ==
  LET upTo[i \in 0..Len(list)] ==
        IF i = 0 THEN [out |-> <<>>, next |-> 0, stop |-> FALSE]
        ELSE SelectStruct(list[i], upTo[i - 1], ranges)
  IN upTo

Selected(list, ranges) == Selections(list, ranges)[Len(list)].out

IntersectUpdate(u, ids) ==
  [blocks |-> Fixed([c \in Clients |-> Selected(u.blocks[c], ids.inserts[c])]),
   ds |-> IntersectSets(ContentIDs(u).deletes, ids.deletes)]

-----------------------------------------------------------------------------
(* Garbage collection of deleted content and snapshots.                    *)

ReferencesOf(list) == {b.origin : b \in ToSet(list)} \cup {b.right : b \in ToSet(list)}

Referenced(u) == UNION {ReferencesOf(u.blocks[c]) : c \in Clients}

\* A fault: references do not protect a window.
CollectAlways(b, from, to, referenced) == NewBlank("gc", b.client, from, to - from)

\* A deleted window becomes a GC unless an item refers into it.  (An item's keep
\* flag protects it too; no decoder sets that flag.)
CollectWindow(b, from, to, referenced) ==
  IF \E k \in from..(to - 1) : <<b.client, k>> \in referenced
  THEN SliceStruct(b, from - b.clock, EndClock(b) - to)
  ELSE NewBlank("gc", b.client, from, to - from)

KeepRest(b, done) ==
  IF done.cursor < EndClock(b)
  THEN Append(done.out, SliceStruct(b, done.cursor - b.clock, 0))
  ELSE done.out

\* The struct is cut at the borders of the deleted ranges; Skips are cut too.
CollectRange(b, referenced, acc, r) ==
  LET from == Max({r.clock, acc.cursor})
      to   == Min({End(r), EndClock(b)})
      kept == IF from > acc.cursor
              THEN <<SliceStruct(b, acc.cursor - b.clock, EndClock(b) - from)>> ELSE <<>>
  IN IF End(r) <= acc.cursor \/ r.clock >= EndClock(b) THEN acc
     ELSE [out |-> acc.out \o kept \o <<CollectWindow(b, from, to, referenced)>>, cursor |-> to]

CollectRanges(b, ranges, referenced) ==
  LET upTo[i \in 0..Len(ranges)] ==
        IF i = 0 THEN [out |-> <<>>, cursor |-> b.clock]
        ELSE CollectRange(b, referenced, upTo[i - 1], ranges[i])
  IN upTo

CollectStruct(b, ranges, referenced) ==
  KeepRest(b, CollectRanges(b, ranges, referenced)[Len(ranges)])

CollectStructs(list, ranges, referenced) ==
  LET upTo[i \in 0..Len(list)] ==
        IF i = 0 THEN <<>> ELSE upTo[i - 1] \o CollectStruct(list[i], ranges, referenced)
  IN upTo

CollectList(list, ranges, referenced) == CollectStructs(list, ranges, referenced)[Len(list)]

CollectAll(u, referenced) ==
  Fixed([c \in Clients |-> CollectList(u.blocks[c], u.ds[c], referenced)])

GarbageCollect(u) ==
  [u EXCEPT !.blocks = CollectAll(u, Referenced(u))]

Snapshot(u) == [vector |-> StateVectorV2(u), ds |-> u.ds]

\* The structs of a client follow each other without a hole, and neither the
\* first nor the last is a Skip.
WellFormed(list) ==
  /\ \A i \in 1..(Len(list) - 1) : EndClock(list[i]) = list[i + 1].clock
  /\ list # <<>> => ~IsSkip(Head(list)) /\ ~IsSkip(Last(list))
  /\ \A i \in DOMAIN list : list[i].els # <<>>
=============================================================================
