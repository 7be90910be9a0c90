------------------------------- MODULE IdSets -------------------------------
(* Sets of struct ids, kept per client as a sequence of clock ranges that  *)
(* is sorted, disjoint and never adjacent (internal/yidset).  The delete   *)
(* set of an update and the content ids of an update are such sets.  A     *)
(* clock is an unsigned integer below Width; the end of a range is         *)
(* computed in a wider type and may equal Width.                           *)
EXTENDS Integers, Sequences, SequencesExt, TLC

CONSTANT Width        \* 2^32 in the code

ASSUME WidthAssumption == Width \in Nat \ {0}

\* The same function, or sequence.  TLC evaluates a constructor's body at each
\* application; @@ and \o evaluate it once.
Fixed(f) == <<>> @@ f
FixedSeq(s) == <<>> \o s

End(r) == r.clock + r.len

\* NewRange accepts a range that is not empty and does not pass the width.
NewRange(clock, len) == len # 0 /\ clock + len <= Width

ContainsClock(r, clock) == r.clock <= clock /\ clock < End(r)

MergeRanges(r, s) ==
  LET start == Min({r.clock, s.clock})
      end   == Max({End(r), End(s)})
  IN [clock |-> start, len |-> (end - start) % Width]

\* A fault: a range that only touches `next` is left apart.
AbsorbOverlaps(acc, r) ==
  CASE End(r) <= acc.next.clock -> [acc EXCEPT !.out = Append(@, r)]
    [] End(acc.next) <= r.clock ->
         [acc EXCEPT !.out = (IF acc.placed THEN @ ELSE Append(@, acc.next)) \o <<r>>,
                     !.placed = TRUE]
    [] OTHER -> [acc EXCEPT !.next = MergeRanges(@, r)]

\* One step of the pass over the old ranges: `next` absorbs what it touches.
Absorb(acc, r) ==
  CASE End(r) < acc.next.clock -> [acc EXCEPT !.out = Append(@, r)]
    [] End(acc.next) < r.clock ->
         [acc EXCEPT !.out = (IF acc.placed THEN @ ELSE Append(@, acc.next)) \o <<r>>,
                     !.placed = TRUE]
    [] OTHER -> [acc EXCEPT !.next = MergeRanges(@, r)]

Placed(acc) == IF acc.placed THEN acc.out ELSE Append(acc.out, acc.next)

\* The pass after each of the ranges, in their order.
Pass(ranges, next) ==
  LET upTo[i \in 0..Len(ranges)] ==
        IF i = 0 THEN [out |-> <<>>, next |-> next, placed |-> FALSE]
        ELSE Absorb(upTo[i - 1], ranges[i])
  IN upTo

AddByPass(ranges, next) == Placed(Pass(ranges, next)[Len(ranges)])

\* Add: an append or a merge with the last range when the new one starts at
\* or after it, the full pass otherwise.
AddRange(ranges, next) ==
  IF ranges = <<>> THEN <<next>>
  ELSE IF next.clock >= Last(ranges).clock
       THEN IF End(Last(ranges)) < next.clock
            THEN Append(ranges, next)
            ELSE [ranges EXCEPT ![Len(ranges)] = MergeRanges(@, next)]
       ELSE AddByPass(ranges, next)

\* Merge adds range after range, and clones those of a client it does not have.
Additions(ranges, more) ==
  LET upTo[i \in 0..Len(more)] == IF i = 0 THEN ranges ELSE AddRange(upTo[i - 1], more[i])
  IN upTo

UniteRanges(ranges, more) ==
  IF ranges = <<>> THEN more ELSE Additions(ranges, more)[Len(more)]

MergeSets(s, t) == Fixed([c \in DOMAIN s |-> UniteRanges(s[c], t[c])])

\* Has: a binary search.  One round halves the window, until it is empty or the
\* range in its middle holds the clock.
Probe(ranges, clock, s) ==
  LET mid == (s.left + s.right) \div 2
  IN IF s.found \/ s.left > s.right THEN s
     ELSE IF ContainsClock(ranges[mid], clock) THEN [s EXCEPT !.found = TRUE]
     ELSE IF clock < ranges[mid].clock THEN [s EXCEPT !.right = mid - 1]
     ELSE [s EXCEPT !.left = mid + 1]

Search(ranges, clock) ==
  LET round[i \in 0..Len(ranges)] ==
        IF i = 0 THEN [left |-> 1, right |-> Len(ranges), found |-> FALSE]
        ELSE Probe(ranges, clock, round[i - 1])
  IN round

Holds(ranges, clock) == Search(ranges, clock)[Len(ranges)].found

Has(s, c, clock) == Holds(s[c], clock)

\* Slice cuts [clock, clock + len) into the parts a client's ranges hold and
\* the parts they do not.
Segment(end, acc, r) ==
  LET start == Max({r.clock, acc.cursor})
      stop  == Min({End(r) % Width, end})
      gap   == IF acc.cursor < start
               THEN <<[clock |-> acc.cursor, len |-> start - acc.cursor, exists |-> FALSE]>>
               ELSE <<>>
  IN IF End(r) <= acc.cursor \/ r.clock >= end THEN acc
     ELSE IF start < stop
          THEN [out |-> acc.out \o gap \o <<[clock |-> start, len |-> stop - start, exists |-> TRUE]>>,
                cursor |-> stop]
          ELSE [acc EXCEPT !.out = @ \o gap]

Remainder(end, acc) ==
  IF acc.cursor < end
  THEN Append(acc.out, [clock |-> acc.cursor, len |-> end - acc.cursor, exists |-> FALSE])
  ELSE acc.out

Segments(ranges, clock, end) ==
  LET upTo[i \in 0..Len(ranges)] ==
        IF i = 0 THEN [out |-> <<>>, cursor |-> clock] ELSE Segment(end, upTo[i - 1], ranges[i])
  IN upTo

Slice(ranges, clock, len) ==
  LET end == clock + len
  IN IF end > Width THEN <<[clock |-> clock, len |-> len, exists |-> FALSE]>>
     ELSE Remainder(end, Segments(ranges, clock, end)[Len(ranges)])

\* IntersectSets walks the two sequences together and advances the one
\* whose range ends first.
Overlap(a, b, s) ==
  LET start == Max({a[s.i].clock, b[s.j].clock})
      end   == Min({End(a[s.i]), End(b[s.j])})
      part  == IF start < end THEN <<[clock |-> start, len |-> end - start]>> ELSE <<>>
  IN IF s.i > Len(a) \/ s.j > Len(b) THEN s
     ELSE IF End(a[s.i]) < End(b[s.j]) THEN [s EXCEPT !.out = @ \o part, !.i = @ + 1]
     ELSE [s EXCEPT !.out = @ \o part, !.j = @ + 1]

Overlaps(a, b) ==
  LET round[k \in 0..(Len(a) + Len(b))] ==
        IF k = 0 THEN [i |-> 1, j |-> 1, out |-> <<>>] ELSE Overlap(a, b, round[k - 1])
  IN round

CommonRanges(a, b) == Overlaps(a, b)[Len(a) + Len(b)].out

IntersectSets(s, t) == Fixed([c \in DOMAIN s |-> CommonRanges(s[c], t[c])])

\* subtractRanges: of the range at i, what lies before `cursor` is settled; the
\* removal at j is passed, cuts the range, or lies behind it.
Cut(left, right, s) ==
  LET r      == left[s.i]
      cursor == Max({s.cursor, r.clock})
      upTo(stop) == IF cursor < stop THEN <<[clock |-> cursor, len |-> stop - cursor]>> ELSE <<>>
      settled(stop) == [i |-> s.i + 1, j |-> s.j, cursor |-> 0, out |-> s.out \o upTo(stop)]
  IN IF s.i > Len(left) THEN s
     ELSE IF s.j > Len(right) THEN settled(End(r))
     ELSE IF End(right[s.j]) <= r.clock THEN [s EXCEPT !.j = @ + 1]
     ELSE IF right[s.j].clock >= End(r) THEN settled(End(r))
     ELSE IF End(right[s.j]) >= End(r) THEN settled(right[s.j].clock)
     ELSE [i |-> s.i, j |-> s.j + 1, cursor |-> End(right[s.j]),
           out |-> s.out \o upTo(right[s.j].clock)]

Cuts(left, right) ==
  LET round[k \in 0..(Len(left) + Len(right))] ==
        IF k = 0 THEN [i |-> 1, j |-> 1, cursor |-> 0, out |-> <<>>]
        ELSE Cut(left, right, round[k - 1])
  IN round

SubtractRanges(left, right) == Cuts(left, right)[Len(left) + Len(right)].out

\* Subtract adds what is left range by range (addRange).
Rebuilt(ranges) ==
  LET upTo[i \in 0..Len(ranges)] == IF i = 0 THEN <<>> ELSE AddByPass(upTo[i - 1], ranges[i])
  IN upTo

LeftRanges(left, right) ==
  IF right = <<>> THEN left
  ELSE LET rest == SubtractRanges(left, right) IN Rebuilt(rest)[Len(rest)]

SubtractSets(s, t) == Fixed([c \in DOMAIN s |-> LeftRanges(s[c], t[c])])

IsEmpty(s) == \A c \in DOMAIN s : s[c] = <<>>

\* The clocks that ranges stand for, the ids of a set, and the normal form.
Clocks(ranges) == UNION {r.clock .. End(r) - 1 : r \in ToSet(ranges)}

IdsOf(s) == UNION {{c} \X Clocks(s[c]) : c \in DOMAIN s}

Normal(ranges) ==
  /\ \A r \in ToSet(ranges) : NewRange(r.clock, r.len)
  /\ \A i \in 1..(Len(ranges) - 1) : End(ranges[i]) < ranges[i + 1].clock
=============================================================================
