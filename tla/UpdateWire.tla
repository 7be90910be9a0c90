----------------------------- MODULE UpdateWire -----------------------------
(* The two wire formats of an update and the conversions between them.     *)
(* Neither format writes the clock of a struct: a client's group has the   *)
(* clock of its first struct and the reader adds up lengths.  V1 writes    *)
(* the structs one after another.  V2 spreads their fields over columns,   *)
(* each run-length encoded, and a `rest` stream; a reader that takes one   *)
(* value too many or too few from a column misreads all that follows.      *)
(* Payloads are sequences of values, not of bytes.                         *)
EXTENDS UpdateAlgebra

RootName == <<-2>>    \* the parent of an item that has neither origin
FormatKey == <<-3>>
Eof == -9             \* what reading past the end of a column gives

NoPayload == [fmt |-> "none"]      \* a payload of no bytes
BadPayload == [fmt |-> "bad"]      \* a payload no decoder accepts

Each(seq, f(_)) == FixedSeq([i \in DOMAIN seq |-> f(seq[i])])

DescClients == SetToSortSeq(Clients, >)
Groups(u) == SelectSeq(DescClients, LAMBDA c : u.blocks[c] # <<>>)
DeleteGroups(u) == SelectSeq(DescClients, LAMBDA c : u.ds[c] # <<>>)

\* Structs read in sequence take their clocks from the lengths before them.
AtClock(list, c, clock) ==
  FoldLeft(LAMBDA acc, b : [out |-> Append(acc.out, [b EXCEPT !.client = c, !.clock = acc.clock]),
                            clock |-> acc.clock + Len(b.els)],
           [out |-> <<>>, clock |-> clock], list).out

-----------------------------------------------------------------------------
(* V1.                                                                     *)

EncodeV1(u) ==
  LET group(c) == [client |-> c, clock |-> Head(u.blocks[c]).clock,
                   structs |-> AtClock(u.blocks[c], 0, 0)]
      deleted(c) == [client |-> c, ranges |-> u.ds[c]]
  IN [fmt |-> "v1", groups |-> Each(Groups(u), group), ds |-> Each(DeleteGroups(u), deleted)]

DecodeV1(p) ==
  [blocks |-> Fixed([c \in Clients |-> FlattenSeq([i \in DOMAIN p.groups |->
     IF p.groups[i].client = c THEN AtClock(p.groups[i].structs, c, p.groups[i].clock) ELSE <<>>])]),
   ds |-> Fixed([c \in Clients |-> FoldLeft(AddRange, <<>>, FlattenSeq([i \in DOMAIN p.ds |->
     IF p.ds[i].client = c THEN p.ds[i].ranges ELSE <<>>]))])]

-----------------------------------------------------------------------------
(* The column codecs of V2 (lib0).                                         *)

Runs(values) ==
  FoldLeft(LAMBDA rs, v : IF rs # <<>> /\ Last(rs).v = v
                          THEN [rs EXCEPT ![Len(rs)].n = @ + 1]
                          ELSE Append(rs, [v |-> v, n |-> 1]),
           <<>>, values)

\* A fault: the sign of a zero is lost.
PlainSigned(value, negative) == [mag |-> value, neg |-> negative /\ value # 0]

\* A number with its own sign bit: minus zero differs from zero.
VarIntSigned(value, negative) == [mag |-> value, neg |-> negative]

\* uintOptRle: a negative value announces a count, less two.
UintOptRle(values) ==
  LET code(run) == <<VarIntSigned(run.v, run.n > 1)>>
                     \o IF run.n > 1 THEN <<VarIntSigned(run.n - 2, FALSE)>> ELSE <<>>
  IN FlattenSeq(Each(Runs(values), code))

RECURSIVE UintOptRleRead(_)
UintOptRleRead(data) ==
  IF data = <<>> THEN <<>>
  ELSE IF Head(data).neg /\ Len(data) > 1
       THEN [i \in 1..(data[2].mag + 2) |-> Head(data).mag]
              \o UintOptRleRead(SubSeq(data, 3, Len(data)))
       ELSE <<Head(data).mag>> \o UintOptRleRead(Tail(data))

\* intDiffOptRle: differences, doubled, odd when a count follows.
IntDiffOptRle(values) ==
  LET diffs == [i \in DOMAIN values |-> values[i] - IF i = 1 THEN 0 ELSE values[i - 1]]
      code(run) == IF run.n > 1 THEN <<2 * run.v + 1, run.n - 2>> ELSE <<2 * run.v>>
  IN FlattenSeq(Each(Runs(diffs), code))

RECURSIVE IntDiffOptRleRead(_, _)
IntDiffOptRleRead(data, value) ==
  IF data = <<>> THEN <<>>
  ELSE LET diff  == Head(data) \div 2
           count == IF Head(data) % 2 = 1 THEN data[2] + 2 ELSE 1
           used  == IF Head(data) % 2 = 1 THEN 2 ELSE 1
       IN [i \in 1..count |-> value + i * diff]
            \o IntDiffOptRleRead(SubSeq(data, used + 1, Len(data)), value + count * diff)

\* rleByte: value and count less one, but the last run has no count: its
\* value is read as often as asked.
LastUncounted(runs) == IF runs = <<>> THEN <<>> ELSE [runs EXCEPT ![Len(runs)].n = 1]

RleByte(values) == LastUncounted(Runs(values))

RleByteRead(data) == FlattenSeq([i \in DOMAIN data |-> [k \in 1..data[i].n |-> data[i].v]])

StringTable(strings) ==
  [table |-> FlattenSeq(strings), lengths |-> UintOptRle(Each(strings, Len))]

RECURSIVE CutTable(_, _)
CutTable(table, lengths) ==
  IF lengths = <<>> THEN <<>>
  ELSE <<SubSeq(table, 1, Head(lengths))>>
         \o CutTable(SubSeq(table, Head(lengths) + 1, Len(table)), Tail(lengths))

-----------------------------------------------------------------------------
(* V2.                                                                     *)

Columns == [key |-> <<>>, client |-> <<>>, left |-> <<>>, right |-> <<>>, info |-> <<>>,
            str |-> <<>>, parent |-> <<>>, len |-> <<>>, rest |-> <<>>]

WriteContent(e, b) ==
  CASE b.kind = "deleted" -> [e EXCEPT !.len = Append(@, Len(b.els))]
    [] b.kind = "text"    -> [e EXCEPT !.str = Append(@, b.els)]
    [] b.kind = "format"  -> [e EXCEPT !.key = Append(@, Len(@)), !.str = Append(@, FormatKey),
                                       !.rest = Append(@, [raw |-> b.raw, value |-> b.els])]

WriteLeftID(e, id) == [e EXCEPT !.client = Append(@, id[1]), !.left = Append(@, id[2])]
WriteRightID(e, id) == [e EXCEPT !.client = Append(@, id[1]), !.right = Append(@, id[2])]

\* An item without neighbours names its parent: a root here.
WriteItem(e, b) ==
  LET left  == b.origin # NoId
      right == b.right # NoId
      info  == [e EXCEPT !.info = Append(@, [kind |-> b.kind, left |-> left, right |-> right])]
      ids   == IF left THEN WriteLeftID(info, b.origin) ELSE info
      both  == IF right THEN WriteRightID(ids, b.right) ELSE ids
  IN WriteContent(IF left \/ right THEN both
                  ELSE [both EXCEPT !.parent = Append(@, 1), !.str = Append(@, RootName)], b)

WriteStruct(e, b) ==
  LET plain == [kind |-> b.kind, left |-> FALSE, right |-> FALSE]
  IN CASE b.kind = "gc"   -> [e EXCEPT !.info = Append(@, plain), !.len = Append(@, Len(b.els))]
       [] b.kind = "skip" -> [e EXCEPT !.info = Append(@, plain), !.rest = Append(@, Len(b.els))]
       [] OTHER           -> WriteItem(e, b)

WriteGroup(e, list) ==
  FoldLeft(WriteStruct,
           [e EXCEPT !.rest = @ \o <<Len(list), Head(list).clock>>,
                     !.client = Append(@, Head(list).client)],
           list)

\* Deleted ranges: the distance from the end of the range before, the length
\* less one.
WriteDeletes(c, ranges) ==
  <<c, Len(ranges)>> \o FlattenSeq([i \in DOMAIN ranges |->
    <<ranges[i].clock - IF i = 1 THEN 0 ELSE End(ranges[i - 1]), ranges[i].len - 1>>])

Pack(e, ds) ==
  [fmt |-> "v2", key |-> IntDiffOptRle(e.key), client |-> UintOptRle(e.client),
   left |-> IntDiffOptRle(e.left), right |-> IntDiffOptRle(e.right), info |-> RleByte(e.info),
   str |-> StringTable(e.str), parent |-> RleByte(e.parent), len |-> UintOptRle(e.len),
   rest |-> e.rest \o ds]

EncodeV2(u) ==
  LET deleted(c) == WriteDeletes(c, u.ds[c])
  IN Pack(FoldLeft(LAMBDA acc, c : WriteGroup(acc, u.blocks[c]),
                   [Columns EXCEPT !.rest = <<Len(Groups(u))>>], Groups(u)),
          <<Len(DeleteGroups(u))>> \o FlattenSeq(Each(DeleteGroups(u), deleted)))

OpenColumns(p) ==
  [key |-> IntDiffOptRleRead(p.key, 0), client |-> UintOptRleRead(p.client),
   left |-> IntDiffOptRleRead(p.left, 0), right |-> IntDiffOptRleRead(p.right, 0),
   info |-> RleByteRead(p.info), str |-> CutTable(p.str.table, UintOptRleRead(p.str.lengths)),
   parent |-> RleByteRead(p.parent), len |-> UintOptRleRead(p.len), rest |-> p.rest,
   keys |-> <<>>, blocks |-> Fixed([c \in Clients |-> <<>>])]

Value(column) == IF column = <<>> THEN Eof ELSE Head(column)
Past(column) == IF column = <<>> THEN <<>> ELSE Tail(column)
PastRle(column) == IF Len(column) = 1 THEN column ELSE Past(column)

ReadLeftID(d) == <<Value(d.client), Value(d.left)>>
ReadRightID(d) == <<Value(d.client), Value(d.right)>>

\* A key is new when its clock is the next one; only then a string follows.
ReadKey(d) ==
  IF Value(d.key) < Len(d.keys)
  THEN [d EXCEPT !.key = Past(@)]
  ELSE [d EXCEPT !.key = Past(@), !.keys = Append(@, Value(d.str)), !.str = Past(@)]

\* Each read takes the decoder d and the struct b read so far.
ReadOrigins(d, b, info) ==
  IF info.left
  THEN [d |-> [d EXCEPT !.client = Past(@), !.left = Past(@)], b |-> [b EXCEPT !.origin = ReadLeftID(d)]]
  ELSE [d |-> d, b |-> b]

ReadRightOrigin(r, info) ==
  IF info.right
  THEN [d |-> [r.d EXCEPT !.client = Past(@), !.right = Past(@)],
        b |-> [r.b EXCEPT !.right = ReadRightID(r.d)]]
  ELSE r

ReadParent(r, info) ==
  IF info.left \/ info.right THEN r
  ELSE [r EXCEPT !.d.parent = PastRle(@), !.d.str = Past(@)]

ReadDeleted(r) ==
  [d |-> [r.d EXCEPT !.len = Past(@)],
   b |-> [r.b EXCEPT !.els = [i \in 1..Value(r.d.len) |-> Blank]]]

ReadText(r) ==
  [d |-> [r.d EXCEPT !.str = Past(@)],
   b |-> [r.b EXCEPT !.els = IF r.d.str = <<>> THEN <<Eof>> ELSE Head(r.d.str)]]

ReadFormat(r) ==
  [d |-> [ReadKey(r.d) EXCEPT !.rest = Past(@)],
   b |-> [r.b EXCEPT !.els = Head(r.d.rest).value, !.raw = Head(r.d.rest).raw]]

\* The contents of the model: one that counts, one that was deleted, one that
\* carries a value whose form depends on the format.
ReadContent(r, kind) ==
  CASE kind = "deleted" -> ReadDeleted(r)
    [] kind = "text"    -> ReadText(r)
    [] kind = "format"  -> ReadFormat(r)

ReadItem(d, info, c, clock) ==
  ReadContent(ReadParent(ReadRightOrigin(
    ReadOrigins(d, NewBlank(info.kind, c, clock, 0), info), info), info), info.kind)

ReadAs(d, info, c, clock) ==
  CASE info.kind = "gc" ->
         [d |-> [d EXCEPT !.len = Past(@)], b |-> NewBlank("gc", c, clock, Value(d.len))]
    [] info.kind = "skip" ->
         [d |-> [d EXCEPT !.rest = Past(@)], b |-> NewBlank("skip", c, clock, Value(d.rest))]
    [] OTHER -> ReadItem(d, info, c, clock)

ReadStruct(d, c, clock) == ReadAs([d EXCEPT !.info = PastRle(@)], Head(d.info), c, clock)

Keep(r, c) == [d |-> [r.d EXCEPT !.blocks[c] = Append(@, r.b)], clock |-> EndClock(r.b)]

RECURSIVE ReadStructs(_, _, _)
ReadStructs(at, c, count) ==
  IF count = 0 THEN at.d ELSE ReadStructs(Keep(ReadStruct(at.d, c, at.clock), c), c, count - 1)

RECURSIVE ReadGroups(_, _)
ReadGroups(d, count) ==
  IF count = 0 THEN d
  ELSE ReadGroups(ReadStructs([d |-> [d EXCEPT !.rest = SubSeq(@, 3, Len(@)), !.client = Past(@)],
                               clock |-> d.rest[2]],
                              Value(d.client), d.rest[1]), count - 1)

RECURSIVE ReadRanges(_, _, _)
ReadRanges(rest, cursor, count) ==
  IF count = 0 THEN <<>>
  ELSE LET r == [clock |-> cursor + rest[1], len |-> rest[2] + 1]
       IN <<r>> \o ReadRanges(SubSeq(rest, 3, Len(rest)), End(r), count - 1)

RECURSIVE ReadDeletes(_, _, _)
ReadDeletes(ds, rest, count) ==
  IF count = 0 THEN [ds |-> ds, rest |-> rest]
  ELSE ReadDeletes([ds EXCEPT ![rest[1]] =
                      FoldLeft(AddRange, @, ReadRanges(SubSeq(rest, 3, Len(rest)), 0, rest[2]))],
                   SubSeq(rest, 3 + 2 * rest[2], Len(rest)), count - 1)

\* ensureDrained: nothing may be left over in any column.
Drained(d, rest) ==
  /\ \A col \in {"key", "client", "left", "right", "str", "len"} : d[col] = <<>>
  /\ Len(d.info) <= 1 /\ Len(d.parent) <= 1
  /\ rest = <<>>

Finish(d, del) ==
  [update |-> [blocks |-> d.blocks, ds |-> del.ds], drained |-> Drained(d, del.rest)]

ThenDeletes(d) == Finish(d, ReadDeletes(NoRanges, Tail(d.rest), Head(d.rest)))

DecodeV2(p) ==
  ThenDeletes(ReadGroups([OpenColumns(p) EXCEPT !.rest = Tail(@)], Head(p.rest)))

-----------------------------------------------------------------------------
(* Conversions: the format is detected from the payload, V1 wires carry    *)
(* format values as JSON and V2 wires as lib0 values.                      *)

Decode(p) == IF p.fmt = "v1" THEN DecodeV1(p) ELSE DecodeV2(p).update

RewriteFormats(u, raw) ==
  LET rewrite(b) == IF b.kind = "format" THEN [b EXCEPT !.raw = raw] ELSE b
  IN [u EXCEPT !.blocks = Fixed([c \in Clients |-> Each(u.blocks[c], rewrite)])]

ConvertToV1YjsWire(p) == EncodeV1(RewriteFormats(Decode(p), "json"))
ConvertToV2YjsWire(p) == EncodeV2(RewriteFormats(Decode(p), "any"))
ConvertToV1(p) == EncodeV1(Decode(p))

\* MergeUpdatesV2 on payloads whose formats agree; payloads of no bytes are
\* left out.
MergeUpdatesV2(payloads) ==
  LET full == SelectSeq(payloads, LAMBDA p : p.fmt # "none")
  IN EncodeV2(MergeDecoded(Each(full, Decode)))

MergeUpdatesV1(payloads) == EncodeV1(MergeDecoded(Each(payloads, Decode)))

\* Both formats are diffed as V1.
DiffUpdate(p, vector) ==
  EncodeV1(Diff(DecodeV1(IF p.fmt = "v1" THEN p ELSE ConvertToV1(p)), vector))

\* A snapshot is garbage collected whenever it is built, encoded or stored.
SnapshotOf(u) == [v2 |-> EncodeV2(u), v1 |-> EncodeV1(u), snapshot |-> Snapshot(u)]
PersistedSnapshot(p) == SnapshotOf(GarbageCollect(Decode(p)))

EncodePersistedSnapshotV2(s) == EncodeV2(GarbageCollect(Decode(s.v2)))

\* The PostgreSQL store merges the two forms before it writes V2 alone.
EncodeCanonicalSnapshotV2(s) ==
  EncodePersistedSnapshotV2(PersistedSnapshot(MergeUpdatesV1(<<s.v1, ConvertToV1(s.v2)>>)))

\* LoadPersistedSnapshot of the session.
LoadPersistedSnapshot(s) == ConvertToV2YjsWire(EncodePersistedSnapshotV2(s))
=============================================================================
