---------------------------- MODULE DocumentSync ----------------------------
(* How a document is rebuilt from its update log and then kept up to date. *)
(* Recovery merges the stored payloads with the aggregation of module      *)
(* Aggregation; the merged document is garbage collected and loaded into a *)
(* session, which merges every later update into it, answers state vectors *)
(* with diffs, and is saved and loaded again.                              *)
EXTENDS Aggregation, UpdateWire

CONSTANTS
  Updates,        \* the decoded updates clients send
  MaxLive         \* bound on updates and reloads after recovery

VARIABLES
  doc,       \* the session's canonical payload
  known,     \* history: ids inserted by what was received
  deleted,   \* history: ids deleted by what was received
  live       \* updates and reloads so far

vars == <<aggVars, doc, known, deleted, live>>

Ids(u) == IdsOf(ContentIDs(u).inserts)
Deletes(u) == IdsOf(u.ds)

Init ==
  /\ AggInit
  /\ doc = EncodeV2(EmptyUpdate)
  /\ known = {} /\ deleted = {}
  /\ live = 0

-----------------------------------------------------------------------------
(* Recovery.                                                               *)

Aggregate == AggNext /\ UNCHANGED <<doc, known, deleted, live>>

\* The reducer of the merge pass sees a zero entry, an update with nothing in
\* it, where no result came in.
Entries == [i \in DOMAIN log |-> IF i \in agg.sent THEN Decode(log[i]) ELSE EmptyUpdate]

\* What was merged becomes a snapshot, and the snapshot a session's document.
Load ==
  /\ stage = "merged"
  /\ stage' = "serving"
  /\ doc' = LoadPersistedSnapshot(PersistedSnapshot(EncodeV2(MergeDecoded(Entries))))
  /\ known' = UNION {Ids(Decode(log[i])) : i \in DOMAIN log}
  /\ deleted' = UNION {Deletes(Decode(log[i])) : i \in DOMAIN log}
  /\ agg' = NewAgg /\ log' = <<>>
  /\ UNCHANGED live

-----------------------------------------------------------------------------
(* The session.                                                            *)

Payload(u, format) ==
  IF format = "v1" THEN EncodeV1(RewriteFormats(u, "json")) ELSE EncodeV2(RewriteFormats(u, "any"))

\* Step2 or Update: convert, merge with the current document, keep.
HandleUpdate(u, format) ==
  /\ stage = "serving" /\ live < MaxLive
  /\ doc' = MergeUpdatesV2(<<doc, ConvertToV2YjsWire(Payload(u, format))>>)
  /\ known' = known \cup Ids(u)
  /\ deleted' = deleted \cup Deletes(u)
  /\ live' = live + 1
  /\ UNCHANGED <<stage, log, agg>>

\* Saved in memory or in PostgreSQL and loaded again.
Reload(stored) ==
  /\ stage = "serving" /\ live < MaxLive
  /\ doc' = LoadPersistedSnapshot(stored)
  /\ live' = live + 1
  /\ UNCHANGED <<stage, log, agg, known, deleted>>

\* Each store keeps V2 and decodes it into a snapshot: both collect once more.
ReloadFromMemory == Reload(PersistedSnapshot(EncodePersistedSnapshotV2(PersistedSnapshot(doc))))
ReloadFromPostgres == Reload(PersistedSnapshot(EncodeCanonicalSnapshotV2(PersistedSnapshot(doc))))

\* Step1: the answer to a state vector, in the format of the connection.
Reply(vector, format) ==
  IF format = "v1" THEN DiffUpdate(ConvertToV1YjsWire(doc), vector)
  ELSE ConvertToV2YjsWire(DiffUpdate(doc, vector))

Next ==
  \/ Aggregate
  \/ Load
  \/ \E u \in Updates, f \in {"v1", "v2"} : HandleUpdate(u, f)
  \/ ReloadFromMemory
  \/ ReloadFromPostgres

Spec == Init /\ [][Next]_vars /\ AggFairness

-----------------------------------------------------------------------------
(* Properties.                                                             *)

Serving == stage = "serving"

\* The elements an update holds: client, clock and payload.
Elements(u) ==
  UNION {UNION {{<<c, b.clock + i - 1, b.els[i]>> : i \in DOMAIN b.els} :
                b \in {x \in ToSet(u.blocks[c]) : ~IsSkip(x)}} : c \in Clients}

WellFormedUpdate(u) == \A c \in Clients : WellFormed(u.blocks[c]) /\ Normal(u.ds[c])

\* Every variable has its type, and the canonical payload of a session decodes
\* to a well-formed update: per client structs without holes between two
\* structs that are not Skips, and a delete set in normal form
\* (groupStructsByClient, IdSet.Add).
TypeOK ==
  /\ AggTypeOK
  /\ live \in 0..MaxLive
  /\ WellFormedUpdate(Decode(doc))

\* The origin an item starting at a clock was created with.
OriginOf(c, clock) ==
  LET starts == {b \in UNION {ToSet(u.blocks[c]) : u \in Updates} : IsItem(b) /\ b.clock = clock}
  IN IF starts = {} THEN {<<c, clock - 1>>} ELSE {b.origin : b \in starts}

HoldsWhatCame(u, ids) ==
  /\ known \subseteq ids /\ ids \subseteq known \cup deleted
  /\ Deletes(u) = deleted
  /\ {<<id[1], id[2], id[2]>> : id \in known \ deleted} \subseteq Elements(u)
  /\ \A c \in Clients : \A b \in ToSet(u.blocks[c]) :
       IsItem(b) => b.origin \in OriginOf(c, b.clock)

\* Whatever the order of logs, workers, updates and reloads, the document is
\* what was received: it holds every inserted id, nothing else but deleted
\* ids, exactly the deletes received, and every id that is not deleted still
\* has its element and, where it starts an item, its origin.  No payload of
\* the log is lost to a cancelled aggregation (mergeDecodedUpdatesV1 takes a
\* missing entry for an empty update), and the document stays well-formed.
DocumentExact == TypeOK /\ (Serving => \A u \in {Decode(doc)} : HoldsWhatCame(u, Ids(u)))

\* The session's document carries values in V2 form, and each answer in the
\* form of the connection's format.
FormsHonoured ==
  LET raws(u) == {b.raw : b \in {x \in UNION {ToSet(u.blocks[c]) : c \in Clients} : x.kind = "format"}}
      zero == [c \in Clients |-> 0]
  IN /\ raws(Decode(doc)) \subseteq {"any"}
     /\ raws(Decode(Reply(zero, "v1"))) \subseteq {"json"}
     /\ raws(Decode(Reply(zero, "v2"))) \subseteq {"any"}

\* What the session would write after any further update, both wire formats
\* give back, and V2 leaves nothing in its columns; values are in the form of
\* the format they are written in.
WireFaithful ==
  Serving =>
    /\ FormsHonoured
    /\ \A u \in {MergeDecoded(<<Decode(doc), sent>>) : sent \in Updates} :
         /\ DecodeV1(EncodeV1(u)) = u
         /\ DecodeV2(EncodeV2(u)) = [update |-> u, drained |-> TRUE]

\* The number of clocks from zero that a set of ids holds without a gap.
Prefix(ids, c) == Min({n \in 0..Width : <<c, n>> \notin ids})

\* What of a document a state vector counts.
Part(u, vector) ==
  LET below(c) == LET whole == SelectSeq(u.blocks[c], LAMBDA b : b.clock < vector[c])
                  IN [i \in DOMAIN whole |->
                        SliceStruct(whole[i], 0, Max({EndClock(whole[i]) - vector[c], 0}))]
  IN [blocks |-> Fixed([c \in Clients |-> below(c)]), ds |-> NoRanges]

Vectors(ids) == {v \in [Clients -> 0..Width] : \A c \in Clients : v[c] <= Prefix(ids, c)}

SameContent(merged, u) == Elements(merged) = Elements(u) /\ merged.ds = u.ds

\* The clock after the last one that a set of ids holds.
Reach(ids, c) == Max({0} \cup {id[2] + 1 : id \in {x \in ids : x[1] = c}})

\* The V1 state vector claims exactly the gap-free prefix; the V2 one counts to
\* the last clock, so it also claims the ids of a gap (stateVectorFromBlockSet),
\* and the two agree where there is none; V1 vectors merged from parts never
\* claim more than the merged document holds (StateVectorFromUpdates).
VectorsExact ==
  \A u \in {Decode(doc)} :
    /\ \A ids \in {Ids(u)}, c \in Clients :
         StateVectorV1(u)[c] = Prefix(ids, c) /\ StateVectorV2(u)[c] = Reach(ids, c)
    /\ \A sent \in Updates : \A ids \in {Ids(MergeDecoded(<<u, sent>>))}, c \in Clients :
         MergeStateVectors(StateVectorV1(u), StateVectorV1(sent))[c] <= Prefix(ids, c)

\* A peer that holds a gap-free part of the document, and sends its state
\* vector, has all of the document once it has merged the answer, in either
\* format; the answer repeats no clock the peer counted.  Each state vector is
\* what its format makes of the document: V1 claims no id the document lacks,
\* V2 does where the document has a gap.
DiffCompletes ==
  Serving =>
    /\ VectorsExact
    /\ \A u \in {Decode(doc)} :
         \A vector \in Vectors(Ids(u)), f \in {"v1", "v2"} : \A answer \in {Decode(Reply(vector, f))} :
           /\ SameContent(MergeDecoded(<<Part(u, vector), answer>>), u)
           /\ \A id \in Ids(answer) : id[2] >= vector[id[1]]

Selects(got, u, ids) ==
  LET chosen(c) == {e \in Elements(u) : e[1] = c /\ <<c, e[2]>> \in IdsOf(ids.inserts)}
  IN /\ \A c \in Clients :
          \/ {e \in Elements(got) : e[1] = c} = chosen(c)
          \/ /\ got.blocks[c] = <<>>
             /\ \E b \in ToSet(u.blocks[c]), r \in ToSet(ids.inserts[c]) : EndClock(b) = r.clock
     /\ IdsOf(got.ds) = IdsOf(ids.deletes) \cap Deletes(u)

StandsFor(set, ids) == IdsOf(set) = ids /\ \A c \in Clients : Normal(set[c])

SetLaws(s, t, sIds, tIds) ==
  /\ StandsFor(MergeSets(s, t), sIds \cup tIds)
  /\ StandsFor(IntersectSets(s, t), sIds \cap tIds)
  /\ StandsFor(SubtractSets(s, t), sIds \ tIds)
  /\ \A c \in Clients :
       /\ \A k \in 0..(Width - 1) : Has(s, c, k) <=> <<c, k>> \in sIds
       /\ \A r \in ToSet(t[c]) :
            UNION {g.clock .. End(g) - 1 : g \in {x \in ToSet(Slice(s[c], r.clock, r.len)) : x.exists}}
              = {k \in r.clock .. End(r) - 1 : <<c, k>> \in sIds}

\* The operations on ranges are those of sets, and keep the normal form, for
\* the content ids of the document and of each update, both ways round.
IdSetAlgebra ==
  \A a \in {ContentIDs(Decode(doc))} : \A b \in {ContentIDs(sent) : sent \in Updates} :
    /\ \A p \in {<<a.inserts, b.inserts>>, <<b.inserts, a.inserts>>, <<a.deletes, b.deletes>>} :
         SetLaws(p[1], p[2], IdsOf(p[1]), IdsOf(p[2]))
    /\ IsSubsetContentIDs(b, MergeContentIDs(a, b))
    /\ IsSubsetContentIDs(IntersectContentIDs(a, b), a)

\* A selection by content ids survives its own encoding and holds the
\* selected elements, client by client all of them, or none when a selected
\* range starts just where a struct before it ends; and the sets of ids a
\* selection is made with obey the laws of sets.
SelectionExact ==
  Serving =>
    /\ IdSetAlgebra
    /\ \A u \in {Decode(doc)} : \A ids \in {ContentIDs(sent) : sent \in Updates} :
         Selects(DecodeV1(EncodeV1(IntersectUpdate(u, ids))), u, ids)

KeepsLive(v, u, kept) ==
  /\ Ids(u) \subseteq Ids(v) /\ v.ds = u.ds
  /\ \A e \in Elements(u) :
       \/ e \in kept
       \/ <<e[1], e[2]>> \in Deletes(u) \ (Referenced(u) \cap Referenced(v))

\* A saved document loses no id, no element that is not deleted, and no
\* element an item referred to and still refers to; its two forms agree.
\* (The origin that a cut gives to the part behind a collected window is a
\* new reference, and may point into that window.)
PersistKeepsLive ==
  Serving => \A u \in {Decode(doc)}, s \in {PersistedSnapshot(doc)} :
    /\ Decode(s.v1) = Decode(s.v2)
    /\ \A v \in {Decode(p) : p \in {s.v2, EncodeCanonicalSnapshotV2(s), LoadPersistedSnapshot(s)}} :
         KeepsLive(v, u, Elements(v))
=============================================================================
