----------------------- MODULE OwnershipRuntime_proofs -----------------------
(***************************************************************************)
(* One run of ownership per document, for any documents, callers, entries  *)
(* and tokens, with or without lapses and faults.  SingleRun follows from  *)
(* what the map of entries says of every run, which is inductive.  On top  *)
(* of it: the reference counts, and what becomes of every lease acquired.  *)
(***************************************************************************)
EXTENDS OwnershipRuntime, FiniteSetTheorems, TLAPS

\* Every run, from acquireEntry to finishEntry, is the one its document's map
\* entry names.
Mapped ==
  \A e \in Entries : Running(e) => /\ entry[e].doc \in Docs
                                   /\ entries[entry[e].doc] = e

Inv == TypeOK /\ Mapped

-----------------------------------------------------------------------------
(* The fields of an entry.                                                 *)

\* An entry whose goroutine goes to another step, whatever else of the run
\* changes, is an entry.
LEMMA EntryFields ==
  ASSUME NEW r \in Entry
  PROVE  /\ r.doc \in Docs \cup {None} /\ r.at \in Steps /\ r.refs \in Nat
         /\ r.cancelled \in BOOLEAN /\ r.ready \in BOOLEAN /\ r.owned \in BOOLEAN
         /\ r.acquired \in BOOLEAN /\ r.lease \in Tokens \cup {None}
         /\ \A step \in Steps : [r EXCEPT !.at = step] \in Entry
BY DEF Entry

\* Taking and dropping a reference leave an entry where it is.
LEMMA RefsTyped ==
  ASSUME NEW r \in Entry
  PROVE  /\ Joined(r) \in Entry /\ Joined(r).at = r.at /\ Joined(r).doc = r.doc
         /\ Dropped(r) \in Entry /\ Dropped(r).at = r.at /\ Dropped(r).doc = r.doc
<1> DEFINE refs == IF r.refs > 0 THEN r.refs - 1 ELSE 0
<1>1. refs \in Nat BY EntryFields
<1>2. (r.cancelled \/ refs = 0) \in BOOLEAN OBVIOUS
<1> HIDE DEF refs
<1>3. [r EXCEPT !.refs = refs, !.cancelled = @ \/ refs = 0] \in Entry
  BY <1>1, <1>2 DEF Entry
<1>4. Dropped(r) = [r EXCEPT !.refs = refs, !.cancelled = @ \/ refs = 0] BY DEF Dropped, refs
<1>5. Dropped(r).at = r.at /\ Dropped(r).doc = r.doc BY <1>4 DEF Entry
<1>6. Joined(r) \in Entry /\ Joined(r).at = r.at /\ Joined(r).doc = r.doc BY DEF Joined, Entry
<1> QED BY <1>3, <1>4, <1>5, <1>6

-----------------------------------------------------------------------------
(* Steps that leave the map alone and move no goroutine into a run.        *)

\* If every entry stays an entry, and none changes its document or starts to
\* run, the map still names every run.
LEMMA SameMap ==
  ASSUME Inv, entry' \in [Entries -> Entry], UNCHANGED entries,
         \A e \in Entries : Running(e)' => Running(e) /\ entry'[e].doc = entry[e].doc
  PROVE  Mapped'
BY DEF Inv, Mapped

\* One entry is replaced, by one of the same document that does not start to run.
LEMMA OneMoves ==
  ASSUME Inv, NEW e, NEW r \in Entry, entry' = [entry EXCEPT ![e] = r], UNCHANGED entries,
         e \in Entries => /\ r.doc = entry[e].doc
                          /\ r.at \notin {"none", "done"} => Running(e)
  PROVE  entry' \in [Entries -> Entry] /\ Mapped'
<1>1. entry' \in [Entries -> Entry] BY DEF Inv, TypeOK
<1>2. ASSUME NEW f \in Entries, Running(f)'
      PROVE  Running(f) /\ entry'[f].doc = entry[f].doc
  <2>1. CASE f = e BY <1>2, <2>1 DEF Inv, TypeOK, Running
  <2>2. CASE f # e BY <1>2, <2>2 DEF Inv, TypeOK, Running
  <2> QED BY <2>1, <2>2
<1> QED BY <1>1, <1>2, SameMap

-----------------------------------------------------------------------------
(* The actions.                                                            *)

\* At the start nothing runs.
LEMMA InvInit == ASSUME Init PROVE Inv
<1>1. NoEntry \in Entry BY DEF NoEntry, Entry, Steps
<1>2. TypeOK BY <1>1 DEF Init, TypeOK, Idle
<1>3. Mapped BY DEF Init, Mapped, Running, NoEntry
<1> QED BY <1>2, <1>3 DEF Inv

\* acquireEntry joins the entry of the map, which moves nothing, or puts a new
\* one where there was none.
LEMMA AcquireKeeps ==
  ASSUME Inv, NEW c \in Callers, NEW d \in Docs, AcquireEntry(c, d)
  PROVE  Inv'
<1>1. CASE EntryExists(d)
  <2> DEFINE e == entries[d]
  <2>1. e \in Entries BY <1>1 DEF Inv, TypeOK, EntryExists
  <2>2. entry[e] \in Entry BY <2>1 DEF Inv, TypeOK
  <2>3. /\ entry' = [entry EXCEPT ![e] = Joined(entry[e])]
        /\ UNCHANGED entries
        /\ caller' = [caller EXCEPT ![c] = [at |-> "waiting", entry |-> e]]
    BY <1>1 DEF AcquireEntry
  <2>4. entry' \in [Entries -> Entry] /\ Mapped'
    <3>1. /\ Joined(entry[e]) \in Entry
          /\ Joined(entry[e]).doc = entry[e].doc
          /\ Joined(entry[e]).at = entry[e].at
      BY <2>2, RefsTyped
    <3>2. Joined(entry[e]).at \notin {"none", "done"} => Running(e) BY <3>1 DEF Running
    <3> HIDE DEF e
    <3> QED BY <2>3, <3>1, <3>2, OneMoves
  <2>5. caller' \in [Callers -> [at : {"idle", "waiting", "holding", "draining"},
                                 entry : Entries \cup {None}]]
    BY <2>1, <2>3 DEF Inv, TypeOK
  <2> QED BY <2>3, <2>4, <2>5 DEF AcquireEntry, Inv, TypeOK
<1>2. CASE ~EntryExists(d)
  <2> DEFINE new == [NoEntry EXCEPT !.doc = d, !.at = "claim", !.refs = 1]
  <2>1. entries[d] = None BY <1>2 DEF EntryExists
  <2>2. new \in Entry /\ new.doc = d BY DEF NoEntry, Entry, Steps
  <2>3. PICK e \in Entries :
             /\ Free(e)
             /\ entry' = [entry EXCEPT ![e] = new]
             /\ entries' = [entries EXCEPT ![d] = e]
             /\ caller' = [caller EXCEPT ![c] = [at |-> "waiting", entry |-> e]]
    BY <1>2 DEF AcquireEntry
  <2> HIDE DEF new
  <2>4. TypeOK' BY <2>2, <2>3 DEF AcquireEntry, Inv, TypeOK
  <2>5. ASSUME NEW f \in Entries, Running(f)'
        PROVE  entry'[f].doc \in Docs /\ entries'[entry'[f].doc] = f
    <3>1. CASE f = e BY <2>2, <2>3, <3>1 DEF Inv, TypeOK
    <3>2. CASE f # e
      <4>1. entry'[f] = entry[f] BY <2>3, <3>2 DEF Inv, TypeOK
      <4>2. Running(f) BY <2>5, <4>1 DEF Running
      <4>3. entry[f].doc \in Docs /\ entries[entry[f].doc] = f BY <4>2 DEF Inv, Mapped
      <4>4. entry[f].doc # d BY <2>1, <4>3, RuntimeAssumption
      <4> QED BY <2>3, <4>1, <4>3, <4>4 DEF Inv, TypeOK
    <3> QED BY <3>1, <3>2
  <2>6. Mapped' BY <2>5 DEF Mapped
  <2> QED BY <2>4, <2>6 DEF Inv
<1> QED BY <1>1, <1>2

\* releaseEntry moves no goroutine by itself.
LEMMA DropKeeps ==
  ASSUME Inv, NEW e, Drop(e), UNCHANGED entries
  PROVE  entry' \in [Entries -> Entry] /\ Mapped'
<1>1. CASE e \in Entries
  <2>1. entry[e] \in Entry BY <1>1 DEF Inv, TypeOK
  <2>2. /\ Dropped(entry[e]) \in Entry
        /\ Dropped(entry[e]).doc = entry[e].doc
        /\ Dropped(entry[e]).at = entry[e].at
    BY <2>1, RefsTyped
  <2>3. Dropped(entry[e]).at \notin {"none", "done"} => Running(e) BY <2>2 DEF Running
  <2>4. entry' = [entry EXCEPT ![e] = Dropped(entry[e])] BY DEF Drop
  <2> QED BY <2>2, <2>3, <2>4, OneMoves
<1>2. CASE e \notin Entries
  <2>1. entry' = entry BY <1>2 DEF Drop, Inv, TypeOK
  <2> QED BY <2>1 DEF Inv, TypeOK, Mapped, Running
<1> QED BY <1>1, <1>2

\* The steps of callers other than acquireEntry.
LEMMA CallerKeeps ==
  ASSUME Inv, NEW c \in Callers,
         WaitReady(c) \/ WaitFails(c) \/ Release(c) \/ Drained(c)
  PROVE  Inv'
<1> DEFINE Caller == [at : {"idle", "waiting", "holding", "draining"},
                      entry : Entries \cup {None}]
<1>1. caller[c] \in Caller BY DEF Inv, TypeOK
<1>2. Idle \in Caller /\ \A at \in {"holding", "draining"} : [caller[c] EXCEPT !.at = at] \in Caller
  BY <1>1 DEF Idle
<1>3. caller' \in [Callers -> Caller]
  <2>1. CASE WaitReady(c) BY <1>2, <2>1 DEF WaitReady, Inv, TypeOK
  <2>2. CASE WaitFails(c) BY <1>2, <2>2 DEF WaitFails, Inv, TypeOK
  <2>3. CASE Release(c) BY <1>2, <2>3 DEF Release, Inv, TypeOK
  <2>4. CASE Drained(c) BY <1>2, <2>4 DEF Drained, Inv, TypeOK
  <2> QED BY <2>1, <2>2, <2>3, <2>4
<1>4. entry' \in [Entries -> Entry] /\ Mapped'
  <2>1. CASE UNCHANGED <<entries, entry>>
    BY <2>1 DEF Inv, TypeOK, Mapped, Running
  <2>2. CASE Drop(caller[c].entry) /\ UNCHANGED entries BY <2>2, DropKeeps
  <2> QED BY <2>1, <2>2 DEF WaitReady, WaitFails, Release, Drained
<1>5. UNCHANGED <<held, entries, closed>> BY DEF WaitReady, WaitFails, Release, Drained
<1> QED BY <1>3, <1>4, <1>5 DEF Inv, TypeOK

\* Close cancels runs and moves none.
LEMMA CloseKeeps == ASSUME Inv, Close PROVE Inv'
<1> DEFINE gone(e) == \E d \in Docs : entries[d] = e
<1>0. ASSUME NEW r \in Entry
      PROVE  /\ [r EXCEPT !.refs = 0, !.cancelled = TRUE] \in Entry
             /\ [r EXCEPT !.refs = 0, !.cancelled = TRUE].at = r.at
             /\ [r EXCEPT !.refs = 0, !.cancelled = TRUE].doc = r.doc
  BY DEF Entry
<1>1. \A e \in Entries :
        /\ [entry[e] EXCEPT !.refs = 0, !.cancelled = TRUE] \in Entry
        /\ [entry[e] EXCEPT !.refs = 0, !.cancelled = TRUE].at = entry[e].at
        /\ [entry[e] EXCEPT !.refs = 0, !.cancelled = TRUE].doc = entry[e].doc
  <2>1. \A e \in Entries : entry[e] \in Entry BY DEF Inv, TypeOK
  <2> QED BY <1>0, <2>1
<1>2. entry' = [e \in Entries |-> IF gone(e)
                                  THEN [entry[e] EXCEPT !.refs = 0, !.cancelled = TRUE]
                                  ELSE entry[e]]
  BY DEF Close
<1> HIDE DEF gone
<1>3. entry' \in [Entries -> Entry] BY <1>1, <1>2 DEF Inv, TypeOK
<1>4. \A e \in Entries : entry'[e].at = entry[e].at /\ entry'[e].doc = entry[e].doc
  BY <1>1, <1>2
<1>5. UNCHANGED <<held, entries, caller>> /\ closed' = TRUE BY DEF Close
<1>6. \A e \in Entries : Running(e)' => Running(e) /\ entry'[e].doc = entry[e].doc
  BY <1>4 DEF Running
<1>7. Mapped' BY <1>3, <1>5, <1>6, SameMap
<1> QED BY <1>3, <1>5, <1>7 DEF Inv, TypeOK

\* The steps of a run before it finishes replace its entry by one of the same
\* document and references, which runs on.
LEMMA RunMoves ==
  ASSUME Inv, NEW e \in Entries,
         \/ ClaimLease(e) \/ AcquireLease(e) \/ AcquireFails(e)
         \/ PlaceDocument(e) \/ PlaceFails(e)
         \/ RunReacquires(e) \/ RunStops(e) \/ ReleaseLease(e) \/ ReleaseFails(e)
  PROVE  /\ Running(e) /\ UNCHANGED <<entries, caller, closed>>
         /\ held' \in [Shards -> Tokens \cup {None}]
         /\ \E r \in Entry : /\ entry' = [entry EXCEPT ![e] = r]
                             /\ r.doc = entry[e].doc /\ r.refs = entry[e].refs
                             /\ r.cancelled = entry[e].cancelled /\ r.at \notin {"none", "done"}
                             /\ entry[e].ready => r.ready
<1> DEFINE Same(r) == /\ r.doc = entry[e].doc /\ r.refs = entry[e].refs
                      /\ r.cancelled = entry[e].cancelled /\ r.at \notin {"none", "done"}
                      /\ entry[e].ready => r.ready
<1>1. entry[e] \in Entry BY DEF Inv, TypeOK
<1>2. Running(e)
  BY DEF Running, ClaimLease, AcquireLease, AcquireFails, PlaceDocument, PlaceFails,
         RunReacquires, RunStops, ReleaseLease, ReleaseFails
<1>3. UNCHANGED <<entries, caller, closed>>
  BY DEF ClaimLease, AcquireLease, AcquireFails, PlaceDocument, PlaceFails,
         RunReacquires, RunStops, ReleaseLease, ReleaseFails
<1>4. held' \in [Shards -> Tokens \cup {None}]
  BY DEF Inv, TypeOK, ClaimLease, AcquireLease, AcquireFails, PlaceDocument, PlaceFails,
         RunReacquires, RunStops, ReleaseLease, ReleaseFails
<1>5. Stored(e) \in Tokens \cup {None}
  <2>1. ShardOfEntry(e) \in Shards BY <1>2 DEF Inv, Mapped, ShardOfEntry, Shards
  <2> QED BY <2>1 DEF Inv, TypeOK, Stored
<1>6. \E r \in Entry : entry' = [entry EXCEPT ![e] = r] /\ Same(r)
  <2>1. CASE \E step \in Steps \ {"none", "done"} : Goto(e, step)
    <3>1. PICK step \in Steps \ {"none", "done"} : Goto(e, step) BY <2>1
    <3> DEFINE r == [entry[e] EXCEPT !.at = step]
    <3>2. entry' = [entry EXCEPT ![e] = r] BY <3>1 DEF Goto
    <3>3. r \in Entry /\ Same(r) BY <1>1, <3>1 DEF Entry
    <3> QED BY <3>2, <3>3
  <2>2. CASE ClaimLease(e) /\ Stored(e) # None
    <3> DEFINE r == [entry[e] EXCEPT !.at = "place", !.lease = Stored(e)]
    <3>1. r \in Entry /\ Same(r) BY <1>1, <1>5 DEF Entry, Steps
    <3>2. entry' = [entry EXCEPT ![e] = r] BY <2>2 DEF ClaimLease, Inv, TypeOK
    <3> QED BY <3>1, <3>2
  <2>3. CASE AcquireLease(e)
    <3>1. PICK t \in Tokens :
            entry' = [entry EXCEPT ![e].at = IF entry[e].ready THEN "run" ELSE "place",
                                   ![e].acquired = TRUE, ![e].lease = t]
      BY <2>3 DEF AcquireLease
    <3> DEFINE step == IF entry[e].ready THEN "run" ELSE "place"
               r == [entry[e] EXCEPT !.at = step, !.acquired = TRUE, !.lease = t]
    <3>2. step \in Steps \ {"none", "done"} BY DEF Steps
    <3>3. entry' = [entry EXCEPT ![e] = r] BY <3>1 DEF Inv, TypeOK
    <3> HIDE DEF step
    <3>4. r \in Entry /\ Same(r) BY <1>1, <3>2 DEF Entry
    <3> QED BY <3>3, <3>4
  <2>4. CASE PlaceDocument(e)
    <3> DEFINE r == [entry[e] EXCEPT !.at = "run", !.ready = TRUE, !.owned = TRUE]
    <3>1. r \in Entry /\ Same(r) BY <1>1 DEF Entry, Steps
    <3>2. entry' = [entry EXCEPT ![e] = r] BY <2>4 DEF PlaceDocument, Inv, TypeOK
    <3> QED BY <3>1, <3>2
  <2>5. CASE RunReacquires(e)
    <3> DEFINE r == [entry[e] EXCEPT !.at = "acquire", !.lease = None]
               q == [entry[e] EXCEPT !.lease = Stored(e)]
    <3>1. r \in Entry /\ Same(r) BY <1>1 DEF Entry, Steps
    <3>2. q \in Entry /\ Same(q) BY <1>1, <1>2, <1>5 DEF Entry, Running
    <3>3. entry' = [entry EXCEPT ![e] = r] \/ entry' = [entry EXCEPT ![e] = q]
      BY <2>5 DEF RunReacquires, Inv, TypeOK
    <3> QED BY <3>1, <3>2, <3>3
  <2>6. {"acquire", "release", "finish"} \subseteq Steps \ {"none", "done"} BY DEF Steps
  <2>7. CASE ClaimLease(e) /\ Stored(e) = None BY <2>1, <2>6, <2>7 DEF ClaimLease
  <2>8. CASE AcquireFails(e) BY <2>1, <2>6, <2>8 DEF AcquireFails
  <2>9. CASE PlaceFails(e) \/ RunStops(e) \/ ReleaseLease(e) \/ ReleaseFails(e)
    BY <2>1, <2>6, <2>9 DEF PlaceFails, RunStops, ReleaseLease, ReleaseFails
  <2> QED BY <2>2, <2>3, <2>4, <2>5, <2>7, <2>8, <2>9
<1> QED BY <1>2, <1>3, <1>4, <1>6

\* ... and so keep the map.
LEMMA RunKeeps ==
  ASSUME Inv, NEW e \in Entries,
         \/ ClaimLease(e) \/ AcquireLease(e) \/ AcquireFails(e)
         \/ PlaceDocument(e) \/ PlaceFails(e)
         \/ RunReacquires(e) \/ RunStops(e) \/ ReleaseLease(e) \/ ReleaseFails(e)
  PROVE  Inv'
<1>1. /\ Running(e) /\ UNCHANGED <<entries, caller, closed>>
      /\ held' \in [Shards -> Tokens \cup {None}]
  BY RunMoves
<1>2. PICK r \in Entry : entry' = [entry EXCEPT ![e] = r] /\ r.doc = entry[e].doc
  BY RunMoves
<1>3. entry' \in [Entries -> Entry] /\ Mapped' BY <1>1, <1>2, OneMoves
<1> QED BY <1>1, <1>3 DEF Inv, TypeOK

\* finishEntry takes its own entry out of the map, and no other.
LEMMA FinishKeeps == ASSUME Inv, NEW e \in Entries, Finish(e) PROVE Inv'
<1> DEFINE r == [entry[e] EXCEPT !.at = "done", !.ready = TRUE]
<1>1. r \in Entry /\ r.at = "done"
  <2>1. entry[e] \in Entry BY DEF Inv, TypeOK
  <2> QED BY <2>1 DEF Entry, Steps
<1>2. entry' = [entry EXCEPT ![e] = r] BY DEF Finish, Inv, TypeOK
<1> HIDE DEF r
<1>3. entries' = [d \in Docs |-> IF d = entry[e].doc /\ entries[d] = e THEN None ELSE entries[d]]
  BY DEF Finish
<1>4. TypeOK' BY <1>1, <1>2, <1>3 DEF Finish, Inv, TypeOK
<1>5. ASSUME NEW f \in Entries, Running(f)'
      PROVE  entry'[f].doc \in Docs /\ entries'[entry'[f].doc] = f
  <2>1. f # e BY <1>1, <1>2, <1>5 DEF Running, Inv, TypeOK
  <2>2. entry'[f] = entry[f] BY <1>2, <2>1 DEF Inv, TypeOK
  <2>3. Running(f) BY <1>5, <2>2 DEF Running
  <2>4. entry[f].doc \in Docs /\ entries[entry[f].doc] = f BY <2>3 DEF Inv, Mapped
  <2> QED BY <1>3, <2>1, <2>2, <2>4
<1>6. Mapped' BY <1>5 DEF Mapped
<1> QED BY <1>4, <1>6 DEF Inv

\* A lease lapses: nothing of the runtime changes.
LEMMA LapseKeeps == ASSUME Inv, NEW s \in Shards, Lapse(s) PROVE Inv'
<1>1. TypeOK' BY DEF Lapse, Inv, TypeOK
<1>2. Mapped' BY DEF Lapse, Inv, Mapped, Running
<1> QED BY <1>1, <1>2 DEF Inv

\* Every step keeps the invariant.
LEMMA InvStep == ASSUME Inv, [Next]_vars PROVE Inv'
<1>1. CASE UNCHANGED vars BY <1>1 DEF vars, Inv, TypeOK, Mapped, Running
<1>2. CASE Close BY <1>2, CloseKeeps
<1>3. CASE \E s \in Shards : Lapse(s) BY <1>3, LapseKeeps
<1>4. ASSUME NEW c \in Callers, CallerStep(c) PROVE Inv'
  BY <1>4, AcquireKeeps, CallerKeeps DEF CallerStep
<1>5. ASSUME NEW e \in Entries, RunStep(e) PROVE Inv'
  BY <1>5, RunKeeps, FinishKeeps DEF RunStep
<1> QED BY <1>1, <1>2, <1>3, <1>4, <1>5 DEF Next

-----------------------------------------------------------------------------
(* The theorems.                                                           *)

\* The inductive invariant: types, and the map that names every run.
THEOREM Invariance == Spec => []Inv
BY InvInit, InvStep, PTL DEF Spec

\* Every variable of the runtime keeps its type.
THEOREM TypeCorrect == Spec => []TypeOK
<1>1. Inv => TypeOK BY DEF Inv
<1> QED BY <1>1, Invariance, PTL

\* However callers of AcquireDocumentOwnership, Release and Close interleave, a
\* document has at most one run, so at most one manager renews and releases the
\* lease on its behalf.
THEOREM OneRunPerDocument == Spec => []SingleRun
<1>1. Inv => SingleRun BY DEF Inv, Mapped, SingleRun
<1> QED BY <1>1, Invariance, PTL

-----------------------------------------------------------------------------
(* References.  An entry of the map runs and is of the document it is      *)
(* under; whoever has not gone idle refers to an entry that was started;   *)
(* and, until Close, each entry counts its references.                     *)

RefSet(e) == {c \in Callers : caller[c].entry = e /\ caller[c].at \in {"waiting", "holding"}}

MapRuns ==
  \A d \in Docs : entries[d] # None => Running(entries[d]) /\ entry[entries[d]].doc = d

CallersRefer ==
  \A c \in Callers : caller[c].at # "idle" => /\ caller[c].entry \in Entries
                                              /\ entry[caller[c].entry].at # "none"

Counted ==
  ~closed => \A e \in Entries : entry[e].at # "none" => entry[e].refs = Cardinality(RefSet(e))

RefInv ==
  /\ Inv /\ MapRuns /\ CallersRefer /\ Counted
  /\ \A e \in Entries : IsFiniteSet(RefSet(e))

\* Steps that move no caller in or out of a reference, and keep the counts.
LEMMA SameRefs ==
  ASSUME RefInv, Inv', MapRuns',
         \A c \in Callers :
           \/ caller'[c] = caller[c]
           \/ /\ caller'[c].entry = caller[c].entry
              /\ {caller'[c].at, caller[c].at} \subseteq {"waiting", "holding"}
           \/ caller'[c].at = "idle" /\ caller[c].at = "draining",
         \A e \in Entries : /\ entry[e].at # "none" => entry'[e].at # "none"
                            /\ entry'[e].at # "none" => entry[e].at # "none"
                            /\ ~closed' => ~closed /\ entry'[e].refs = entry[e].refs
  PROVE  RefInv'
<1>1. ASSUME NEW e \in Entries PROVE RefSet(e)' = RefSet(e)
  BY DEF RefSet
<1>2. CallersRefer' BY DEF RefInv, CallersRefer
<1>3. Counted' BY <1>1 DEF RefInv, Counted
<1>4. \A e \in Entries : IsFiniteSet(RefSet(e)') BY <1>1 DEF RefInv
<1> QED BY <1>2, <1>3, <1>4 DEF RefInv

\* At the start nobody refers to an entry.
LEMMA RefInit == ASSUME Init PROVE RefInv
<1>1. Inv BY InvInit
<1>2. MapRuns /\ CallersRefer /\ Counted BY DEF Init, MapRuns, CallersRefer, Counted, NoEntry, Idle
<1>3. ASSUME NEW e \in Entries PROVE IsFiniteSet(RefSet(e))
  <2>1. RefSet(e) = {} BY DEF Init, RefSet, Idle
  <2> QED BY <2>1, FS_EmptySet
<1> QED BY <1>1, <1>2, <1>3 DEF RefInv

\* A caller joins the entry of its document, or starts one nobody refers to.
LEMMA RefAcquire ==
  ASSUME RefInv, NEW c \in Callers, NEW d \in Docs, AcquireEntry(c, d)
  PROVE  RefInv'
<1>0. Inv /\ Inv' BY AcquireKeeps DEF RefInv
<1>1. PICK e \in Entries, r \in Entry :
        /\ entry' = [entry EXCEPT ![e] = r]
        /\ caller' = [caller EXCEPT ![c] = [at |-> "waiting", entry |-> e]]
        /\ entries' = [entries EXCEPT ![d] = e]
        /\ r.at \notin {"none", "done"} /\ r.doc = d
        /\ \A b \in Docs \ {d} : entries[b] # e
        /\ ~closed => r.refs = Cardinality(RefSet(e)) + 1
  <2>1. CASE EntryExists(d)
    <3> DEFINE e == entries[d]
    <3>1. e \in Entries BY <1>0, <2>1 DEF Inv, TypeOK, EntryExists
    <3>2. entry[e] \in Entry /\ Running(e) /\ entry[e].doc = d
      BY <1>0, <2>1, <3>1 DEF Inv, TypeOK, RefInv, MapRuns, EntryExists
    <3>3. /\ Joined(entry[e]) \in Entry /\ Joined(entry[e]).at = entry[e].at
          /\ Joined(entry[e]).doc = entry[e].doc /\ Joined(entry[e]).refs = entry[e].refs + 1
      BY <3>2, RefsTyped DEF Joined, Entry
    <3>4. \A b \in Docs \ {d} : entries[b] # e
      BY <3>1, <3>2, RuntimeAssumption DEF RefInv, MapRuns
    <3>5. ~closed => entry[e].refs = Cardinality(RefSet(e))
      BY <3>1, <3>2 DEF RefInv, Counted, Running
    <3>6. /\ entry' = [entry EXCEPT ![e] = Joined(entry[e])]
          /\ caller' = [caller EXCEPT ![c] = [at |-> "waiting", entry |-> e]]
          /\ entries' = [entries EXCEPT ![d] = e]
      BY <2>1, <1>0 DEF AcquireEntry, Inv, TypeOK
    <3> HIDE DEF e
    <3>7. /\ Joined(entry[e]).at \notin {"none", "done"}
          /\ ~closed => Joined(entry[e]).refs = Cardinality(RefSet(e)) + 1
      BY <3>2, <3>3, <3>5 DEF Running
    <3> QED BY <3>1, <3>2, <3>3, <3>4, <3>6, <3>7
  <2>2. CASE ~EntryExists(d)
    <3> DEFINE r == [NoEntry EXCEPT !.doc = d, !.at = "claim", !.refs = 1]
    <3>1. r \in Entry /\ r.doc = d /\ r.at = "claim" /\ r.refs = 1 BY DEF NoEntry, Entry, Steps
    <3>2. PICK e \in Entries :
               /\ Free(e)
               /\ entry' = [entry EXCEPT ![e] = r]
               /\ entries' = [entries EXCEPT ![d] = e]
               /\ caller' = [caller EXCEPT ![c] = [at |-> "waiting", entry |-> e]]
      BY <2>2 DEF AcquireEntry
    <3> HIDE DEF r
    <3>3. RefSet(e) = {} BY <3>2 DEF Free, RefSet
    <3>4. Cardinality(RefSet(e)) = 0 BY <3>3, FS_EmptySet
    <3>5. \A b \in Docs \ {d} : entries[b] # e
      BY <3>2, RuntimeAssumption DEF RefInv, MapRuns, Free, Running
    <3>6. /\ r.at \notin {"none", "done"}
          /\ ~closed => r.refs = Cardinality(RefSet(e)) + 1
      BY <3>1, <3>4
    <3> QED BY <3>1, <3>2, <3>5, <3>6
  <2> QED BY <2>1, <2>2
<1>2. caller[c].at = "idle" /\ UNCHANGED closed BY DEF AcquireEntry
<1>3. entry'[e] = r /\ \A f \in Entries \ {e} : entry'[f] = entry[f]
  BY <1>0, <1>1 DEF Inv, TypeOK
<1>4. caller'[c] = [at |-> "waiting", entry |-> e] /\ \A b \in Callers \ {c} : caller'[b] = caller[b]
  BY <1>0, <1>1 DEF Inv, TypeOK
<1>5. entries'[d] = e /\ \A b \in Docs \ {d} : entries'[b] = entries[b]
  BY <1>0, <1>1 DEF Inv, TypeOK
<1>6. MapRuns'
  <2>1. ASSUME NEW b \in Docs, entries'[b] # None
        PROVE  Running(entries[b])' /\ entry'[entries'[b]].doc = b
    <3>1. CASE b = d BY <1>1, <1>3, <1>5, <3>1 DEF Running
    <3>2. CASE b # d
      <4>1. entries'[b] = entries[b] /\ entries[b] # e BY <1>1, <1>5, <3>2
      <4>2. entries[b] \in Entries BY <1>0, <2>1, <4>1 DEF Inv, TypeOK
      <4> QED BY <1>3, <2>1, <4>1, <4>2 DEF RefInv, MapRuns, Running
    <3> QED BY <3>1, <3>2
  <2> QED BY <2>1 DEF MapRuns
<1>7. CallersRefer' BY <1>1, <1>3, <1>4 DEF RefInv, CallersRefer
<1>8. RefSet(e)' = RefSet(e) \cup {c} BY <1>2, <1>4 DEF RefSet
<1>9. \A f \in Entries \ {e} : RefSet(f)' = RefSet(f) BY <1>2, <1>4 DEF RefSet
<1>10. c \notin RefSet(e) BY <1>2 DEF RefSet
<1>11. /\ IsFiniteSet(RefSet(e)')
       /\ Cardinality(RefSet(e)') = Cardinality(RefSet(e)) + 1
  BY <1>8, <1>10, FS_AddElement DEF RefInv
<1>12. Counted'
  BY <1>1, <1>2, <1>3, <1>9, <1>11 DEF RefInv, Counted
<1>13. \A f \in Entries : IsFiniteSet(RefSet(f)') BY <1>9, <1>11 DEF RefInv
<1> QED BY <1>0, <1>6, <1>7, <1>12, <1>13 DEF RefInv

\* A caller that gives up or releases drops the one reference it counted for.
LEMMA RefDrop ==
  ASSUME RefInv, NEW c \in Callers, WaitFails(c) \/ Release(c)
  PROVE  RefInv'
<1>0. Inv /\ Inv' BY CallerKeeps DEF RefInv
<1>1. caller[c].at \in {"waiting", "holding"} BY DEF WaitFails, Release
<1>2. PICK e \in Entries : e = caller[c].entry /\ entry[e] \in Entry /\ entry[e].at # "none"
  BY <1>0, <1>1 DEF Inv, TypeOK, RefInv, CallersRefer
<1>3. PICK k : /\ caller' = [caller EXCEPT ![c] = k]
               /\ k.at \in {"idle", "draining"}
               /\ k.at = "draining" => k.entry = e
  <2>1. caller[c] \in [at : {"idle", "waiting", "holding", "draining"}, entry : Entries \cup {None}]
    BY <1>0 DEF Inv, TypeOK
  <2>2. Idle.at = "idle" BY DEF Idle
  <2>3. [caller[c] EXCEPT !.at = "draining"].at = "draining"
        /\ [caller[c] EXCEPT !.at = "draining"].entry = e
    BY <1>2, <2>1
  <2> QED BY <2>2, <2>3 DEF WaitFails, Release
<1>4. entry' = [entry EXCEPT ![e] = Dropped(entry[e])] /\ UNCHANGED <<entries, closed>>
  BY <1>2 DEF WaitFails, Release, Drop
<1>5. /\ Dropped(entry[e]).at = entry[e].at /\ Dropped(entry[e]).doc = entry[e].doc
      /\ entry[e].refs > 0 => Dropped(entry[e]).refs = entry[e].refs - 1
  BY <1>2, RefsTyped DEF Dropped, Entry
<1>6. entry'[e] = Dropped(entry[e]) /\ \A f \in Entries \ {e} : entry'[f] = entry[f]
  BY <1>0, <1>2, <1>4 DEF Inv, TypeOK
<1>7. caller'[c] = k /\ \A b \in Callers \ {c} : caller'[b] = caller[b]
  BY <1>0, <1>3 DEF Inv, TypeOK
<1>8. MapRuns'
  <2>1. \A d \in Docs : entries[d] # None => entries[d] \in Entries BY <1>0 DEF Inv, TypeOK
  <2> QED BY <1>4, <1>5, <1>6, <2>1 DEF RefInv, MapRuns, Running
<1>9. CallersRefer' BY <1>2, <1>3, <1>5, <1>6, <1>7 DEF RefInv, CallersRefer
<1>10. c \in RefSet(e) BY <1>1, <1>2 DEF RefSet
<1>11. RefSet(e)' = RefSet(e) \ {c} BY <1>3, <1>7 DEF RefSet
<1>12. \A f \in Entries \ {e} : RefSet(f)' = RefSet(f) BY <1>2, <1>3, <1>7 DEF RefSet
<1>13. IsFiniteSet(RefSet(e)) BY <1>2 DEF RefInv
<1>14. /\ IsFiniteSet(RefSet(e)')
       /\ Cardinality(RefSet(e)') = Cardinality(RefSet(e)) - 1
       /\ Cardinality(RefSet(e)) \in Nat
  BY <1>10, <1>11, <1>13, FS_RemoveElement, FS_CardinalityType
<1>15. Cardinality(RefSet(e)) > 0
  BY <1>10, <1>13, <1>14, FS_EmptySet
<1>16. Counted'
  <2>1. ~closed => entry'[e].refs = Cardinality(RefSet(e)')
    BY <1>2, <1>5, <1>6, <1>14, <1>15 DEF RefInv, Counted
  <2> QED BY <1>4, <1>6, <1>12, <2>1 DEF RefInv, Counted
<1>17. \A f \in Entries : IsFiniteSet(RefSet(f)') BY <1>12, <1>14 DEF RefInv
<1> QED BY <1>0, <1>8, <1>9, <1>16, <1>17 DEF RefInv

\* The steps of a run, up to the one that takes it out of the map, leave the
\* references alone.
LEMMA RefRun == ASSUME RefInv, NEW e \in Entries, RunStep(e) PROVE RefInv'
<1>0. Inv /\ Inv' BY RunKeeps, FinishKeeps DEF RefInv, RunStep
<1>1. UNCHANGED <<caller, closed>> /\ Running(e) BY <1>0, RunMoves DEF RunStep, Finish, Running
<1>2. PICK r \in Entry : /\ entry' = [entry EXCEPT ![e] = r]
                         /\ r.doc = entry[e].doc /\ r.refs = entry[e].refs /\ r.at # "none"
                         /\ r.at = "done" => entries' = [d \in Docs |->
                              IF d = entry[e].doc /\ entries[d] = e THEN None ELSE entries[d]]
                         /\ r.at # "done" => UNCHANGED entries
  <2>1. CASE Finish(e)
    <3> DEFINE r == [entry[e] EXCEPT !.at = "done", !.ready = TRUE]
    <3>1. entry[e] \in Entry BY <1>0 DEF Inv, TypeOK
    <3>2. r \in Entry /\ r.at = "done" /\ r.doc = entry[e].doc /\ r.refs = entry[e].refs
      BY <3>1 DEF Entry, Steps
    <3>3. entry' = [entry EXCEPT ![e] = r] BY <1>0, <2>1 DEF Finish, Inv, TypeOK
    <3> QED BY <2>1, <3>2, <3>3 DEF Finish
  <2>2. CASE ~Finish(e) BY <1>0, <2>2, RunMoves DEF RunStep
  <2> QED BY <2>1, <2>2
<1>3. entry'[e] = r /\ \A f \in Entries \ {e} : entry'[f] = entry[f]
  BY <1>0, <1>2 DEF Inv, TypeOK
<1>4. MapRuns'
  <2>1. ASSUME NEW d \in Docs, entries'[d] # None
        PROVE  Running(entries[d])' /\ entry'[entries'[d]].doc = d
    <3>1. entries'[d] = entries[d] /\ (entries[d] = e => r.at # "done")
      BY <1>2, <2>1 DEF RefInv, MapRuns
    <3>2. entries[d] \in Entries BY <1>0, <2>1, <3>1 DEF Inv, TypeOK
    <3>3. Running(entries[d]) /\ entry[entries[d]].doc = d BY <2>1, <3>1 DEF RefInv, MapRuns
    <3> QED BY <1>2, <1>3, <3>1, <3>2, <3>3 DEF Running
  <2> QED BY <2>1 DEF MapRuns
<1>5. \A f \in Entries : /\ entry[f].at # "none" => entry'[f].at # "none"
                         /\ entry'[f].at # "none" => entry[f].at # "none"
                         /\ ~closed' => ~closed /\ entry'[f].refs = entry[f].refs
  BY <1>1, <1>2, <1>3 DEF Running
<1> QED BY <1>0, <1>1, <1>4, <1>5, SameRefs

\* Every step keeps the references counted; Close, which zeroes the counts, ends
\* the counting.
LEMMA RefStep == ASSUME RefInv, [Next]_vars PROVE RefInv'
<1>0. Inv /\ Inv' BY InvStep DEF RefInv
<1>1. CASE UNCHANGED vars
  <2>1. MapRuns' BY <1>1 DEF vars, RefInv, MapRuns, Running
  <2> QED BY <1>0, <1>1, <2>1, SameRefs DEF vars
<1>2. CASE Close
  <2>1. \A e \in Entries : entry'[e].at = entry[e].at /\ entry'[e].doc = entry[e].doc
    <3>1. \A e \in Entries : entry[e] \in Entry BY <1>0 DEF Inv, TypeOK
    <3>2. \A r \in Entry : /\ [r EXCEPT !.refs = 0, !.cancelled = TRUE].at = r.at
                           /\ [r EXCEPT !.refs = 0, !.cancelled = TRUE].doc = r.doc
      BY DEF Entry
    <3>3. \A e \in Entries : entry'[e] \in {entry[e], [entry[e] EXCEPT !.refs = 0, !.cancelled = TRUE]}
      BY <1>2 DEF Close
    <3> QED BY <3>1, <3>2, <3>3
  <2>2. \A d \in Docs : entries[d] # None => entries[d] \in Entries BY <1>0 DEF Inv, TypeOK
  <2>3. closed' /\ UNCHANGED <<caller, entries>> BY <1>2 DEF Close
  <2>4. MapRuns' BY <2>1, <2>2, <2>3 DEF RefInv, MapRuns, Running
  <2> QED BY <1>0, <2>1, <2>3, <2>4, SameRefs
<1>3. CASE \E s \in Shards : Lapse(s)
  <2>1. UNCHANGED <<caller, entries, entry, closed>> BY <1>3 DEF Lapse
  <2>2. MapRuns' BY <2>1 DEF RefInv, MapRuns, Running
  <2> QED BY <1>0, <2>1, <2>2, SameRefs
<1>4. ASSUME NEW c \in Callers, WaitReady(c) \/ Drained(c) PROVE RefInv'
  <2>1. UNCHANGED <<entries, entry, closed>> BY <1>4 DEF WaitReady, Drained
  <2>2. MapRuns' BY <2>1 DEF RefInv, MapRuns, Running
  <2>3. ASSUME NEW b \in Callers
        PROVE  \/ caller'[b] = caller[b]
               \/ /\ caller'[b].entry = caller[b].entry
                  /\ {caller'[b].at, caller[b].at} \subseteq {"waiting", "holding"}
               \/ caller'[b].at = "idle" /\ caller[b].at = "draining"
    BY <1>0, <1>4 DEF WaitReady, Drained, Inv, TypeOK, Idle
  <2> QED BY <1>0, <2>1, <2>2, <2>3, SameRefs
<1>5. ASSUME NEW c \in Callers, CallerStep(c) PROVE RefInv'
  BY <1>4, <1>5, RefAcquire, RefDrop DEF CallerStep
<1>6. ASSUME NEW e \in Entries, RunStep(e) PROVE RefInv' BY <1>6, RefRun
<1> QED BY <1>1, <1>2, <1>3, <1>5, <1>6 DEF Next

\* Until Close, every entry counts exactly the callers that refer to it, whoever
\* joins, gives up or releases at whatever step of the run: the last of them, and
\* no earlier one, cancels it.
THEOREM ReferencesCounted == Spec => []RefsCounted
<1>1. RefInv => RefsCounted BY DEF RefInv, Counted, RefSet, RefsCounted
<1>2. Spec => []RefInv BY RefInit, RefStep, PTL DEF Spec
<1> QED BY <1>1, <1>2, PTL

-----------------------------------------------------------------------------
(* The lease a run caches, when every document has a shard of its own and  *)
(* leases do not lapse: no other run stores or releases that shard's       *)
(* lease, so the run finds it as it left it.                               *)

OwnShards == \A d, b \in Docs : ShardOf[d] = ShardOf[b] => d = b

StoredCached ==
  \A e \in Entries :
    /\ entry[e].at \in {"claim", "acquire", "place"} => ~entry[e].ready
    /\ entry[e].at \in {"place", "run", "release"} => /\ entry[e].lease # None
                                                      /\ Stored(e) = entry[e].lease

LeaseInv == Inv /\ StoredCached

\* Steps of callers, and Close, which move no run and no lease.
LEMMA QuietLease ==
  ASSUME StoredCached, UNCHANGED held,
         \A e \in Entries : \/ entry'[e].at = "claim" /\ ~entry'[e].ready
                            \/ /\ entry'[e].at = entry[e].at /\ entry'[e].doc = entry[e].doc
                               /\ entry'[e].ready = entry[e].ready
                               /\ entry'[e].lease = entry[e].lease
  PROVE  StoredCached'
<1>1. SUFFICES ASSUME NEW e \in Entries
               PROVE  /\ entry'[e].at \in {"claim", "acquire", "place"} => ~entry'[e].ready
                      /\ entry'[e].at \in {"place", "run", "release"} =>
                           entry'[e].lease # None /\ Stored(e)' = entry'[e].lease
  BY DEF StoredCached
<1>2. CASE entry'[e].at = "claim" /\ ~entry'[e].ready BY <1>2
<1>3. CASE /\ entry'[e].at = entry[e].at /\ entry'[e].doc = entry[e].doc
           /\ entry'[e].ready = entry[e].ready /\ entry'[e].lease = entry[e].lease
  <2>1. Stored(e)' = Stored(e) BY <1>3 DEF Stored, ShardOfEntry
  <2> QED BY <1>3, <2>1 DEF StoredCached
<1> QED BY <1>1, <1>2, <1>3

\* A reference more or less, or the loss of all of them, is all a caller's step
\* or Close changes of an entry that was started before.
LEMMA CallersLeaveRuns ==
  ASSUME Inv, Close \/ \E c \in Callers : CallerStep(c)
  PROVE  /\ UNCHANGED held
         /\ \A e \in Entries : \/ entry'[e].at = "claim" /\ ~entry'[e].ready /\ ~entry'[e].cancelled
                               \/ /\ entry'[e].at = entry[e].at /\ entry'[e].doc = entry[e].doc
                                  /\ entry'[e].ready = entry[e].ready
                                  /\ entry'[e].lease = entry[e].lease
<1> DEFINE Kept(q, r) == /\ r.at = q.at /\ r.doc = q.doc
                         /\ r.ready = q.ready /\ r.lease = q.lease
<1>1. \A e \in Entries : entry[e] \in Entry BY DEF Inv, TypeOK
<1>2. UNCHANGED held
  BY DEF Close, CallerStep, AcquireEntry, WaitReady, WaitFails, Release, Drained
<1>3. ASSUME NEW q \in Entry
      PROVE  /\ Kept(q, q) /\ Kept(q, Joined(q)) /\ Kept(q, Dropped(q))
             /\ Kept(q, [q EXCEPT !.refs = 0, !.cancelled = TRUE])
  BY DEF Entry, Joined, Dropped
<1>4. CASE Close
  <2>1. \A e \in Entries : entry'[e] \in {entry[e], [entry[e] EXCEPT !.refs = 0, !.cancelled = TRUE]}
    BY <1>4 DEF Close
  <2> QED BY <1>1, <1>2, <1>3, <2>1
<1>5. ASSUME NEW c \in Callers, CallerStep(c), NEW e \in Entries
      PROVE  (entry'[e].at = "claim" /\ ~entry'[e].ready /\ ~entry'[e].cancelled) \/ Kept(entry[e], entry'[e])
  <2>1. CASE \E d \in Docs : AcquireEntry(c, d)
    <3>1. PICK d \in Docs : AcquireEntry(c, d) BY <2>1
    <3> DEFINE new == [NoEntry EXCEPT !.doc = d, !.at = "claim", !.refs = 1]
    <3>2. new.at = "claim" /\ ~new.ready /\ ~new.cancelled BY DEF NoEntry
    <3> HIDE DEF new
    <3>3. CASE entry' = [entry EXCEPT ![entries[d]] = Joined(@)]
      <4>1. entry'[e] \in {entry[e], Joined(entry[e])} BY <3>3 DEF Inv, TypeOK
      <4> QED BY <1>1, <1>3, <4>1
    <3>4. CASE \E f \in Entries : entry' = [entry EXCEPT ![f] = new]
      <4>1. entry'[e] \in {entry[e], new} BY <3>4 DEF Inv, TypeOK
      <4> QED BY <1>1, <1>3, <3>2, <4>1
    <3> QED BY <3>1, <3>3, <3>4 DEF AcquireEntry, new
  <2>2. CASE WaitReady(c) \/ Drained(c) BY <1>1, <1>3, <2>2 DEF WaitReady, Drained
  <2>3. CASE WaitFails(c) \/ Release(c)
    <3>1. entry' = [entry EXCEPT ![caller[c].entry] = Dropped(@)]
      BY <2>3 DEF WaitFails, Release, Drop
    <3>2. entry'[e] \in {entry[e], Dropped(entry[e])} BY <3>1 DEF Inv, TypeOK
    <3> QED BY <1>1, <1>3, <3>2
  <2> QED BY <1>5, <2>1, <2>2, <2>3 DEF CallerStep
<1> QED BY <1>2, <1>4, <1>5

\* A run's own step: the other runs are of other shards.
LEMMA RunLease ==
  ASSUME OwnShards, ~Lapses, LeaseInv, NEW e \in Entries, RunStep(e)
  PROVE  StoredCached'
<1> DEFINE s == ShardOfEntry(e)
<1>1. entry \in [Entries -> Entry] /\ held \in [Shards -> Tokens \cup {None}] BY DEF LeaseInv, Inv, TypeOK
<1>2. Running(e)
  BY RunMoves DEF LeaseInv, RunStep, Finish, Running
<1>3. /\ \A f \in Entries \ {e} : entry'[f] = entry[f]
      /\ \A z \in Shards : z # s => held'[z] = held[z]
  BY <1>1 DEF RunStep, ClaimLease, AcquireLease, AcquireFails, PlaceDocument, PlaceFails,
         RunReacquires, RunStops, ReleaseLease, ReleaseFails, Finish, Goto
<1>4. ASSUME NEW f \in Entries \ {e}, entry'[f].at \in {"place", "run", "release"}
      PROVE  Stored(f)' = Stored(f)
  <2>1. entry'[f] = entry[f] /\ Running(f) BY <1>3, <1>4 DEF Running
  <2>2. /\ entry[f].doc \in Docs /\ entry[e].doc \in Docs
        /\ entries[entry[f].doc] = f /\ entries[entry[e].doc] = e
    BY <1>2, <2>1 DEF LeaseInv, Inv, Mapped
  <2>3. ShardOfEntry(f) # s /\ ShardOfEntry(f) \in Shards BY <2>2 DEF OwnShards, ShardOfEntry, Shards
  <2>4. ShardOfEntry(f)' = ShardOfEntry(f) BY <2>1 DEF ShardOfEntry
  <2> QED BY <1>3, <2>3, <2>4 DEF Stored
<1>5. \A f \in Entries \ {e} :
        /\ entry'[f].at \in {"claim", "acquire", "place"} => ~entry'[f].ready
        /\ entry'[f].at \in {"place", "run", "release"} => /\ entry'[f].lease # None
                                                           /\ Stored(f)' = entry'[f].lease
  BY <1>3, <1>4 DEF LeaseInv, StoredCached
<1>6. /\ entry'[e].at \in {"claim", "acquire", "place"} => ~entry'[e].ready
      /\ entry'[e].at \in {"place", "run", "release"} => /\ entry'[e].lease # None
                                                         /\ Stored(e)' = entry'[e].lease
  <2>0. /\ entry[e] \in Entry /\ s \in Shards
        /\ entry[e].at \in {"claim", "acquire", "place"} => ~entry[e].ready
        /\ entry[e].at \in {"place", "run", "release"} => entry[e].lease # None /\ held[s] = entry[e].lease
    BY <1>1, <1>2 DEF LeaseInv, StoredCached, Stored, Inv, Mapped, ShardOfEntry, Shards
  <2>1. entry'[e].doc = entry[e].doc /\ Stored(e)' = held'[s]
    <3>1. entry'[e].doc = entry[e].doc
      <4>1. CASE Finish(e) BY <1>1, <2>0, <4>1 DEF Finish, Entry
      <4>2. CASE ~Finish(e) BY <1>1, <4>2, RunMoves DEF RunStep, LeaseInv
      <4> QED BY <4>1, <4>2
    <3> QED BY <3>1 DEF Stored, ShardOfEntry
  <2>2. CASE ClaimLease(e)
    <3>1. entry[e].at = "claim" /\ UNCHANGED held BY <2>2 DEF ClaimLease
    <3>2. CASE held[s] # None
      <4>1. entry'[e] = [entry[e] EXCEPT !.at = "place", !.lease = held[s]]
        BY <1>1, <2>2, <3>2 DEF ClaimLease, Stored
      <4> QED BY <2>0, <2>1, <3>1, <3>2, <4>1 DEF Entry
    <3>3. CASE held[s] = None
      <4>1. entry'[e] = [entry[e] EXCEPT !.at = "acquire"]
        BY <1>1, <2>2, <3>3 DEF ClaimLease, Stored, Goto
      <4> QED BY <2>0, <3>1, <4>1 DEF Entry
    <3> QED BY <3>2, <3>3
  <2>3. CASE AcquireLease(e)
    <3>1. PICK t \in Tokens :
            /\ held' = [held EXCEPT ![s] = t]
            /\ entry' = [entry EXCEPT ![e].at = IF entry[e].ready THEN "run" ELSE "place",
                                      ![e].acquired = TRUE, ![e].lease = t]
      BY <2>3 DEF AcquireLease
    <3>2. entry[e].at = "acquire" BY <2>3 DEF AcquireLease
    <3>3. entry'[e] = [entry[e] EXCEPT !.at = "place", !.acquired = TRUE, !.lease = t]
      BY <1>1, <2>0, <3>1, <3>2
    <3>4. held'[s] = t BY <1>1, <2>0, <3>1
    <3> QED BY <2>0, <2>1, <3>2, <3>3, <3>4, RuntimeAssumption DEF Entry
  <2>4. CASE AcquireFails(e)
    <3>1. entry'[e] = [entry[e] EXCEPT !.at = "finish"]
      BY <1>1, <2>0, <2>4 DEF AcquireFails, Goto
    <3> QED BY <2>0, <3>1 DEF Entry
  <2>5. CASE PlaceDocument(e)
    <3>1. /\ entry'[e] = [entry[e] EXCEPT !.at = "run", !.ready = TRUE, !.owned = TRUE]
          /\ entry[e].at = "place" /\ UNCHANGED held
      BY <1>1, <2>5 DEF PlaceDocument
    <3> QED BY <2>0, <2>1, <3>1 DEF Entry
  <2>6. CASE PlaceFails(e) \/ ReleaseLease(e) \/ ReleaseFails(e)
    <3>1. entry'[e] = [entry[e] EXCEPT !.at = "finish"]
      BY <1>1, <2>6 DEF PlaceFails, ReleaseLease, ReleaseFails, Goto
    <3> QED BY <2>0, <3>1 DEF Entry
  <2>7. ~RunReacquires(e) BY <2>0 DEF RunReacquires, Stored
  <2>8. CASE RunStops(e)
    <3>1. entry'[e] = [entry[e] EXCEPT !.at = "release"] /\ entry[e].at = "run" /\ UNCHANGED held
      BY <1>1, <2>8 DEF RunStops, Goto
    <3> QED BY <2>0, <2>1, <3>1 DEF Entry
  <2>9. CASE Finish(e)
    <3>1. entry'[e] = [entry[e] EXCEPT !.at = "done", !.ready = TRUE] BY <1>1, <2>9 DEF Finish
    <3> QED BY <2>0, <3>1 DEF Entry
  <2> QED BY <2>2, <2>3, <2>4, <2>5, <2>6, <2>7, <2>8, <2>9 DEF RunStep
<1> QED BY <1>5, <1>6 DEF StoredCached

\* While leases do not lapse, and each document has a shard of its own, the lease
\* a live run caches is the stored one, whatever store calls fail, callers give
\* up, or Close does: writes under its fence are not refused.
THEOREM CachedLeaseStored ==
  ASSUME OwnShards, ~Lapses
  PROVE  Spec => []LeaseActive
<1>1. Init => LeaseInv
  <2>1. ASSUME Init PROVE StoredCached BY <2>1 DEF Init, StoredCached, NoEntry
  <2> QED BY <2>1, InvInit DEF LeaseInv
<1>2. LeaseInv /\ [Next]_vars => LeaseInv'
  <2> SUFFICES ASSUME LeaseInv, [Next]_vars PROVE LeaseInv' OBVIOUS
  <2>0. Inv' BY InvStep DEF LeaseInv
  <2>1. CASE UNCHANGED vars
    BY <2>0, <2>1 DEF vars, LeaseInv, StoredCached, Stored, ShardOfEntry
  <2>2. CASE Close \/ \E c \in Callers : CallerStep(c)
    <3>1. StoredCached' BY <2>2, CallersLeaveRuns, QuietLease DEF LeaseInv
    <3> QED BY <2>0, <3>1 DEF LeaseInv
  <2>3. CASE \E e \in Entries : RunStep(e) BY <2>0, <2>3, RunLease DEF LeaseInv
  <2> QED BY <2>1, <2>2, <2>3 DEF Next, Lapse
<1>3. LeaseInv => LeaseActive BY DEF LeaseInv, StoredCached, LeaseActive
<1> QED BY <1>1, <1>2, <1>3, PTL DEF Spec

-----------------------------------------------------------------------------
(* The lease nobody forgets.  When nothing fails, a caller drops its       *)
(* reference only after the claim ended, so until Close no run is cancelled *)
(* between storing a lease and serving under it; every later way out of a  *)
(* run releases.                                                           *)

Unready == \A e \in Entries : entry[e].at \in {"claim", "place"} => ~entry[e].ready

CancelledReady == ~closed => \A e \in Entries : entry[e].cancelled => entry[e].ready

HoldersReady == \A c \in Callers : caller[c].at = "holding" => entry[caller[c].entry].ready

AccountInv == RefInv /\ Unready /\ CancelledReady /\ HoldersReady /\ LeaseAccounted

\* The run that accounts for the lease of shard s.
Accounts(e, s) ==
  /\ entry[e].at \in {"place", "run", "release"}
  /\ ShardOfEntry(e) = s
  /\ entry[e].lease = held[s]

\* One step of a run, at its own entry: what becomes of its step, its lease and
\* the stored lease.
LEMMA RunOutcome ==
  ASSUME ~Faults, AccountInv, ~closed, NEW e \in Entries, RunStep(e)
  PROVE  /\ entry'[e].doc = entry[e].doc
         /\ entry'[e].cancelled = entry[e].cancelled
         /\ entry[e].ready => entry'[e].ready
         /\ entry'[e].at \in {"claim", "place"} => ~entry'[e].ready
         /\ \A s \in Shards : held'[s] # None =>
              \/ held'[s] = held[s] /\ (Accounts(e, s) => Accounts(e, s)')
              \/ Accounts(e, s)'
<1> DEFINE z == ShardOfEntry(e)
<1>1. entry \in [Entries -> Entry] /\ held \in [Shards -> Tokens \cup {None}]
  BY DEF AccountInv, RefInv, Inv, TypeOK
<1>2. Running(e) /\ z \in Shards
  <2>1. Running(e) BY RunMoves DEF AccountInv, RefInv, RunStep, Finish, Running
  <2> QED BY <2>1 DEF AccountInv, RefInv, Inv, Mapped, ShardOfEntry, Shards
<1>3. /\ entry[e] \in Entry
      /\ entry[e].at \in {"claim", "place"} => ~entry[e].ready
      /\ entry[e].cancelled => entry[e].ready
  BY <1>1 DEF AccountInv, Unready, CancelledReady
<1>4. /\ entry'[e].doc = entry[e].doc
      /\ entry'[e].cancelled = entry[e].cancelled
      /\ entry[e].ready => entry'[e].ready
  <2>1. CASE Finish(e)
    <3>1. entry'[e] = [entry[e] EXCEPT !.at = "done", !.ready = TRUE] BY <1>1, <2>1 DEF Finish
    <3> QED BY <1>3, <3>1 DEF Entry
  <2>2. CASE ~Finish(e)
    <3>1. PICK r \in Entry : /\ entry' = [entry EXCEPT ![e] = r]
                             /\ r.doc = entry[e].doc /\ r.cancelled = entry[e].cancelled
                             /\ entry[e].ready => r.ready
      BY <2>2, RunMoves DEF RunStep, AccountInv, RefInv
    <3> QED BY <1>1, <3>1
  <2> QED BY <2>1, <2>2
<1>5. ShardOfEntry(e)' = z BY <1>4 DEF ShardOfEntry
<1>6. CASE ClaimLease(e)
  <2>1. entry[e].at = "claim" /\ UNCHANGED held BY <1>6 DEF ClaimLease
  <2>2. \/ entry'[e] = [entry[e] EXCEPT !.at = "place", !.lease = Stored(e)]
        \/ entry'[e] = [entry[e] EXCEPT !.at = "acquire"]
    BY <1>1, <1>6 DEF ClaimLease, Goto
  <2>3. entry'[e].ready = entry[e].ready BY <1>3, <2>2 DEF Entry
  <2> QED BY <1>3, <1>4, <2>1, <2>3 DEF Accounts
<1>7. CASE AcquireLease(e)
  <2>1. PICK t \in Tokens :
          /\ held' = [held EXCEPT ![z] = t]
          /\ entry' = [entry EXCEPT ![e].at = IF entry[e].ready THEN "run" ELSE "place",
                                    ![e].acquired = TRUE, ![e].lease = t]
    BY <1>7 DEF AcquireLease
  <2> DEFINE step == IF entry[e].ready THEN "run" ELSE "place"
  <2>2. entry'[e] = [entry[e] EXCEPT !.at = step, !.acquired = TRUE, !.lease = t]
    BY <1>1, <2>1
  <2>3. step \in {"run", "place"} /\ (step = "place" => ~entry[e].ready) OBVIOUS
  <2> HIDE DEF step
  <2>4. entry'[e].at = step /\ entry'[e].lease = t /\ entry'[e].ready = entry[e].ready
    BY <1>3, <2>2 DEF Entry
  <2>5. entry[e].at = "acquire" BY <1>7 DEF AcquireLease
  <2>6. ASSUME NEW s \in Shards
        PROVE  (held'[s] = held[s] /\ ~Accounts(e, s)) \/ Accounts(e, s)'
    <3>1. CASE s = z
      <4>1. held'[s] = t BY <1>1, <1>2, <2>1, <3>1
      <4> QED BY <1>5, <2>3, <2>4, <3>1, <4>1 DEF Accounts
    <3>2. CASE s # z BY <1>1, <2>1, <2>5, <3>2 DEF Accounts
    <3> QED BY <3>1, <3>2
  <2> QED BY <1>4, <2>3, <2>4, <2>6
<1>8. CASE AcquireFails(e)
  <2>1. /\ entry[e].at \in {"claim", "acquire"} /\ UNCHANGED held
        /\ entry'[e].at \in {"release", "finish"}
    BY <1>1, <1>3, <1>8 DEF AcquireFails, Goto, Entry
  <2> QED BY <1>4, <2>1 DEF Accounts
<1>9. CASE PlaceDocument(e)
  <2>1. /\ entry'[e] = [entry[e] EXCEPT !.at = "run", !.ready = TRUE, !.owned = TRUE]
        /\ UNCHANGED held
    BY <1>1, <1>9 DEF PlaceDocument
  <2>2. entry'[e].at = "run" /\ entry'[e].lease = entry[e].lease BY <1>3, <2>1 DEF Entry
  <2> QED BY <1>4, <1>5, <2>1, <2>2 DEF Accounts
<1>10. ~PlaceFails(e) BY <1>3 DEF PlaceFails
<1>11. CASE RunReacquires(e)
  <2>1. entry[e].at = "run" /\ UNCHANGED held BY <1>11 DEF RunReacquires
  <2>2. CASE Stored(e) = None
    <3>2. entry'[e] = [entry[e] EXCEPT !.at = "acquire", !.lease = None]
      BY <1>1, <1>11, <2>2 DEF RunReacquires
    <3>3. entry'[e].at = "acquire" BY <1>3, <3>2 DEF Entry
    <3>4. \A s \in Shards : held[s] # None => ~Accounts(e, s) BY <2>2 DEF Accounts, Stored
    <3> QED BY <1>4, <2>1, <3>3, <3>4
  <2>3. CASE Stored(e) # None
    <3>1. entry'[e] = [entry[e] EXCEPT !.lease = held[z]]
      BY <1>1, <1>11, <2>3 DEF RunReacquires, Stored
    <3>2. entry'[e].at = "run" /\ entry'[e].lease = held[z] BY <1>3, <2>1, <3>1 DEF Entry
    <3> QED BY <1>4, <1>5, <2>1, <3>2 DEF Accounts
  <2> QED BY <2>2, <2>3
<1>12. CASE RunStops(e)
  <2>1. entry'[e] = [entry[e] EXCEPT !.at = "release"] /\ UNCHANGED held
    BY <1>1, <1>12 DEF RunStops, Goto
  <2>2. entry'[e].at = "release" /\ entry'[e].lease = entry[e].lease BY <1>3, <2>1 DEF Entry
  <2> QED BY <1>4, <1>5, <2>1, <2>2 DEF Accounts
<1>13. CASE ReleaseLease(e)
  <2>1. /\ entry'[e] = [entry[e] EXCEPT !.at = "finish"]
        /\ held' = [held EXCEPT ![z] = IF @ = entry[e].lease THEN None ELSE @]
    BY <1>1, <1>13 DEF ReleaseLease, Goto
  <2>2. entry'[e].at = "finish" BY <1>3, <2>1 DEF Entry
  <2>3. ASSUME NEW s \in Shards, held'[s] # None
        PROVE  held'[s] = held[s] /\ ~Accounts(e, s)
    BY <1>1, <1>2, <2>1, <2>3 DEF Accounts
  <2> QED BY <1>4, <2>2, <2>3
<1>14. ~ReleaseFails(e) BY DEF ReleaseFails
<1>15. CASE Finish(e)
  <2>1. /\ entry'[e] = [entry[e] EXCEPT !.at = "done", !.ready = TRUE]
        /\ entry[e].at = "finish" /\ UNCHANGED held
    BY <1>1, <1>15 DEF Finish
  <2>2. entry'[e].at = "done" BY <1>3, <2>1 DEF Entry
  <2> QED BY <1>4, <2>1, <2>2 DEF Accounts
<1> QED
  BY <1>4, <1>6, <1>7, <1>8, <1>9, <1>10, <1>11, <1>12, <1>13, <1>14, <1>15 DEF RunStep

\* The steps of runs.
LEMMA RunAccounts ==
  ASSUME ~Faults, AccountInv, ~closed, NEW e \in Entries, RunStep(e)
  PROVE  Unready' /\ CancelledReady' /\ HoldersReady' /\ LeaseAccounted'
<1>1. \A f \in Entries \ {e} : entry'[f] = entry[f]
  BY DEF AccountInv, RefInv, Inv, TypeOK, RunStep, ClaimLease, AcquireLease, AcquireFails,
         PlaceDocument, PlaceFails, RunReacquires, RunStops, ReleaseLease, ReleaseFails, Finish, Goto
<1>2. UNCHANGED caller BY RunMoves DEF RunStep, Finish, AccountInv, RefInv
<1>3. /\ entry'[e].doc = entry[e].doc
      /\ entry'[e].cancelled = entry[e].cancelled
      /\ entry[e].ready => entry'[e].ready
      /\ entry'[e].at \in {"claim", "place"} => ~entry'[e].ready
  BY RunOutcome
<1>4. Unready' BY <1>1, <1>3 DEF AccountInv, Unready
<1>5. CancelledReady' BY <1>1, <1>3 DEF AccountInv, CancelledReady
<1>6. HoldersReady'
  BY <1>1, <1>2, <1>3 DEF AccountInv, RefInv, CallersRefer, HoldersReady
<1>7. ASSUME NEW s \in Shards, held'[s] # None
      PROVE  \E f \in Entries : Accounts(f, s)'
  <2>1. CASE Accounts(e, s)' BY <2>1
  <2>2. CASE held'[s] = held[s] /\ ~Accounts(e, s)
    <3>1. PICK f \in Entries : Accounts(f, s) BY <1>7, <2>2 DEF AccountInv, LeaseAccounted, Accounts
    <3>2. Accounts(f, s)' BY <1>1, <2>2, <3>1 DEF Accounts, ShardOfEntry
    <3> QED BY <3>2
  <2> QED BY <1>7, <2>1, <2>2, RunOutcome
<1>8. LeaseAccounted' BY <1>7 DEF LeaseAccounted, Accounts
<1> QED BY <1>4, <1>5, <1>6, <1>8

\* A reference is dropped only of an entry that is ready.
LEMMA CallerAccounts ==
  ASSUME ~Faults, AccountInv, ~closed, NEW c \in Callers, CallerStep(c)
  PROVE  Unready' /\ CancelledReady' /\ HoldersReady' /\ LeaseAccounted'
<1>1. Inv /\ entry \in [Entries -> Entry] BY DEF AccountInv, RefInv, Inv, TypeOK
<1>2. /\ UNCHANGED held
      /\ \A e \in Entries : \/ entry'[e].at = "claim" /\ ~entry'[e].ready /\ ~entry'[e].cancelled
                            \/ /\ entry'[e].at = entry[e].at /\ entry'[e].doc = entry[e].doc
                               /\ entry'[e].ready = entry[e].ready
                               /\ entry'[e].lease = entry[e].lease
  BY <1>1, CallersLeaveRuns
<1>3. Unready' BY <1>2 DEF AccountInv, Unready
<1>4. LeaseAccounted'
  <2>1. ASSUME NEW e \in Entries, NEW s \in Shards, Accounts(e, s) PROVE Accounts(e, s)'
    <3>1. ~(entry'[e].at = "claim" /\ entry[e].at # "claim")
      <4>1. Running(e) BY <2>1 DEF Accounts, Running
      <4>2. \A d \in Docs : \A f \in Entries : Free(f) => f # e BY <4>1 DEF Free, Running
      <4>3. ASSUME NEW d \in Docs, AcquireEntry(c, d) PROVE entry'[e].at = entry[e].at
        <5>1. CASE EntryExists(d)
          BY <1>1, <4>3, <5>1, RefsTyped DEF AcquireEntry
        <5>2. CASE ~EntryExists(d) BY <1>1, <4>2, <4>3, <5>2 DEF AcquireEntry
        <5> QED BY <5>1, <5>2
      <4>4. CASE WaitFails(c) \/ Release(c)
        BY <1>1, <4>4, RefsTyped DEF WaitFails, Release, Drop
      <4> QED BY <4>3, <4>4 DEF CallerStep, WaitReady, Drained
    <3>2. /\ entry'[e].at = entry[e].at /\ entry'[e].doc = entry[e].doc
          /\ entry'[e].lease = entry[e].lease
      BY <1>2, <2>1, <3>1 DEF Accounts
    <3> QED BY <1>2, <2>1, <3>2 DEF Accounts, ShardOfEntry
  <2>2. \A s \in Shards : held'[s] # None => \E e \in Entries : Accounts(e, s)
    BY <1>2 DEF AccountInv, LeaseAccounted, Accounts
  <2>3. \A s \in Shards : held'[s] # None => \E e \in Entries : Accounts(e, s)'
    BY <2>1, <2>2
  <2> QED BY <2>3 DEF LeaseAccounted, Accounts
<1>5. ASSUME NEW d \in Docs, AcquireEntry(c, d) PROVE CancelledReady' /\ HoldersReady'
  <2>1. PICK e \in Entries :
          /\ caller' = [caller EXCEPT ![c] = [at |-> "waiting", entry |-> e]]
          /\ \A f \in Entries \ {e} : entry'[f] = entry[f]
          /\ \/ ~entry'[e].cancelled /\ Free(e)
             \/ entry'[e].cancelled = entry[e].cancelled /\ entry'[e].ready = entry[e].ready
    <3>1. CASE EntryExists(d)
      <4>1. entries[d] \in Entries BY <1>1, <3>1 DEF EntryExists, Inv, TypeOK
      <4>2. \A r \in Entry : Joined(r).cancelled = r.cancelled /\ Joined(r).ready = r.ready
        BY DEF Joined, Entry
      <4> QED BY <1>1, <1>5, <3>1, <4>1, <4>2 DEF AcquireEntry
    <3>2. CASE ~EntryExists(d)
      <4> DEFINE new == [NoEntry EXCEPT !.doc = d, !.at = "claim", !.refs = 1]
      <4>1. ~new.cancelled BY DEF NoEntry
      <4>2. PICK e \in Entries :
             /\ Free(e)
             /\ entry' = [entry EXCEPT ![e] = new]
             /\ caller' = [caller EXCEPT ![c] = [at |-> "waiting", entry |-> e]]
        BY <1>5, <3>2 DEF AcquireEntry
      <4> HIDE DEF new
      <4> QED BY <1>1, <4>1, <4>2
    <3> QED BY <3>1, <3>2
  <2>2. CancelledReady' BY <2>1 DEF AccountInv, CancelledReady
  <2>3. ASSUME NEW b \in Callers, caller'[b].at = "holding" PROVE entry'[caller'[b].entry].ready
    <3>1. b # c /\ caller'[b] = caller[b] BY <1>1, <2>1, <2>3 DEF Inv, TypeOK
    <3>2. caller[b].entry \in Entries /\ entry[caller[b].entry].ready
      BY <2>3, <3>1 DEF AccountInv, RefInv, CallersRefer, HoldersReady
    <3> QED BY <2>1, <3>1, <3>2 DEF Free
  <2> QED BY <2>2, <2>3 DEF HoldersReady
<1>6. CASE WaitReady(c) \/ Drained(c)
  <2>1. UNCHANGED <<entry, closed>> BY <1>6 DEF WaitReady, Drained
  <2>2. CancelledReady' BY <2>1 DEF AccountInv, CancelledReady
  <2>3. HoldersReady'
    BY <1>1, <1>6, <2>1 DEF WaitReady, Drained, Idle, AccountInv, HoldersReady, Inv, TypeOK
  <2> QED BY <1>3, <1>4, <2>2, <2>3
<1>7. CASE WaitFails(c) \/ Release(c)
  <2>1. PICK e \in Entries : e = caller[c].entry /\ entry[e].ready /\ caller[c].at # "idle"
    BY <1>7 DEF WaitFails, Release, AccountInv, RefInv, CallersRefer, HoldersReady
  <2>2. entry'[e] = Dropped(entry[e]) /\ \A f \in Entries \ {e} : entry'[f] = entry[f]
    BY <1>1, <1>7, <2>1 DEF WaitFails, Release, Drop
  <2>3. \A r \in Entry : Dropped(r).ready = r.ready BY DEF Dropped, Entry
  <2>4. \A f \in Entries : entry'[f].ready = entry[f].ready BY <1>1, <2>2, <2>3
  <2>5. CancelledReady' BY <2>1, <2>2, <2>4 DEF AccountInv, CancelledReady
  <2>6. caller'[c].at # "holding" /\ \A b \in Callers \ {c} : caller'[b] = caller[b]
    BY <1>1, <1>7 DEF WaitFails, Release, Idle, Inv, TypeOK
  <2>7. HoldersReady' BY <2>4, <2>6 DEF AccountInv, RefInv, CallersRefer, HoldersReady
  <2> QED BY <1>3, <1>4, <2>5, <2>7
<1> QED BY <1>3, <1>4, <1>5, <1>6, <1>7 DEF CallerStep

\* A stored lease is some run's to release, as long as nothing fails, even when
\* leases lapse and documents share a shard: no interleaving of claims,
\* releases and expiries leaves behind a lease the node forgot.  (A store
\* failure or Close ends this: the lease then stays until it expires.)
THEOREM NoLeaseForgotten ==
  ASSUME ~Faults
  PROVE  Spec => []LeaseAccounted
<1> DEFINE I == RefInv /\ (~closed => AccountInv)
<1>1. Init => I
  <2>1. Init => RefInv BY RefInit
  <2>2. ASSUME Init PROVE Unready /\ CancelledReady /\ HoldersReady /\ LeaseAccounted
    BY <2>2 DEF Init, Unready, CancelledReady, HoldersReady, LeaseAccounted, NoEntry, Idle
  <2> QED BY <2>1, <2>2 DEF AccountInv
<1>2. I /\ [Next]_vars => I'
  <2> SUFFICES ASSUME I, [Next]_vars PROVE I' OBVIOUS
  <2>0. RefInv' BY RefStep
  <2>1. CASE closed'  BY <2>0, <2>1
  <2>2. CASE ~closed'
    <3>1. ~closed /\ AccountInv /\ ~Close
      <4>1. ~Close BY <2>2 DEF Close
      <4>2. ASSUME NEW c \in Callers, CallerStep(c) PROVE closed' = closed
        BY <4>2 DEF CallerStep, AcquireEntry, WaitReady, WaitFails, Release, Drained
      <4>3. ASSUME NEW e \in Entries, RunStep(e) PROVE closed' = closed
        BY <4>3, RunMoves DEF RunStep, Finish, RefInv
      <4>4. closed' = closed BY <4>1, <4>2, <4>3 DEF Next, vars, Lapse
      <4> QED BY <2>2, <4>1, <4>4
    <3>2. CASE UNCHANGED vars
      BY <2>0, <3>1, <3>2 DEF vars, AccountInv, Unready, CancelledReady, HoldersReady,
         LeaseAccounted, ShardOfEntry
    <3>3. ASSUME NEW s \in Shards, Lapse(s) PROVE AccountInv'
      <4>1. UNCHANGED <<entries, entry, caller, closed>> /\ held' = [held EXCEPT ![s] = None]
        BY <3>3 DEF Lapse
      <4>2. \A z \in Shards : held'[z] # None => held'[z] = held[z]
        BY <4>1 DEF RefInv, Inv, TypeOK
      <4>3. Unready' /\ CancelledReady' /\ HoldersReady'
        BY <3>1, <4>1 DEF AccountInv, Unready, CancelledReady, HoldersReady
      <4>4. LeaseAccounted'
        BY <3>1, <4>1, <4>2 DEF AccountInv, LeaseAccounted, ShardOfEntry
      <4> QED BY <2>0, <4>3, <4>4 DEF AccountInv
    <3>4. ASSUME NEW c \in Callers, CallerStep(c) PROVE AccountInv'
      BY <2>0, <3>1, <3>4, CallerAccounts DEF AccountInv
    <3>5. ASSUME NEW e \in Entries, RunStep(e) PROVE AccountInv'
      BY <2>0, <3>1, <3>5, RunAccounts DEF AccountInv
    <3> QED BY <2>0, <3>1, <3>2, <3>3, <3>4, <3>5 DEF Next
  <2> QED BY <2>1, <2>2
<1>3. I => LeaseAccounted BY DEF AccountInv, LeaseAccounted
<1> QED BY <1>1, <1>2, <1>3, PTL DEF Spec
=============================================================================
