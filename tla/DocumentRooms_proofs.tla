------------------------ MODULE DocumentRooms_proofs ------------------------
(***************************************************************************)
(* Proofs about DocumentRooms for any number of nodes, connections, rooms, *)
(* updates and generations, and for every interleaving: orphan rooms,      *)
(* overlapping Persists and rebuilds included.                             *)
(*                                                                         *)
(* LogEpochsOrdered is not inductive: a Persist under way carries an       *)
(* offset it will save as the checkpoint, and a room one that the next     *)
(* Persist will.  Inv adds that, as long as the fence they write under is  *)
(* the valid one, no record of an earlier generation lies beyond them.     *)
(***************************************************************************)
EXTENDS DocumentRooms, FiniteSetTheorems, TLAPS

\* A connection that uses a room has one.
HasRoom ==
  \A c \in Conns :
    conn[c].at \in Attached \cup {"attach", "remove"} => conn[c].room \in Rooms

\* No epoch beyond the newest generation, and no offset beyond the last one.
Bounded ==
  /\ owner # None => owner.epoch = gen
  /\ snapshot.epoch <= gen
  /\ \A x \in log : x.epoch <= gen /\ x.offset <= next
  /\ \A r \in Rooms : room[r].authority # None => room[r].authority.epoch <= gen
  /\ \A n \in Nodes : flight[n].fence # None => flight[n].fence.epoch <= gen

\* Whoever may write under the fence has seen all that came before it, if it
\* has seen the log up to offset.
Covers(offset, fence) ==
  FenceHolds(fence) => \A x \in log : x.offset > offset => x.epoch >= fence.epoch

RoomCovers(r) == Covers(room[r].lastOffset, room[r].authority)

ConnCovers(c) ==
  conn[c].at \in {"save", "trim"} => Covers(conn[c].cap.lastOffset, RoomOf(c).authority)

Covered == (\A r \in Rooms : RoomCovers(r)) /\ (\A c \in Conns : ConnCovers(c))

Inv == TypeOK /\ HasRoom /\ Bounded /\ Covered /\ LogEpochsOrdered

-----------------------------------------------------------------------------
(* Types.                                                                  *)

\* Init establishes the types.
LEMMA InitTyped == Init => TypeOK
BY RoomAssumption
DEF Init, TypeOK, FreshRoom, Room, NoFlight, NoRecovery, NoCapture, Closed, Checkpoint,
    Recovery, Capture, Opening, Attached

\* A checkpoint is a recovery that has not read the log.
LEMMA RecoverBaseTyped == TypeOK => RecoverBase \in Recovery
BY DEF TypeOK, RecoverBase, Recovery, Checkpoint

\* Applying a page to a recovery gives a recovery.
LEMMA ReplayTyped ==
  ASSUME TypeOK, NEW rec \in Recovery, NEW last \in Page(rec.through)
  PROVE  Replay(rec, last) \in Recovery
<1>1. Page(rec.through) \in SUBSET Record
  BY DEF TypeOK, Page, Tail
<1>2. Offsets(Page(rec.through)) \in SUBSET Nat
  BY <1>1 DEF Offsets, Record
<1>3. last.offset \in Nat /\ last.epoch \in Nat
  BY <1>1 DEF Record
<1> QED BY <1>2, <1>3 DEF Replay, Recovery

\* What the store's three writes do to its types.
LEMMA StoreWritesTyped ==
  ASSUME TypeOK, NEW doc \in SUBSET Nat, NEW through \in Nat, NEW fence,
         \/ Append(fence)
         \/ SaveCheckpoint(doc, through, fence)
         \/ TrimUpdates(through, fence)
  PROVE  snapshot' \in Checkpoint /\ log' \in SUBSET Record /\ next' \in Nat
<1>1. fence \in Fence
  BY NoneAssumption DEF Append, SaveCheckpoint, TrimUpdates, FenceHolds, TypeOK
<1>2. CASE Append(fence)
  BY <1>1, <1>2 DEF Append, TypeOK, Record, Fence
<1>3. CASE SaveCheckpoint(doc, through, fence)
  BY <1>1, <1>3 DEF SaveCheckpoint, TypeOK, Checkpoint, Fence
<1>4. CASE TrimUpdates(through, fence)
  BY <1>4 DEF TrimUpdates, TypeOK
<1> QED BY <1>2, <1>3, <1>4

Step == {"closed", "remove"} \cup Opening \cup Attached

ConnRec == [at : Step, room : Rooms \cup {None}, cap : Capture, rec : Recovery, offset : Nat]

FlightRec == [at : {"none", "resolve", "base", "page"}, fence : Fence \cup {None}, rec : Recovery]

\* The constants a connection and a flight are reset to have their types.
LEMMA ResetTyped ==
  /\ NoRecovery \in Recovery /\ NoCapture \in Capture
  /\ Closed \in ConnRec /\ NoFlight \in FlightRec
BY DEF NoRecovery, NoCapture, Closed, NoFlight, Recovery, Capture, ConnRec, FlightRec, Step

\* Every step keeps the types.
LEMMA TypePreserved == TypeOK /\ HasRoom /\ [Next]_vars => TypeOK'
<1> SUFFICES ASSUME TypeOK, HasRoom, [Next]_vars PROVE TypeOK'
  OBVIOUS
<1>0. /\ conn \in [Conns -> ConnRec] /\ flight \in [Nodes -> FlightRec]
      /\ room \in [Rooms -> Room] /\ rooms \in [Nodes -> Rooms \cup {None}]
      /\ gen \in Nat /\ owner \in Fence \cup {None} /\ snapshot \in Checkpoint
      /\ log \in SUBSET Record /\ next \in Nat /\ acked \in SUBSET Nat
  BY DEF TypeOK, ConnRec, FlightRec, Step
<1> DEFINE Local == /\ conn' \in [Conns -> ConnRec] /\ flight' \in [Nodes -> FlightRec]
                    /\ room' \in [Rooms -> Room] /\ rooms' \in [Nodes -> Rooms \cup {None}]
<1>L. ASSUME Local, UNCHANGED <<gen, owner, store, acked>> PROVE TypeOK'
  BY <1>L DEF TypeOK, store, ConnRec, FlightRec, Step
<1>A. ASSUME NEW n \in Nodes, Grant(n) PROVE TypeOK'
  BY <1>A DEF Grant, TypeOK, Fence, store, local
<1>B. ASSUME Revoke PROVE TypeOK'
  BY <1>B DEF Revoke, TypeOK, store, local
<1>C. ASSUME NEW n \in Nodes, LoadStep(n) PROVE TypeOK'
  <2>1. flight[n] \in FlightRec /\ flight[n].rec \in Recovery
    BY <1>0 DEF FlightRec
  <2>2. CASE LoadFails(n)
    BY <1>0, <1>L, <2>2, ResetTyped DEF LoadFails
  <2>3. CASE LoadResolve(n)
    BY <1>0, <1>L, <2>3, ResetTyped DEF LoadResolve, FlightRec
  <2>4. CASE LoadBase(n)
    BY <1>0, <1>L, <2>1, <2>4, RecoverBaseTyped DEF LoadBase, FlightRec
  <2>5. CASE LoadPage(n)
    BY <1>0, <1>L, <2>1, <2>5, ReplayTyped DEF LoadPage, FlightRec
  <2>6. CASE LoadPublish(n)
    <3>1. LoadedRoom(n) \in Room
      BY <2>1 DEF LoadedRoom, Room, FlightRec, Recovery
    <3>2. PICK r \in Rooms :
            /\ room' = [room EXCEPT ![r] = LoadedRoom(n)]
            /\ rooms' = [rooms EXCEPT ![n] = IF rooms[n] = None THEN r ELSE rooms[n]]
            /\ conn' = [c \in Conns |-> IF c \in Waiting(n)
                 THEN [Closed EXCEPT !.at = "attach",
                                     !.room = IF rooms[n] = None THEN r ELSE rooms[n]]
                 ELSE conn[c]]
      BY <2>6 DEF LoadPublish
    <3>3. \A g \in Rooms \cup {None} : [Closed EXCEPT !.at = "attach", !.room = g] \in ConnRec
      BY ResetTyped DEF ConnRec, Step, Opening
    <3>4. conn' \in [Conns -> ConnRec]
      BY <1>0, <3>2, <3>3
    <3> QED BY <1>0, <1>L, <2>6, <3>1, <3>2, <3>4, ResetTyped DEF LoadPublish
  <2> QED BY <1>C, <2>2, <2>3, <2>4, <2>5, <2>6 DEF LoadStep
<1>D. ASSUME NEW n \in Nodes, Crash(n) PROVE TypeOK'
  BY <1>0, <1>L, <1>D, ResetTyped DEF Crash
<1>E. ASSUME NEW c \in Conns, ConnStep(c) PROVE TypeOK'
  <2>1. conn[c] \in ConnRec /\ conn[c].rec \in Recovery /\ conn[c].cap \in Capture
        /\ conn[c].offset \in Nat
    BY <1>0 DEF ConnRec
  <2>2. [Closed EXCEPT !.at = "open", !.room = conn[c].room] \in ConnRec
    BY <2>1, ResetTyped DEF ConnRec, Step, Attached
  <2>3. Served(c) => conn' \in [Conns -> ConnRec]
    BY <1>0, <2>2 DEF Served
  <2>4. \A s \in Step : Goto(c, s) => conn' \in [Conns -> ConnRec]
    BY <1>0, <2>1 DEF Goto, ConnRec
  <2>5. ASSUME conn[c].at \in Attached, Lose(conn[c].room) PROVE room' \in [Rooms -> Room]
    <3>1. conn[c].room \in Rooms
      BY <2>5 DEF HasRoom
    <3>2. [room[conn[c].room] EXCEPT !.authorityLost = TRUE] \in Room
      BY <1>0, <3>1 DEF Room
    <3> QED BY <1>0, <2>5, <3>1, <3>2 DEF Lose
  <2>6. conn[c].at \in Attached => RoomOf(c) \in Room
    BY <1>0 DEF HasRoom, RoomOf
  <2>7. CASE OpenLookup(c)
    BY <1>0, <1>L, <2>1, <2>7, RoomAssumption DEF OpenLookup, ConnRec, Step, Opening
  <2>8. CASE OpenJoin(c)
    <3>1. CASE flight[NodeOf[c]].at # "none" /\ Goto(c, "wait") /\ UNCHANGED flight
      BY <1>0, <1>L, <2>4, <2>8, <3>1 DEF OpenJoin, Step, Opening
    <3>2. CASE /\ conn' = [conn EXCEPT ![c].at = "attach", ![c].room = rooms[NodeOf[c]]]
               /\ UNCHANGED flight
      BY <1>0, <1>L, <2>1, <2>8, <3>2, RoomAssumption DEF OpenJoin, ConnRec, Step, Opening
    <3>3. CASE Goto(c, "wait") /\ flight' = [flight EXCEPT ![NodeOf[c]].at = "resolve"]
      BY <1>0, <1>L, <2>4, <2>8, <3>3, RoomAssumption DEF OpenJoin, Step, Opening, FlightRec
    <3> QED BY <2>8, <3>1, <3>2, <3>3 DEF OpenJoin
  <2>9. CASE Attach(c)
    BY <1>0, <1>L, <2>1, <2>9, ResetTyped DEF Attach, ConnRec, Step, Attached
  <2>10. CASE HandleUpdate(c)
    <3>1. next' \in Nat /\ log' \in SUBSET Record /\ snapshot' \in Checkpoint
      BY <2>10, StoreWritesTyped DEF HandleUpdate
    <3>2. room' \in [Rooms -> Room]
      BY <1>0, <2>10, <3>1 DEF HandleUpdate, Room
    <3> QED BY <1>0, <2>10, <3>1, <3>2 DEF HandleUpdate, TypeOK
  <2>11. CASE HandleMergeFails(c)
    <3>1. next' \in Nat /\ log' \in SUBSET Record /\ snapshot' \in Checkpoint
      BY <2>11, StoreWritesTyped DEF HandleMergeFails
    <3>2. conn' \in [Conns -> ConnRec]
      BY <1>0, <2>1, <2>11, <3>1 DEF HandleMergeFails, ConnRec, Step, Attached
    <3> QED BY <1>0, <2>11, <3>1, <3>2 DEF HandleMergeFails, TypeOK, ConnRec, Step
  <2>12. CASE HandleRefused(c)
    BY <1>0, <1>L, <2>5, <2>12 DEF HandleRefused, Usable, At, Attached
  <2>13. CASE RebuildBase(c)
    BY <1>0, <1>L, <2>1, <2>13, RecoverBaseTyped DEF RebuildBase, ConnRec, Step, Attached
  <2>14. CASE RebuildPage(c)
    BY <1>0, <1>L, <2>1, <2>14, ReplayTyped DEF RebuildPage, ConnRec
  <2>15. CASE RebuildDone(c)
    <3>1. Larger(conn[c].rec.through, conn[c].offset) \in Nat
      BY <2>1 DEF Larger, Recovery
    <3>2. RoomOf(c) \in Room
      BY <2>6, <2>15 DEF RebuildDone, At, Attached
    <3>3. RebuiltRoom(c) \in Room
      BY <2>1, <3>1, <3>2 DEF RebuiltRoom, Room, Recovery
    <3>4. room' \in [Rooms -> Room] /\ acked' \in SUBSET Nat
      BY <1>0, <2>1, <2>15, <3>3 DEF RebuildDone
    <3> QED BY <1>0, <2>3, <2>15, <3>4 DEF RebuildDone, TypeOK, ConnRec, Step, store
  <2>16. CASE RebuildFails(c)
    BY <1>0, <1>L, <2>3, <2>16 DEF RebuildFails
  <2>17. CASE PersistCapture(c)
    <3>1. RoomOf(c) \in Room
      BY <2>6, <2>17 DEF PersistCapture, Usable, At, Attached
    <3>2. [doc |-> RoomOf(c).doc, lastOffset |-> RoomOf(c).lastOffset,
           shouldTrim |-> RoomOf(c).lastOffset > RoomOf(c).compactedAt] \in Capture
      BY <3>1 DEF Room, Capture
    <3> QED BY <1>0, <1>L, <2>1, <2>17, <3>2 DEF PersistCapture, ConnRec, Step, Attached
  <2>18. CASE PersistSave(c)
    <3>1. conn[c].cap.doc \in SUBSET Nat /\ conn[c].cap.lastOffset \in Nat
      BY <2>1 DEF Capture
    <3>2. next' \in Nat /\ log' \in SUBSET Record /\ snapshot' \in Checkpoint
      BY <2>18, <3>1, StoreWritesTyped DEF PersistSave
    <3>3. conn' \in [Conns -> ConnRec]
      BY <2>3, <2>4, <2>18 DEF PersistSave, Step, Attached
    <3> QED BY <1>0, <2>18, <3>2, <3>3 DEF PersistSave, TypeOK, ConnRec, Step
  <2>19. CASE PersistTrim(c)
    <3>1. conn[c].cap.doc \in SUBSET Nat /\ conn[c].cap.lastOffset \in Nat
      BY <2>1 DEF Capture
    <3>2. next' \in Nat /\ log' \in SUBSET Record /\ snapshot' \in Checkpoint
      BY <2>19, <3>1, StoreWritesTyped DEF PersistTrim
    <3>3. conn' \in [Conns -> ConnRec]
      BY <2>4, <2>19 DEF PersistTrim, Step, Attached
    <3> QED BY <1>0, <2>19, <3>2, <3>3 DEF PersistTrim, TypeOK, ConnRec, Step
  <2>20. CASE PersistMark(c)
    <3>1. \A x \in Nat : Larger(x, conn[c].cap.lastOffset) \in Nat
      BY <2>1 DEF Larger, Capture
    <3>2. room' \in [Rooms -> Room]
      BY <1>0, <2>20, <3>1 DEF PersistMark, Room
    <3> QED BY <1>0, <1>L, <2>3, <2>20, <3>2 DEF PersistMark
  <2>21. CASE PersistRefused(c)
    BY <1>0, <1>L, <2>3, <2>5, <2>21 DEF PersistRefused, Attached
  <2>22. CASE PersistFails(c)
    BY <1>0, <1>L, <2>3, <2>22 DEF PersistFails
  <2>23. CASE Revalidate(c)
    BY <1>0, <1>L, <2>5, <2>23 DEF Revalidate
  <2>24. CASE Close(c)
    BY <1>0, <1>L, <2>1, <2>24, ResetTyped DEF Close, ConnRec, Step
  <2>25. CASE CloseRemove(c)
    BY <1>0, <1>L, <2>25, ResetTyped DEF CloseRemove
  <2> QED BY <1>E, <2>7, <2>8, <2>9, <2>10, <2>11, <2>12, <2>13, <2>14, <2>15, <2>16,
             <2>17, <2>18, <2>19, <2>20, <2>21, <2>22, <2>23, <2>24, <2>25 DEF ConnStep
<1>F. CASE UNCHANGED vars
  BY <1>F DEF vars, TypeOK
<1> QED BY <1>A, <1>B, <1>C, <1>D, <1>E, <1>F DEF Next

-----------------------------------------------------------------------------
(* What a step can do to each part of the state.                           *)

\* The store: an append, a checkpoint, a trim (or nothing), a change of owner.
LEMMA StoreSteps ==
  ASSUME [Next]_vars
  PROVE  \/ UNCHANGED <<gen, owner>> /\ \E f : Append(f)
         \/ /\ UNCHANGED <<gen, owner>>
            /\ \E c \in Conns :
                 /\ conn[c].at = "save"
                 /\ SaveCheckpoint(conn[c].cap.doc, conn[c].cap.lastOffset, RoomOf(c).authority)
         \/ UNCHANGED <<gen, owner, snapshot, next>> /\ log' \subseteq log
         \/ UNCHANGED store /\ (Revoke \/ \E n \in Nodes : Grant(n))
<1>1. ASSUME NEW n \in Nodes, LoadStep(n) PROVE UNCHANGED <<gen, owner, store>>
  BY <1>1 DEF LoadStep, LoadFails, LoadResolve, LoadBase, LoadPage, LoadPublish
<1>2. ASSUME NEW n \in Nodes, Crash(n) PROVE UNCHANGED <<gen, owner, store>>
  BY <1>2 DEF Crash
<1>3. ASSUME NEW n \in Nodes, Grant(n) PROVE UNCHANGED store
  BY <1>3 DEF Grant
<1>4. ASSUME Revoke PROVE UNCHANGED store
  BY <1>4 DEF Revoke
<1>5. ASSUME NEW c \in Conns, ConnStep(c)
      PROVE  \/ UNCHANGED <<gen, owner>> /\ \E f : Append(f)
             \/ /\ UNCHANGED <<gen, owner>> /\ conn[c].at = "save"
                /\ SaveCheckpoint(conn[c].cap.doc, conn[c].cap.lastOffset, RoomOf(c).authority)
             \/ UNCHANGED <<gen, owner, snapshot, next>> /\ log' \subseteq log
  <2>1. CASE HandleUpdate(c) \/ HandleMergeFails(c)
    BY <2>1 DEF HandleUpdate, HandleMergeFails
  <2>2. CASE PersistSave(c)
    BY <2>2 DEF PersistSave, At
  <2>3. CASE PersistTrim(c)
    BY <2>3 DEF PersistTrim, TrimUpdates
  <2>4. CASE OpenLookup(c) \/ OpenJoin(c) \/ Attach(c) \/ HandleRefused(c)
    BY <2>4 DEF OpenLookup, OpenJoin, Attach, HandleRefused, store
  <2>5. CASE RebuildBase(c) \/ RebuildPage(c) \/ RebuildDone(c) \/ RebuildFails(c)
    BY <2>5 DEF RebuildBase, RebuildPage, RebuildDone, RebuildFails, store
  <2>6. CASE PersistCapture(c) \/ PersistMark(c) \/ PersistRefused(c) \/ PersistFails(c)
    BY <2>6 DEF PersistCapture, PersistMark, PersistRefused, PersistFails, store
  <2>7. CASE Revalidate(c) \/ Close(c) \/ CloseRemove(c)
    BY <2>7 DEF Revalidate, Close, CloseRemove, store
  <2> QED BY <1>5, <2>1, <2>2, <2>3, <2>4, <2>5, <2>6, <2>7 DEF ConnStep
<1>6. CASE UNCHANGED vars
  BY <1>6 DEF vars
<1> QED BY <1>1, <1>2, <1>3, <1>4, <1>5, <1>6 DEF Next, store

\* A room keeps its offset and its authority, or its offset passes the end of
\* the log; only a room nothing refers to gets a new authority, a load's.
LEMMA RoomSteps ==
  ASSUME Inv, [Next]_vars, NEW r \in Rooms
  PROVE  /\ \/ /\ room'[r].lastOffset = room[r].lastOffset
               /\ room'[r].authority = room[r].authority
            \/ \A x \in log' : ~(x.offset > room'[r].lastOffset)
         /\ \/ room'[r].authority = room[r].authority
            \/ Free(r) /\ \E n \in Nodes : room'[r].authority = flight[n].fence
<1> DEFINE Goal == /\ \/ /\ room'[r].lastOffset = room[r].lastOffset
                         /\ room'[r].authority = room[r].authority
                      \/ \A x \in log' : ~(x.offset > room'[r].lastOffset)
                   /\ \/ room'[r].authority = room[r].authority
                      \/ Free(r) /\ \E n \in Nodes : room'[r].authority = flight[n].fence
<1>0. room \in [Rooms -> Room] /\ next \in Nat /\ (\A x \in log : x.offset \in Nat /\ x.offset <= next)
  BY DEF Inv, TypeOK, Bounded, Record
<1>1. ASSUME UNCHANGED room PROVE Goal
  BY <1>1
<1>2. ASSUME NEW q, Lose(q) PROVE Goal
  BY <1>0, <1>2 DEF Lose, Room
<1>3. ASSUME NEW n \in Nodes, LoadPublish(n) PROVE Goal
  <2>1. PICK q \in Rooms : Free(q) /\ room' = [room EXCEPT ![q] = LoadedRoom(n)]
    BY <1>3 DEF LoadPublish
  <2>2. CASE q = r
    <3>1. room'[r] = LoadedRoom(n)
      BY <1>0, <2>1, <2>2
    <3>2. log' = log
      BY <1>3 DEF LoadPublish, store
    <3>3. \A x \in log : ~(x.offset > flight[n].rec.through)
      BY <1>3 DEF LoadPublish, Tail
    <3> QED BY <2>1, <2>2, <3>1, <3>2, <3>3 DEF LoadedRoom
  <2>3. CASE q # r
    BY <1>0, <2>1, <2>3
  <2> QED BY <2>2, <2>3
<1>4. ASSUME NEW c \in Conns, HandleUpdate(c) PROVE Goal
  <2>1. next' = next + 1 /\ (\A x \in log' : x.offset <= next')
    BY <1>0, <1>4 DEF HandleUpdate, Append
  <2>2. CASE conn[c].room = r
    <3>1. room'[r].authority = room[r].authority /\ room'[r].lastOffset = next'
      BY <1>0, <1>4, <2>2 DEF HandleUpdate, Room
    <3>2. \A x \in log' : x.offset \in Nat
      BY <1>0, <1>4 DEF HandleUpdate, Append
    <3> QED BY <1>0, <2>1, <3>1, <3>2
  <2>3. CASE conn[c].room # r
    BY <1>0, <1>4, <2>3 DEF HandleUpdate
  <2> QED BY <2>2, <2>3
<1>5. ASSUME NEW c \in Conns, RebuildDone(c) PROVE Goal
  <2>1. CASE conn[c].room = r
    <3>1. room'[r] = RebuiltRoom(c) /\ RoomOf(c) = room[r]
      BY <1>0, <1>5, <2>1 DEF RebuildDone, RoomOf
    <3>2. room'[r].authority = room[r].authority
          /\ room'[r].lastOffset = Larger(conn[c].rec.through, conn[c].offset)
      BY <1>0, <3>1 DEF RebuiltRoom, Room
    <3>3. log' = log /\ \A x \in log : ~(x.offset > conn[c].rec.through)
      BY <1>5 DEF RebuildDone, store, Tail
    <3>4. conn[c].rec.through \in Nat /\ conn[c].offset \in Nat
      BY DEF Inv, TypeOK, Recovery
    <3> QED BY <1>0, <3>2, <3>3, <3>4 DEF Larger
  <2>2. CASE conn[c].room # r
    BY <1>0, <1>5, <2>2 DEF RebuildDone
  <2> QED BY <2>1, <2>2
<1>6. ASSUME NEW c \in Conns, PersistMark(c) PROVE Goal
  BY <1>0, <1>6 DEF PersistMark, Room
<1>7. ASSUME NEW n \in Nodes, LoadStep(n) PROVE Goal
  BY <1>1, <1>3, <1>7 DEF LoadStep, LoadFails, LoadResolve, LoadBase, LoadPage
<1>8. ASSUME NEW c \in Conns, ConnStep(c) PROVE Goal
  <2>1. CASE OpenLookup(c) \/ OpenJoin(c) \/ Attach(c) \/ HandleMergeFails(c)
    BY <1>1, <2>1 DEF OpenLookup, OpenJoin, Attach, HandleMergeFails
  <2>2. CASE RebuildBase(c) \/ RebuildPage(c) \/ RebuildFails(c)
    BY <1>1, <2>2 DEF RebuildBase, RebuildPage, RebuildFails
  <2>3. CASE PersistCapture(c) \/ PersistSave(c) \/ PersistTrim(c) \/ PersistFails(c)
    BY <1>1, <2>3 DEF PersistCapture, PersistSave, PersistTrim, PersistFails
  <2>4. CASE Close(c) \/ CloseRemove(c)
    BY <1>1, <2>4 DEF Close, CloseRemove
  <2>5. CASE HandleRefused(c) \/ PersistRefused(c) \/ Revalidate(c)
    BY <1>2, <2>5 DEF HandleRefused, PersistRefused, Revalidate
  <2> QED BY <1>4, <1>5, <1>6, <1>8, <2>1, <2>2, <2>3, <2>4, <2>5 DEF ConnStep
<1>9. ASSUME NEW n \in Nodes, Grant(n) \/ Crash(n) PROVE Goal
  BY <1>1, <1>9 DEF Grant, Crash, local
<1>10. CASE Revoke \/ UNCHANGED vars
  BY <1>1, <1>10 DEF Revoke, local, vars
<1> QED BY <1>7, <1>8, <1>9, <1>10 DEF Next

\* A flight keeps its fence, drops it, or takes the owner's.
LEMMA FlightSteps ==
  ASSUME Inv, [Next]_vars, NEW n \in Nodes
  PROVE  \/ flight'[n].fence = flight[n].fence
         \/ flight'[n].fence = None
         \/ flight'[n].fence = owner /\ UNCHANGED gen
<1> DEFINE Goal == \/ flight'[n].fence = flight[n].fence
                   \/ flight'[n].fence = None
                   \/ flight'[n].fence = owner /\ UNCHANGED gen
<1>0. flight \in [Nodes -> FlightRec]
  BY DEF Inv, TypeOK, FlightRec
<1>1. ASSUME UNCHANGED flight PROVE Goal
  BY <1>1
<1>2. ASSUME NEW k \in Nodes, flight' = [flight EXCEPT ![k] = NoFlight] PROVE Goal
  BY <1>0, <1>2 DEF NoFlight
<1>3. ASSUME NEW k \in Nodes, LoadStep(k) PROVE Goal
  <2>1. CASE LoadFails(k) \/ LoadPublish(k)
    BY <1>2, <2>1 DEF LoadFails, LoadPublish
  <2>2. CASE LoadResolve(k)
    BY <1>0, <2>2 DEF LoadResolve
  <2>3. CASE LoadBase(k)
    BY <1>0, <2>3 DEF LoadBase, FlightRec
  <2>4. CASE LoadPage(k)
    BY <1>0, <2>4 DEF LoadPage, FlightRec
  <2> QED BY <1>3, <2>1, <2>2, <2>3, <2>4 DEF LoadStep
<1>4. ASSUME NEW k \in Nodes, Grant(k) \/ Crash(k) PROVE Goal
  BY <1>1, <1>2, <1>4 DEF Grant, Crash, local
<1>5. ASSUME NEW c \in Conns, ConnStep(c) PROVE Goal
  <2>1. CASE OpenJoin(c)
    BY <1>0, <2>1 DEF OpenJoin, FlightRec
  <2>2. CASE OpenLookup(c) \/ Attach(c) \/ HandleUpdate(c) \/ HandleMergeFails(c) \/ HandleRefused(c)
    BY <1>1, <2>2 DEF OpenLookup, Attach, HandleUpdate, HandleMergeFails, HandleRefused
  <2>3. CASE RebuildBase(c) \/ RebuildPage(c) \/ RebuildDone(c) \/ RebuildFails(c)
    BY <1>1, <2>3 DEF RebuildBase, RebuildPage, RebuildDone, RebuildFails
  <2>4. CASE \/ PersistCapture(c) \/ PersistSave(c) \/ PersistTrim(c) \/ PersistMark(c)
             \/ PersistRefused(c) \/ PersistFails(c)
    BY <1>1, <2>4 DEF PersistCapture, PersistSave, PersistTrim, PersistMark, PersistRefused,
                      PersistFails
  <2>5. CASE Revalidate(c) \/ Close(c) \/ CloseRemove(c)
    BY <1>1, <2>5 DEF Revalidate, Close, CloseRemove
  <2> QED BY <1>5, <2>1, <2>2, <2>3, <2>4, <2>5 DEF ConnStep
<1>6. CASE Revoke \/ UNCHANGED vars
  BY <1>1, <1>6 DEF Revoke, local, vars
<1> QED BY <1>3, <1>4, <1>5, <1>6 DEF Next

\* The connections other than the one that acts, or a node's, stay as they are.
LEMMA ConnFrame ==
  ASSUME Inv, [Next]_vars, NEW d \in Conns
  PROVE  \/ conn'[d] = conn[d]
         \/ conn'[d].at \notin Attached \cup {"attach", "remove"}
         \/ conn'[d].at = "attach" /\ conn'[d].room \in Rooms
         \/ ConnStep(d)
<1> DEFINE Goal == \/ conn'[d] = conn[d]
                   \/ conn'[d].at \notin Attached \cup {"attach", "remove"}
                   \/ conn'[d].at = "attach" /\ conn'[d].room \in Rooms
                   \/ ConnStep(d)
<1>0. conn \in [Conns -> ConnRec] /\ rooms \in [Nodes -> Rooms \cup {None}]
  BY DEF Inv, TypeOK, ConnRec, Step
<1>1. ASSUME UNCHANGED conn PROVE Goal
  BY <1>1
<1>2. Closed.at \notin Attached \cup {"attach", "remove"}
  BY DEF Closed, Attached
<1>3. ASSUME NEW n \in Nodes, LoadStep(n) PROVE Goal
  <2>1. CASE LoadFails(n)
    BY <1>0, <1>2, <2>1 DEF LoadFails
  <2>2. CASE LoadPublish(n)
    <3>1. PICK r \in Rooms :
            conn' = [c \in Conns |-> IF c \in Waiting(n)
                      THEN [Closed EXCEPT !.at = "attach",
                                          !.room = IF rooms[n] = None THEN r ELSE rooms[n]]
                      ELSE conn[c]]
      BY <2>2 DEF LoadPublish
    <3>2. (IF rooms[n] = None THEN r ELSE rooms[n]) \in Rooms
      BY <1>0
    <3>3. ASSUME NEW g \in Rooms
          PROVE  /\ [Closed EXCEPT !.at = "attach", !.room = g].at = "attach"
                 /\ [Closed EXCEPT !.at = "attach", !.room = g].room = g
      BY DEF Closed
    <3> QED BY <3>1, <3>2, <3>3
  <2>3. CASE LoadResolve(n) \/ LoadBase(n) \/ LoadPage(n)
    BY <1>1, <2>3 DEF LoadResolve, LoadBase, LoadPage
  <2> QED BY <1>3, <2>1, <2>2, <2>3 DEF LoadStep
<1>4. ASSUME NEW n \in Nodes, Crash(n) PROVE Goal
  BY <1>0, <1>2, <1>4 DEF Crash
<1>5. ASSUME NEW n \in Nodes, Grant(n) PROVE Goal
  BY <1>1, <1>5 DEF Grant, local
<1>6. CASE Revoke \/ UNCHANGED vars
  BY <1>1, <1>6 DEF Revoke, local, vars
<1>7. ASSUME NEW c \in Conns, ConnStep(c), c # d PROVE conn'[d] = conn[d]
  <2>1. CASE OpenLookup(c) \/ OpenJoin(c) \/ Attach(c)
    BY <1>0, <1>7, <2>1 DEF OpenLookup, OpenJoin, Attach, Goto
  <2>2. CASE HandleUpdate(c) \/ HandleMergeFails(c) \/ HandleRefused(c)
    BY <1>0, <1>7, <2>2 DEF HandleUpdate, HandleMergeFails, HandleRefused
  <2>3. CASE RebuildBase(c) \/ RebuildPage(c) \/ RebuildDone(c) \/ RebuildFails(c)
    BY <1>0, <1>7, <2>3 DEF RebuildBase, RebuildPage, RebuildDone, RebuildFails, Served
  <2>4. CASE \/ PersistCapture(c) \/ PersistSave(c) \/ PersistTrim(c) \/ PersistMark(c)
             \/ PersistRefused(c) \/ PersistFails(c)
    BY <1>0, <1>7, <2>4 DEF PersistCapture, PersistSave, PersistTrim, PersistMark,
                            PersistRefused, PersistFails, Served, Goto
  <2>5. CASE Revalidate(c) \/ Close(c) \/ CloseRemove(c)
    BY <1>0, <1>7, <2>5 DEF Revalidate, Close, CloseRemove
  <2> QED BY <1>7, <2>1, <2>2, <2>3, <2>4, <2>5 DEF ConnStep
<1> QED BY <1>3, <1>4, <1>5, <1>6, <1>7 DEF Next

\* A connection enters and leaves a room only through Open and Close, and the
\* offset a Persist saves is the room's at the capture.
LEMMA OwnStep ==
  ASSUME Inv, NEW c \in Conns, ConnStep(c)
  PROVE  /\ conn'[c].at \in Attached \cup {"attach", "remove"} => conn'[c].room \in Rooms
         /\ conn'[c].at \in {"save", "trim"} =>
              /\ conn'[c].room = conn[c].room /\ conn[c].at \in Attached
              /\ \/ conn[c].at \in {"save", "trim"} /\ conn'[c].cap = conn[c].cap
                 \/ conn'[c].cap.lastOffset = RoomOf(c).lastOffset /\ UNCHANGED <<owner, log, room>>
<1> DEFINE InRoom == conn'[c].at \in Attached \cup {"attach", "remove"} => conn'[c].room \in Rooms
           Saves == conn'[c].at \in {"save", "trim"}
           Goal == InRoom /\ ~Saves
<1>0. conn \in [Conns -> ConnRec] /\ rooms \in [Nodes -> Rooms \cup {None}] /\ conn[c] \in ConnRec
  BY DEF Inv, TypeOK, ConnRec, Step
<1>1. conn[c].at \in Attached \cup {"attach", "remove"} => conn[c].room \in Rooms
  BY DEF Inv, HasRoom
<1>2. Closed.at \notin Attached \cup {"attach", "remove"} /\ Closed.at = "closed"
  BY DEF Closed, Attached
<1>3. [Closed EXCEPT !.at = "open", !.room = conn[c].room].at = "open"
      /\ [Closed EXCEPT !.at = "open", !.room = conn[c].room].room = conn[c].room
  BY DEF Closed
<1>4. ASSUME Served(c), conn[c].at \in Attached PROVE Goal
  BY <1>0, <1>1, <1>3, <1>4 DEF Served
<1>5. ASSUME UNCHANGED conn, conn[c].at = "open" PROVE Goal
  BY <1>1, <1>5 DEF Attached
<1>6. CASE OpenLookup(c)
  BY <1>0, <1>6, RoomAssumption DEF OpenLookup, ConnRec, Attached
<1>7. CASE OpenJoin(c)
  BY <1>0, <1>7, RoomAssumption DEF OpenJoin, Goto, ConnRec, Attached
<1>8. CASE Attach(c)
  BY <1>0, <1>1, <1>2, <1>8 DEF Attach, At, ConnRec, Attached
<1>9. CASE HandleUpdate(c) \/ HandleRefused(c)
  BY <1>5, <1>9 DEF HandleUpdate, HandleRefused, Usable, At
<1>10. CASE HandleMergeFails(c)
  BY <1>0, <1>1, <1>10 DEF HandleMergeFails, Usable, At, ConnRec, Attached
<1>11. CASE RebuildBase(c) \/ RebuildPage(c)
  BY <1>0, <1>1, <1>11 DEF RebuildBase, RebuildPage, At, ConnRec, Attached
<1>12. CASE RebuildDone(c) \/ RebuildFails(c) \/ PersistMark(c) \/ PersistRefused(c) \/ PersistFails(c)
  BY <1>4, <1>12 DEF RebuildDone, RebuildFails, PersistMark, PersistRefused, PersistFails, At, Attached
<1>13. CASE PersistCapture(c)
  BY <1>0, <1>1, <1>13 DEF PersistCapture, Usable, At, ConnRec, Attached, Capture, store
<1>14. CASE PersistSave(c)
  <2>1. CASE conn[c].cap.shouldTrim
    BY <1>0, <1>1, <1>14, <2>1 DEF PersistSave, Goto, At, ConnRec, Attached
  <2>2. CASE ~conn[c].cap.shouldTrim
    BY <1>4, <1>14, <2>2 DEF PersistSave, At, Attached
  <2> QED BY <2>1, <2>2
<1>15. CASE PersistTrim(c)
  BY <1>0, <1>1, <1>15 DEF PersistTrim, Goto, At, ConnRec, Attached
<1>16. CASE Revalidate(c)
  BY <1>1, <1>16 DEF Revalidate
<1>17. CASE Close(c)
  BY <1>0, <1>1, <1>2, <1>17 DEF Close, At, ConnRec, Attached
<1>18. CASE CloseRemove(c)
  BY <1>0, <1>2, <1>18 DEF CloseRemove
<1> QED BY <1>6, <1>7, <1>8, <1>9, <1>10, <1>11, <1>12, <1>13, <1>14, <1>15, <1>16, <1>17,
           <1>18 DEF ConnStep

-----------------------------------------------------------------------------
(* The invariant.                                                          *)

\* Init establishes the invariant.
LEMMA InitInv == Init => Inv
<1> SUFFICES ASSUME Init PROVE Inv
  OBVIOUS
<1>1. TypeOK
  BY InitTyped
<1>2. HasRoom
  BY DEF Init, HasRoom, Closed, Attached
<1>3. Bounded /\ LogEpochsOrdered
  BY DEF Init, Bounded, LogEpochsOrdered, FreshRoom, NoFlight
<1>4. Covered
  BY DEF Init, Covered, RoomCovers, ConnCovers, Covers, FenceHolds, Closed
<1> QED BY <1>1, <1>2, <1>3, <1>4 DEF Inv

\* A connection inside a room refers to a room.
LEMMA HasRoomPreserved == Inv /\ [Next]_vars => HasRoom'
<1> SUFFICES ASSUME Inv, [Next]_vars, NEW c \in Conns,
                    conn'[c].at \in Attached \cup {"attach", "remove"}
             PROVE  conn'[c].room \in Rooms
  BY DEF HasRoom
<1>1. CASE conn'[c] = conn[c]
  BY <1>1 DEF Inv, HasRoom
<1>2. CASE ConnStep(c)
  BY <1>2, OwnStep
<1> QED BY <1>1, <1>2, ConnFrame

\* No step leaves an epoch beyond the newest generation, or an offset beyond
\* the last one given out.
LEMMA BoundedPreserved == Inv /\ [Next]_vars => Bounded'
<1> SUFFICES ASSUME Inv, [Next]_vars PROVE Bounded'
  OBVIOUS
<1>0. /\ gen \in Nat /\ next \in Nat /\ owner \in Fence \cup {None}
      /\ snapshot.epoch \in Nat
      /\ \A x \in log : x.epoch \in Nat /\ x.offset \in Nat
      /\ \A r \in Rooms : room[r].authority \in Fence \cup {None}
      /\ \A n \in Nodes : flight[n].fence \in Fence \cup {None}
  BY DEF Inv, TypeOK, Checkpoint, Record, Room
<1>1. \A f \in Fence : f.epoch \in Nat
  BY DEF Fence
<1>2. gen' \in Nat /\ gen' >= gen
  BY <1>0, StoreSteps DEF Append, SaveCheckpoint, Revoke, Grant
<1>3. owner' # None => owner'.epoch = gen'
  BY StoreSteps DEF Revoke, Grant, Inv, Bounded
<1>4. /\ snapshot'.epoch <= gen'
      /\ \A x \in log' : x.epoch <= gen' /\ x.offset <= next'
  <2>1. CASE UNCHANGED <<gen, owner>> /\ \E f : Append(f)
    BY <1>0, <2>1 DEF Append, FenceHolds, Inv, Bounded
  <2>2. CASE /\ UNCHANGED <<gen, owner>>
             /\ \E c \in Conns :
                  SaveCheckpoint(conn[c].cap.doc, conn[c].cap.lastOffset, RoomOf(c).authority)
    BY <1>0, <2>2 DEF SaveCheckpoint, FenceHolds, Inv, Bounded
  <2>3. CASE UNCHANGED <<gen, owner, snapshot, next>> /\ log' \subseteq log
    BY <2>3 DEF Inv, Bounded
  <2>4. CASE UNCHANGED store
    BY <1>0, <1>2, <2>4 DEF store, Inv, Bounded
  <2> QED BY <2>1, <2>2, <2>3, <2>4, StoreSteps
<1>5. ASSUME NEW r \in Rooms, room'[r].authority # None PROVE room'[r].authority.epoch <= gen'
  <2>1. CASE room'[r].authority = room[r].authority
    BY <1>0, <1>1, <1>2, <1>5, <2>1 DEF Inv, Bounded
  <2>2. CASE \E n \in Nodes : room'[r].authority = flight[n].fence
    BY <1>0, <1>1, <1>2, <1>5, <2>2 DEF Inv, Bounded
  <2> QED BY <2>1, <2>2, RoomSteps
<1>6. ASSUME NEW n \in Nodes, flight'[n].fence # None PROVE flight'[n].fence.epoch <= gen'
  <2>1. CASE flight'[n].fence = flight[n].fence
    BY <1>0, <1>1, <1>2, <1>6, <2>1 DEF Inv, Bounded
  <2>2. CASE flight'[n].fence = owner /\ UNCHANGED gen
    BY <1>0, <1>1, <1>6, <2>2 DEF Inv, Bounded
  <2> QED BY <1>6, <2>1, <2>2, FlightSteps
<1> QED BY <1>3, <1>4, <1>5, <1>6 DEF Bounded

\* What a valid fence covers stays covered: an append made under it carries
\* its epoch, and a fence that was replaced never becomes valid again.
LEMMA CoversPreserved ==
  ASSUME Inv, [Next]_vars, NEW offset, NEW fence \in Fence \cup {None},
         fence # None => fence.epoch <= gen,
         Covers(offset, fence)
  PROVE  Covers(offset, fence)'
<1>0. gen \in Nat /\ \A f \in Fence : f.epoch \in Nat
  BY DEF Inv, TypeOK, Fence
<1> SUFFICES ASSUME fence # None, owner' = fence, NEW x \in log', x.offset > offset
             PROVE  x.epoch >= fence.epoch
  BY DEF Covers, FenceHolds
<1>1. CASE UNCHANGED <<gen, owner>> /\ \E f : Append(f)
  BY <1>0, <1>1 DEF Append, FenceHolds, Covers
<1>2. CASE /\ UNCHANGED <<gen, owner>>
           /\ \E c \in Conns :
                SaveCheckpoint(conn[c].cap.doc, conn[c].cap.lastOffset, RoomOf(c).authority)
  BY <1>2 DEF SaveCheckpoint, FenceHolds, Covers
<1>3. CASE UNCHANGED <<gen, owner, snapshot, next>> /\ log' \subseteq log
  BY <1>3 DEF FenceHolds, Covers
<1>4. CASE Revoke
  BY <1>4 DEF Revoke
<1>5. CASE \E n \in Nodes : Grant(n)
  BY <1>0, <1>5 DEF Grant
<1> QED BY <1>1, <1>2, <1>3, <1>4, <1>5, StoreSteps

\* Rooms and pending Persists keep covering what their fence covers.
LEMMA CoveredPreserved == Inv /\ [Next]_vars => Covered'
<1> SUFFICES ASSUME Inv, [Next]_vars PROVE Covered'
  OBVIOUS
<1>0. \A r \in Rooms : /\ room[r].authority \in Fence \cup {None}
                       /\ room[r].authority # None => room[r].authority.epoch <= gen
  BY DEF Inv, TypeOK, Room, Bounded
<1>3. ASSUME NEW c \in Conns, conn[c].at \in Attached, conn[c].room \in Rooms,
             Covers(conn[c].cap.lastOffset, RoomOf(c).authority),
             conn'[c].cap = conn[c].cap, conn'[c].room = conn[c].room
      PROVE  Covers(conn[c].cap.lastOffset, RoomOf(c).authority)'
  <2> DEFINE o == conn[c].cap.lastOffset
             f == room[conn[c].room].authority
  <2>1. ~Free(conn[c].room)
    BY DEF Free
  <2>2. room'[conn[c].room].authority = f
    BY <1>3, <2>1, RoomSteps
  <2>3. f \in Fence \cup {None} /\ (f # None => f.epoch <= gen)
    BY <1>0, <1>3
  <2>4. \A z \in {o}, g \in {f} : FenceHolds(g)' => \A x \in log' : x.offset > z => x.epoch >= g.epoch
    BY <1>3, <2>3, CoversPreserved DEF Covers, RoomOf
  <2> QED BY <1>3, <2>2, <2>4 DEF Covers, FenceHolds, RoomOf
<1>1. ASSUME NEW r \in Rooms PROVE RoomCovers(r)'
  <2>1. CASE /\ room'[r].lastOffset = room[r].lastOffset
             /\ room'[r].authority = room[r].authority
    <3>1. Covers(room[r].lastOffset, room[r].authority)
      BY DEF Inv, Covered, RoomCovers
    <3> DEFINE o == room[r].lastOffset
               f == room[r].authority
    <3>2. \A z \in {o}, g \in {f} : FenceHolds(g)' => \A x \in log' : x.offset > z => x.epoch >= g.epoch
      BY <1>0, <3>1, CoversPreserved DEF Covers
    <3> QED BY <2>1, <3>2 DEF RoomCovers, Covers, FenceHolds
  <2>2. CASE \A x \in log' : ~(x.offset > room'[r].lastOffset)
    BY <2>2 DEF RoomCovers, Covers
  <2> QED BY <2>1, <2>2, RoomSteps
<1>2. ASSUME NEW c \in Conns, conn'[c].at \in {"save", "trim"}
      PROVE  Covers(conn[c].cap.lastOffset, RoomOf(c).authority)'
  <2>1. CASE conn'[c] = conn[c]
    <3>1. conn[c].at \in Attached /\ conn[c].room \in Rooms
      BY <1>2, <2>1 DEF Inv, HasRoom, Attached
    <3>2. Covers(conn[c].cap.lastOffset, RoomOf(c).authority)
      BY <1>2, <2>1 DEF Inv, Covered, ConnCovers
    <3>3. conn'[c].cap = conn[c].cap /\ conn'[c].room = conn[c].room
      BY <2>1
    <3> QED BY <1>3, <3>1, <3>2, <3>3
  <2>2. CASE ConnStep(c)
    <3>1. conn'[c].room = conn[c].room /\ conn[c].at \in Attached
      BY <1>2, <2>2, OwnStep
    <3>2. conn[c].room \in Rooms
      BY <3>1 DEF Inv, HasRoom
    <3>3. CASE conn[c].at \in {"save", "trim"} /\ conn'[c].cap = conn[c].cap
      <4>1. Covers(conn[c].cap.lastOffset, RoomOf(c).authority)
        BY <3>3 DEF Inv, Covered, ConnCovers
      <4> QED BY <1>3, <3>1, <3>2, <3>3, <4>1
    <3>4. CASE conn'[c].cap.lastOffset = RoomOf(c).lastOffset /\ UNCHANGED <<owner, log, room>>
      BY <3>1, <3>2, <3>4 DEF Inv, Covered, RoomCovers, Covers, FenceHolds, RoomOf
    <3> QED BY <1>2, <2>2, <3>3, <3>4, OwnStep
  <2>3. conn'[c].at # "attach" /\ conn'[c].at \in Attached
    BY <1>2 DEF Attached
  <2> QED BY <2>1, <2>2, <2>3, ConnFrame
<1> QED BY <1>1, <1>2 DEF Covered, ConnCovers

\* The log stays ordered: an append carries the newest epoch, and a checkpoint
\* is saved only by one who has seen everything of the earlier epochs.
LEMMA OrderPreserved == Inv /\ [Next]_vars => LogEpochsOrdered'
<1> SUFFICES ASSUME Inv, [Next]_vars PROVE LogEpochsOrdered'
  OBVIOUS
<1>0. /\ gen \in Nat /\ next \in Nat /\ snapshot.epoch \in Nat /\ snapshot.through \in Nat
      /\ \A x \in log : x.epoch \in Nat /\ x.offset \in Nat
  BY DEF Inv, TypeOK, Checkpoint, Record
<1>1. CASE UNCHANGED <<gen, owner>> /\ \E f : Append(f)
  <2>1. PICK f : Append(f)
    BY <1>1
  <2>2. f.epoch = gen
    BY <2>1 DEF Append, FenceHolds, Inv, Bounded
  <2>3. log' = log \cup {[offset |-> next + 1, epoch |-> gen]} /\ snapshot' = snapshot
    BY <2>1, <2>2 DEF Append
  <2> QED BY <1>0, <2>3 DEF Inv, Bounded, LogEpochsOrdered
<1>2. CASE /\ UNCHANGED <<gen, owner>>
           /\ \E c \in Conns :
                /\ conn[c].at = "save"
                /\ SaveCheckpoint(conn[c].cap.doc, conn[c].cap.lastOffset, RoomOf(c).authority)
  <2>1. PICK c \in Conns :
          /\ conn[c].at = "save"
          /\ SaveCheckpoint(conn[c].cap.doc, conn[c].cap.lastOffset, RoomOf(c).authority)
    BY <1>2
  <2>2. Covers(conn[c].cap.lastOffset, RoomOf(c).authority)
    BY <2>1 DEF Inv, Covered, ConnCovers
  <2> QED BY <2>1, <2>2 DEF SaveCheckpoint, Covers, Inv, LogEpochsOrdered
<1>3. CASE UNCHANGED <<gen, owner, snapshot, next>> /\ log' \subseteq log
  BY <1>3 DEF Inv, LogEpochsOrdered
<1>4. CASE UNCHANGED store
  BY <1>4 DEF store, Inv, LogEpochsOrdered
<1> QED BY <1>1, <1>2, <1>3, <1>4, StoreSteps

\* The inductive invariant holds in every reachable state.
THEOREM Invariance == Spec => []Inv
<1>1. Inv /\ [Next]_vars => Inv'
  BY TypePreserved, HasRoomPreserved, BoundedPreserved, CoveredPreserved, OrderPreserved DEF Inv
<1> QED BY <1>1, InitInv, PTL DEF Spec

\* Stores, rooms, loads and connections have their types in every reachable
\* state, for any number of them.
THEOREM TypeCorrect == Spec => []TypeOK
<1>1. Inv => TypeOK
  BY DEF Inv
<1> QED BY <1>1, Invariance, PTL

\* Fencing keeps the log in epoch order: whatever takeovers, crashes, orphan
\* rooms and overlapping Persists there are, recovery never meets a record of
\* a replaced owner behind one of its successor or behind its checkpoint.
THEOREM FencedLogOrdered == Spec => []LogEpochsOrdered
<1>1. Inv => LogEpochsOrdered
  BY DEF Inv
<1> QED BY <1>1, Invariance, PTL

-----------------------------------------------------------------------------
(***************************************************************************)
(* No acknowledged update is lost, for any nodes, connections, rooms,      *)
(* updates, generations and page size, when no two connections of the      *)
(* document are at one node.                                               *)
(*                                                                         *)
(* AckedDurable is not inductive.  What must survive is more than what was *)
(* acknowledged (an append whose room is being rebuilt will be), and what  *)
(* the store will hold is decided by copies made earlier: the room, the    *)
(* capture of a Persist, the recovery of a load or of a rebuild.  DurInv   *)
(* says of each of them that, as long as its fence is the valid one, it    *)
(* has everything together with the log after it.  A node's connections    *)
(* could undo that for each other (a Persist that saves what it captured   *)
(* before another's, or during another's rebuild), so DurInv also has      *)
(* Serial: they do not meet, which one connection per node gives.          *)
(***************************************************************************)

\* No two connections arrive at one node.
OneConnection == \A c, d \in Conns : NodeOf[c] = NodeOf[d] => c = d

Persisting == {c \in Conns : conn[c].at \in {"save", "trim", "mark"}}
Rebuilding == {c \in Conns : conn[c].at \in {"rebuildBase", "rebuildPage"}}

\* No room is unregistered while a connection uses it or is about to.
Registered ==
  \A c \in Conns :
    conn[c].at \in Attached \cup {"attach"} => rooms[NodeOf[c]] = conn[c].room

\* One Persist at a time on a node.
OnePersist == \A c, d \in Persisting : NodeOf[c] = NodeOf[d] => c = d

\* No Persist while the node rebuilds the room.
QuietRebuild == \A c \in Rebuilding, d \in Persisting : NodeOf[c] # NodeOf[d]

Serial == Registered /\ OnePersist /\ QuietRebuild

\* Updates that were acknowledged, or will be when the rebuild that goes on succeeds.
Owed == acked \cup {conn[c].offset : c \in Rebuilding}

\* The same without the rebuilds of room r itself.
OwedBut(r) == acked \cup {conn[c].offset : c \in {d \in Rebuilding : conn[d].room # r}}

\* A document and the tail of the log after an offset.
Held(doc, through) == doc \cup {x \in Offsets(log) : x > through}

\* Together they have everything, and the offset is not behind the checkpoint.
Suffices(doc, through) == Owed \subseteq Held(doc, through) /\ snapshot.through <= through

\* A room in the map has a fence of its node.
Published ==
  \A n \in Nodes : rooms[n] # None =>
    room[rooms[n]].authority # None /\ room[rooms[n]].authority.node = n

\* A load runs while its node has no room, under a fence of the node.
Loading ==
  \A n \in Nodes :
    /\ flight[n].at # "none" => rooms[n] = None
    /\ flight[n].at \in {"base", "page"} => flight[n].fence # None /\ flight[n].fence.node = n

\* Nothing claims an offset that was not given out.
Given ==
  /\ IsFiniteSet(log)
  /\ snapshot.through <= next
  /\ \A r \in Rooms : room[r].lastOffset <= next
  /\ \A n \in Nodes : flight[n].at = "page" => flight[n].rec.through <= next
  /\ \A c \in Conns : /\ conn[c].at \in {"save", "trim"} => conn[c].cap.lastOffset <= next
                      /\ conn[c].at = "rebuildPage" => conn[c].rec.through <= next
                      /\ c \in Rebuilding => conn[c].offset <= next

Durable == Owed \subseteq Recoverable

FlightSuffices(n) ==
  flight[n].at = "page" /\ FenceHolds(flight[n].fence) =>
    Suffices(flight[n].rec.doc, flight[n].rec.through)

RoomSuffices(n) ==
  rooms[n] # None /\ FenceHolds(room[rooms[n]].authority) =>
    /\ OwedBut(rooms[n]) \subseteq room[rooms[n]].doc
    /\ snapshot.through <= room[rooms[n]].lastOffset

RebuildSuffices(c) ==
  conn[c].at = "rebuildPage" /\ FenceHolds(RoomOf(c).authority) =>
    Suffices(conn[c].rec.doc, conn[c].rec.through)

CaptureSuffices(c) ==
  conn[c].at = "save" /\ FenceHolds(RoomOf(c).authority) =>
    /\ Suffices(conn[c].cap.doc, conn[c].cap.lastOffset)
    /\ conn[c].cap.lastOffset <= RoomOf(c).lastOffset

TrimSuffices(c) ==
  conn[c].at = "trim" /\ FenceHolds(RoomOf(c).authority) =>
    snapshot.through = conn[c].cap.lastOffset

DurInv ==
  /\ Serial /\ Published /\ Loading /\ Given /\ Durable
  /\ \A n \in Nodes : FlightSuffices(n) /\ RoomSuffices(n)
  /\ \A c \in Conns : RebuildSuffices(c) /\ CaptureSuffices(c) /\ TrimSuffices(c)

-----------------------------------------------------------------------------
(* Which steps touch what.                                                 *)

Writes(c) == HandleUpdate(c) \/ HandleMergeFails(c) \/ PersistSave(c) \/ PersistTrim(c)

\* Five kinds of step change the store or the acknowledgements.
LEMMA StepKinds ==
  ASSUME [Next]_vars
  PROVE  (\E c \in Conns : Writes(c) \/ RebuildDone(c)) \/ UNCHANGED <<store, acked>>
<1>1. CASE UNCHANGED vars BY <1>1 DEF vars, store
<1>2. CASE Revoke BY <1>2 DEF Revoke
<1>3. ASSUME NEW n \in Nodes, Grant(n) \/ LoadStep(n) \/ Crash(n) PROVE UNCHANGED <<store, acked>>
  BY <1>3 DEF Grant, LoadStep, LoadFails, LoadResolve, LoadBase, LoadPage, LoadPublish, Crash
<1>4. ASSUME NEW c \in Conns, ConnStep(c)
      PROVE  Writes(c) \/ RebuildDone(c) \/ UNCHANGED <<store, acked>>
  BY <1>4 DEF ConnStep, Writes, OpenLookup, OpenJoin, Attach, HandleRefused, RebuildBase, RebuildPage,
    RebuildFails, PersistCapture, PersistMark, PersistRefused, PersistFails, Revalidate, Close, CloseRemove
<1> QED BY <1>1, <1>2, <1>3, <1>4 DEF Next

\* The types the proofs use.
LEMMA Shapes ==
  ASSUME Inv
  PROVE  /\ \A c \in Conns : /\ conn[c].cap \in Capture /\ conn[c].rec \in Recovery /\ conn[c].offset \in Nat
                             /\ conn[c].room \in Rooms \cup {None} /\ NodeOf[c] \in Nodes
         /\ \A r \in Rooms : room[r] \in Room
         /\ \A n \in Nodes : flight[n].rec \in Recovery /\ flight[n].fence \in Fence \cup {None}
         /\ conn \in [Conns -> ConnRec] /\ room \in [Rooms -> Room]
         /\ flight \in [Nodes -> FlightRec] /\ rooms \in [Nodes -> Rooms \cup {None}]
         /\ snapshot.through \in Nat /\ snapshot.doc \in SUBSET Nat /\ next \in Nat
         /\ log \in SUBSET Record /\ acked \in SUBSET Nat
BY RoomAssumption DEF Inv, TypeOK, Checkpoint, ConnRec, FlightRec, Step

\* A connection that writes does so under the valid fence, from the room its node has
\* in its map; the fence names that node.
LEMMA Writer ==
  ASSUME Inv, DurInv, NEW c \in Conns, Writes(c)
  PROVE  /\ conn[c].room \in Rooms /\ rooms[NodeOf[c]] = conn[c].room
         /\ owner # None /\ RoomOf(c).authority = owner /\ owner.node = NodeOf[c]
         /\ UNCHANGED <<gen, owner>> /\ rooms' = rooms /\ flight' = flight
<1>1. conn[c].at \in Attached /\ FenceHolds(RoomOf(c).authority)
      /\ UNCHANGED <<gen, owner>> /\ rooms' = rooms /\ flight' = flight
  BY DEF Writes, HandleUpdate, HandleMergeFails, PersistSave, PersistTrim, Usable, At, Attached,
    Append, SaveCheckpoint, TrimUpdates
<1>2. conn[c].room \in Rooms BY <1>1 DEF Inv, HasRoom
<1>3. rooms[NodeOf[c]] = conn[c].room BY <1>1 DEF DurInv, Serial, Registered
<1>4. RoomOf(c).authority # None /\ RoomOf(c).authority.node = NodeOf[c]
  BY <1>2, <1>3, RoomAssumption DEF DurInv, Published, RoomOf
<1> QED BY <1>1, <1>2, <1>3, <1>4 DEF FenceHolds

\* A fence that is valid after a step was valid before it.
LEMMA FenceBack ==
  ASSUME Inv, [Next]_vars, NEW f \in Fence \cup {None}, f # None => f.epoch <= gen, FenceHolds(f)'
  PROVE  FenceHolds(f) /\ owner' = owner
<1>0. gen \in Nat /\ \A e \in Fence : e.epoch \in Nat BY DEF Inv, TypeOK, Fence
<1>1. CASE \E n \in Nodes : Grant(n)
  <2>1. owner'.epoch = gen + 1 /\ owner' = f /\ f # None BY <1>1 DEF Grant, FenceHolds
  <2> QED BY <1>0, <2>1
<1>2. CASE Revoke BY <1>2 DEF Revoke, FenceHolds
<1>3. CASE owner' = owner BY <1>3 DEF FenceHolds
<1>4. (\E n \in Nodes : Grant(n)) \/ Revoke \/ owner' = owner
  BY DEF Next, vars, ConnStep, LoadStep, LoadFails, LoadResolve, LoadBase, LoadPage, LoadPublish, Crash,
    OpenLookup, OpenJoin, Attach, HandleUpdate, HandleMergeFails, HandleRefused, RebuildBase, RebuildPage,
    RebuildDone, RebuildFails, PersistCapture, PersistSave, PersistTrim, PersistMark, PersistRefused,
    PersistFails, Revalidate, Close, CloseRemove
<1> QED BY <1>1, <1>2, <1>3, <1>4

\* How a connection comes to be inside a Persist or a rebuild.
LEMMA ConnNow ==
  ASSUME Inv, [Next]_vars, NEW d \in Conns,
         conn'[d].at \in {"save", "trim", "rebuildBase", "rebuildPage"}
  PROVE  \/ conn'[d] = conn[d]
         \/ HandleMergeFails(d) /\ conn'[d] = [conn[d] EXCEPT !.at = "rebuildBase", !.offset = next']
         \/ RebuildBase(d) /\ conn'[d] = [conn[d] EXCEPT !.at = "rebuildPage", !.rec = RecoverBase]
         \/ RebuildPage(d) /\ \E last \in Page(conn[d].rec.through) :
              Replayable(conn[d].rec, last) /\ conn'[d] = [conn[d] EXCEPT !.rec = Replay(conn[d].rec, last)]
         \/ /\ PersistCapture(d)
            /\ conn'[d] = [conn[d] EXCEPT !.at = "save",
                 !.cap = [doc |-> RoomOf(d).doc, lastOffset |-> RoomOf(d).lastOffset,
                          shouldTrim |-> RoomOf(d).lastOffset > RoomOf(d).compactedAt]]
         \/ PersistSave(d) /\ conn'[d] = [conn[d] EXCEPT !.at = "trim"]
<1>0. conn \in [Conns -> ConnRec] BY Shapes
<1>1. conn'[d].at \in Attached BY DEF Attached
<1>2. CASE conn'[d] = conn[d] BY <1>2
<1>3. CASE ConnStep(d)
  <2>1. CASE OpenLookup(d) \/ OpenJoin(d)
    <3>1. conn'[d].at \in {"miss", "attach", "wait"} BY <1>0, <2>1 DEF OpenLookup, OpenJoin, Goto, ConnRec
    <3> QED BY <3>1
  <2>2. CASE Attach(d) \/ Close(d) \/ CloseRemove(d)
    <3>1. conn'[d].at \in {"open", "closed", "remove"}
      BY <1>0, <2>2 DEF Attach, Close, CloseRemove, Closed, ConnRec
    <3> QED BY <3>1
  <2>3. CASE HandleUpdate(d) \/ HandleRefused(d) \/ Revalidate(d)
    BY <2>3 DEF HandleUpdate, HandleRefused, Revalidate
  <2>4. CASE RebuildDone(d) \/ RebuildFails(d) \/ PersistMark(d) \/ PersistRefused(d) \/ PersistFails(d)
    <3>1. conn'[d].at = "open"
      BY <1>0, <2>4 DEF RebuildDone, RebuildFails, PersistMark, PersistRefused, PersistFails, Served, Closed
    <3> QED BY <3>1
  <2>5. CASE HandleMergeFails(d) BY <1>0, <2>5 DEF HandleMergeFails
  <2>6. CASE RebuildBase(d) BY <1>0, <2>6 DEF RebuildBase
  <2>7. CASE RebuildPage(d) BY <1>0, <2>7 DEF RebuildPage
  <2>8. CASE PersistCapture(d) BY <1>0, <2>8 DEF PersistCapture
  <2>9. CASE PersistSave(d)
    <3>1. CASE conn[d].cap.shouldTrim BY <1>0, <2>9, <3>1 DEF PersistSave, Goto
    <3>2. CASE ~conn[d].cap.shouldTrim
      <4>1. conn'[d].at = "open" BY <1>0, <2>9, <3>2 DEF PersistSave, Served, Closed
      <4> QED BY <4>1
    <3> QED BY <3>1, <3>2
  <2>10. CASE PersistTrim(d)
    <3>1. conn'[d].at = "mark" BY <1>0, <2>10 DEF PersistTrim, Goto, ConnRec
    <3> QED BY <3>1
  <2> QED BY <1>3, <2>1, <2>2, <2>3, <2>4, <2>5, <2>6, <2>7, <2>8, <2>9, <2>10 DEF ConnStep
<1>4. conn'[d].at # "attach" OBVIOUS
<1> QED BY <1>1, <1>2, <1>3, <1>4, ConnFrame

\* A rebuild after a step was under way before it, or starts after a failed merge.
LEMMA RebuildNow ==
  ASSUME Inv, [Next]_vars, NEW d \in Conns, d \in Rebuilding'
  PROVE  \/ d \in Rebuilding /\ conn'[d].offset = conn[d].offset /\ conn'[d].room = conn[d].room
         \/ HandleMergeFails(d) /\ conn'[d].offset = next' /\ conn'[d].room = conn[d].room
<1>0. conn[d] \in ConnRec /\ conn'[d].at \in {"rebuildBase", "rebuildPage"}
  BY Shapes DEF Rebuilding
<1>1. CASE conn'[d] = conn[d] BY <1>0, <1>1 DEF Rebuilding
<1>2. CASE HandleMergeFails(d) /\ conn'[d] = [conn[d] EXCEPT !.at = "rebuildBase", !.offset = next']
  BY <1>0, <1>2 DEF ConnRec
<1>3. CASE RebuildBase(d) /\ conn'[d] = [conn[d] EXCEPT !.at = "rebuildPage", !.rec = RecoverBase]
  <2>1. d \in Rebuilding BY <1>3 DEF Rebuilding, RebuildBase, At
  <2>2. conn'[d].offset = conn[d].offset /\ conn'[d].room = conn[d].room BY <1>0, <1>3 DEF ConnRec
  <2> QED BY <2>1, <2>2
<1>4. CASE RebuildPage(d) /\ \E last : conn'[d] = [conn[d] EXCEPT !.rec = Replay(conn[d].rec, last)]
  BY <1>0, <1>4 DEF ConnRec, Rebuilding, RebuildPage, At
<1>5. CASE \E r : conn'[d] = [conn[d] EXCEPT !.at = "save", !.cap = r] BY <1>0, <1>5 DEF ConnRec
<1>6. CASE conn'[d] = [conn[d] EXCEPT !.at = "trim"] BY <1>0, <1>6 DEF ConnRec
<1> QED BY <1>0, <1>1, <1>2, <1>3, <1>4, <1>5, <1>6, ConnNow

\* What is owed grows by an append only.
LEMMA OwedNow ==
  ASSUME Inv, [Next]_vars
  PROVE  \/ Owed' \subseteq Owed
         \/ /\ \E c \in Conns : HandleUpdate(c) \/ HandleMergeFails(c)
            /\ Owed' \subseteq Owed \cup {next'}
<1>1. ASSUME NEW x \in Owed', x \notin Owed
      PROVE  x = next' /\ \E c \in Conns : HandleUpdate(c) \/ HandleMergeFails(c)
  <2>1. CASE x \in acked'
    <3>1. x \notin acked /\ acked' # acked BY <1>1, <2>1 DEF Owed
    <3>2. PICK c \in Conns : Writes(c) \/ RebuildDone(c) BY <3>1, StepKinds
    <3>3. CASE HandleUpdate(c) BY <2>1, <3>1, <3>3 DEF HandleUpdate
    <3>4. CASE RebuildDone(c)
      <4>1. c \in Rebuilding /\ x = conn[c].offset
        BY <2>1, <3>1, <3>4 DEF RebuildDone, Rebuilding, At
      <4> QED BY <1>1, <4>1 DEF Owed
    <3> QED BY <3>1, <3>2, <3>3, <3>4 DEF Writes, HandleMergeFails, PersistSave, PersistTrim
  <2>2. CASE \E d \in Rebuilding' : x = conn'[d].offset
    <3>1. PICK d \in Rebuilding' : x = conn'[d].offset BY <2>2
    <3>2. d \in Conns BY <3>1 DEF Rebuilding
    <3>3. CASE d \in Rebuilding /\ conn'[d].offset = conn[d].offset BY <1>1, <3>1, <3>3 DEF Owed
    <3> QED BY <3>1, <3>2, <3>3, RebuildNow
  <2> QED BY <1>1, <2>1, <2>2 DEF Owed
<1> QED BY <1>1

\* The contents of a registered room change by an update or a rebuild of it, its fence
\* does not change.
LEMMA RoomNow ==
  ASSUME Inv, DurInv, [Next]_vars, NEW n \in Nodes, NEW r \in Rooms, rooms[n] = r
  PROVE  /\ room'[r].authority = room[r].authority
         /\ \/ room'[r].doc = room[r].doc /\ room'[r].lastOffset = room[r].lastOffset
            \/ \E c \in Conns : conn[c].room = r /\ (HandleUpdate(c) \/ RebuildDone(c))
<1> DEFINE Same == /\ room'[r].doc = room[r].doc /\ room'[r].lastOffset = room[r].lastOffset
                   /\ room'[r].authority = room[r].authority
<1>0. room \in [Rooms -> Room] BY Shapes
<1>1. CASE UNCHANGED room BY <1>1
<1>2. ASSUME NEW c \in Conns, Lose(conn[c].room) PROVE Same BY <1>0, <1>2 DEF Lose, Room
<1>3. ASSUME NEW c \in Conns, PersistMark(c) PROVE Same BY <1>0, <1>3 DEF PersistMark, Room
<1>4. ASSUME NEW m \in Nodes, LoadPublish(m) PROVE Same
  <2>1. PICK q \in Rooms : Free(q) /\ room' = [room EXCEPT ![q] = LoadedRoom(m)] BY <1>4 DEF LoadPublish
  <2>2. q # r BY <2>1 DEF Free
  <2> QED BY <1>0, <2>1, <2>2
<1>5. ASSUME NEW c \in Conns, HandleUpdate(c) \/ RebuildDone(c), conn[c].room # r PROVE Same
  BY <1>0, <1>5 DEF HandleUpdate, RebuildDone
<1>7. ASSUME NEW c \in Conns, HandleUpdate(c) \/ RebuildDone(c), conn[c].room = r
      PROVE  room'[r].authority = room[r].authority
  <2>1. room[r] \in Room BY <1>0
  <2>2. CASE HandleUpdate(c)
    <3>1. room'[r] = [room[r] EXCEPT !.doc = room[r].doc \cup {next'}, !.lastOffset = next']
      BY <1>0, <1>7, <2>2 DEF HandleUpdate
    <3> QED BY <2>1, <3>1 DEF Room
  <2>3. CASE RebuildDone(c)
    <3>1. room'[r] = RebuiltRoom(c) BY <1>0, <1>7, <2>3 DEF RebuildDone
    <3> QED BY <1>7, <2>1, <3>1 DEF RebuiltRoom, RoomOf, Room
  <2> QED BY <1>7, <2>2, <2>3
<1>6. \/ UNCHANGED room
      \/ \E c \in Conns : Lose(conn[c].room) \/ PersistMark(c) \/ HandleUpdate(c) \/ RebuildDone(c)
      \/ \E m \in Nodes : LoadPublish(m)
  BY DEF Next, vars, local, ConnStep, LoadStep, Revoke, Grant, LoadFails, LoadResolve, LoadBase, LoadPage, Crash,
    OpenLookup, OpenJoin, Attach, HandleMergeFails, HandleRefused, RebuildBase, RebuildPage,
    RebuildFails, PersistCapture, PersistSave, PersistTrim, PersistRefused,
    PersistFails, Revalidate, Close, CloseRemove
<1> QED BY <1>1, <1>2, <1>3, <1>4, <1>5, <1>6, <1>7

\* A node gets a room by the load's publication, when it had none.
LEMMA RoomsNow ==
  ASSUME Inv, DurInv, [Next]_vars, NEW n \in Nodes
  PROVE  \/ rooms'[n] = rooms[n] \/ rooms'[n] = None
         \/ /\ LoadPublish(n) /\ rooms[n] = None
            /\ \E r \in Rooms : Free(r) /\ rooms'[n] = r /\ room'[r] = LoadedRoom(n)
<1>0. rooms \in [Nodes -> Rooms \cup {None}] /\ room \in [Rooms -> Room] BY Shapes
<1>1. CASE UNCHANGED rooms BY <1>1
<1>2. ASSUME NEW m \in Nodes, LoadPublish(m), rooms'[n] # rooms[n]
      PROVE  m = n /\ rooms[n] = None /\ \E r \in Rooms : Free(r) /\ rooms'[n] = r /\ room'[r] = LoadedRoom(n)
  <2>1. rooms[m] = None BY <1>2 DEF LoadPublish, DurInv, Loading
  <2>2. PICK r \in Rooms : Free(r) /\ room' = [room EXCEPT ![r] = LoadedRoom(m)]
                           /\ rooms' = [rooms EXCEPT ![m] = IF rooms[m] = None THEN r ELSE rooms[m]]
    BY <1>2 DEF LoadPublish
  <2> QED BY <1>0, <1>2, <2>1, <2>2
<1>3. ASSUME NEW c \in Conns, CloseRemove(c) PROVE rooms'[n] = rooms[n] \/ rooms'[n] = None
  BY <1>0, <1>3 DEF CloseRemove
<1>4. ASSUME NEW m \in Nodes, Crash(m) PROVE rooms'[n] = rooms[n] \/ rooms'[n] = None
  BY <1>0, <1>4 DEF Crash
<1>5. \/ UNCHANGED rooms \/ \E m \in Nodes : LoadPublish(m) \/ Crash(m)
      \/ \E c \in Conns : CloseRemove(c)
  BY DEF Next, vars, local, ConnStep, LoadStep, Revoke, Grant, LoadFails, LoadResolve, LoadBase, LoadPage,
    OpenLookup, OpenJoin, Attach, HandleUpdate, HandleMergeFails, HandleRefused, RebuildBase, RebuildPage,
    RebuildDone, RebuildFails, PersistCapture, PersistSave, PersistTrim, PersistMark, PersistRefused,
    PersistFails, Revalidate, Close
<1> QED BY <1>1, <1>2, <1>3, <1>4, <1>5

\* How a load comes to where it is.
LEMMA FlightNow ==
  ASSUME Inv, [Next]_vars, NEW n \in Nodes, flight'[n].at # "none"
  PROVE  \/ flight'[n] = flight[n] /\ ~LoadPublish(n)
         \/ flight'[n].at = "resolve" /\ rooms[n] = None /\ rooms' = rooms
         \/ /\ LoadResolve(n)
            /\ flight'[n].at = "base" /\ flight'[n].fence = owner /\ flight'[n].rec = NoRecovery
         \/ LoadBase(n) /\ flight'[n] = [flight[n] EXCEPT !.at = "page", !.rec = RecoverBase]
         \/ LoadPage(n) /\ \E last \in Page(flight[n].rec.through) :
              Replayable(flight[n].rec, last) /\ flight'[n] = [flight[n] EXCEPT !.rec = Replay(flight[n].rec, last)]
<1>0. flight \in [Nodes -> FlightRec] BY Shapes
<1>a. ~LoadPublish(n)
  <2> SUFFICES ASSUME LoadPublish(n) PROVE FALSE OBVIOUS
  <2>1. flight'[n] = NoFlight BY <1>0 DEF LoadPublish
  <2> QED BY <2>1 DEF NoFlight
<1>1. CASE UNCHANGED flight BY <1>a, <1>1
<1>2. ASSUME NEW m \in Nodes, LoadFails(m) \/ LoadPublish(m) \/ Crash(m) PROVE flight'[n] = flight[n]
  <2>1. flight' = [flight EXCEPT ![m] = NoFlight] BY <1>2 DEF LoadFails, LoadPublish, Crash
  <2>2. m # n BY <1>0, <2>1 DEF NoFlight
  <2> QED BY <1>0, <2>1, <2>2
<1>3. ASSUME NEW m \in Nodes, LoadResolve(m) \/ LoadBase(m) \/ LoadPage(m), m # n PROVE flight'[n] = flight[n]
  BY <1>0, <1>3 DEF LoadResolve, LoadBase, LoadPage
<1>4. CASE LoadResolve(n)
  <2>1. flight'[n] = [at |-> "base", fence |-> owner, rec |-> NoRecovery] BY <1>0, <1>4 DEF LoadResolve
  <2> QED BY <1>4, <2>1
<1>5. CASE LoadBase(n) BY <1>0, <1>5 DEF LoadBase
<1>6. CASE LoadPage(n) BY <1>0, <1>6 DEF LoadPage
<1>7. ASSUME NEW c \in Conns, OpenJoin(c), flight' # flight
      PROVE  \/ flight'[n] = flight[n]
             \/ flight'[n].at = "resolve" /\ rooms[n] = None /\ rooms' = rooms
  <2>1. /\ rooms[NodeOf[c]] = None /\ rooms' = rooms
        /\ flight' = [flight EXCEPT ![NodeOf[c]].at = "resolve"]
    BY <1>7 DEF OpenJoin
  <2>2. CASE NodeOf[c] = n
    <3>1. flight[n] \in FlightRec BY <1>0
    <3>2. flight'[n] = [flight[n] EXCEPT !.at = "resolve"] BY <1>0, <2>1, <2>2
    <3>3. flight'[n].at = "resolve" BY <3>1, <3>2 DEF FlightRec
    <3> QED BY <2>1, <2>2, <3>3
  <2>3. CASE NodeOf[c] # n BY <1>0, <2>1, <2>3
  <2> QED BY <2>2, <2>3
<1>8. \/ UNCHANGED flight
      \/ \E m \in Nodes : LoadFails(m) \/ LoadPublish(m) \/ Crash(m) \/ LoadResolve(m) \/ LoadBase(m) \/ LoadPage(m)
      \/ \E c \in Conns : OpenJoin(c)
  BY DEF Next, vars, local, ConnStep, LoadStep, Revoke, Grant,
    OpenLookup, Attach, HandleUpdate, HandleMergeFails, HandleRefused, RebuildBase, RebuildPage,
    RebuildDone, RebuildFails, PersistCapture, PersistSave, PersistTrim, PersistMark, PersistRefused,
    PersistFails, Revalidate, Close, CloseRemove
<1> QED BY <1>a, <1>1, <1>2, <1>3, <1>4, <1>5, <1>6, <1>7, <1>8

\* A page has every record up to its last one, so a replay skips none.
LEMMA PageComplete ==
  ASSUME Inv, IsFiniteSet(log), NEW rec \in Recovery, NEW last \in Page(rec.through), NEW y \in log,
         y.offset > rec.through, y.offset <= last.offset
  PROVE  y \in Page(rec.through)
<1> DEFINE T == Tail(rec.through)
           Below(z) == {x \in T : x.offset < z.offset}
<1>1. last \in T /\ Cardinality(Below(last)) < PageSize /\ y \in T BY DEF Page, Tail
<1>2. T \subseteq Record BY Shapes DEF Tail
<1>3. y.offset \in Nat /\ last.offset \in Nat /\ \A x \in T : x.offset \in Nat BY <1>1, <1>2 DEF Record
<1>4. Below(y) \subseteq Below(last) BY <1>3
<1>5. IsFiniteSet(T) BY FS_Subset DEF Tail
<1>6. IsFiniteSet(Below(last)) BY <1>5, FS_Subset
<1>7. Cardinality(Below(y)) <= Cardinality(Below(last)) /\ IsFiniteSet(Below(y)) BY <1>4, <1>6, FS_Subset
<1>8. Cardinality(Below(y)) \in Nat /\ Cardinality(Below(last)) \in Nat BY <1>6, <1>7, FS_CardinalityType
<1>9. Cardinality(Below(y)) < PageSize BY <1>1, <1>7, <1>8, RoomAssumption
<1> QED BY <1>1, <1>9 DEF Page

\* A page of the replay keeps a recovery sufficient.
LEMMA ReplaySuffices ==
  ASSUME Inv, Given, NEW rec \in Recovery, NEW last \in Page(rec.through), Suffices(rec.doc, rec.through)
  PROVE  LET q == Replay(rec, last)
         IN  /\ Owed \subseteq Held(q.doc, q.through) /\ snapshot.through <= q.through
             /\ q \in Recovery /\ q.through <= next
<1>1. Replay(rec, last) \in Recovery BY ReplayTyped DEF Inv
<1>2. /\ Replay(rec, last).doc = rec.doc \cup Offsets(Page(rec.through))
      /\ Replay(rec, last).through = last.offset
  BY DEF Replay, Recovery
<1>3. last \in log /\ last.offset > rec.through BY DEF Page, Tail
<1>4. /\ last.offset \in Nat /\ rec.through \in Nat /\ snapshot.through \in Nat /\ next \in Nat
      /\ last.offset <= next
  BY <1>3, Shapes DEF Record, Recovery, Inv, Bounded
<1>5. snapshot.through <= last.offset BY <1>3, <1>4 DEF Suffices
<1>6. ASSUME NEW x \in Owed PROVE x \in rec.doc \cup Offsets(Page(rec.through)) \cup {z \in Offsets(log) : z > last.offset}
  <2>1. CASE x \in rec.doc BY <2>1
  <2>2. CASE x \in Offsets(log) /\ x > rec.through
    <3>1. PICK y \in log : y.offset = x BY <2>2 DEF Offsets
    <3>2. x \in Nat BY <3>1, Shapes DEF Record
    <3>3. CASE x <= last.offset BY <2>2, <3>1, <3>3, PageComplete DEF Given, Offsets
    <3>4. CASE x > last.offset BY <2>2, <3>4
    <3> QED BY <1>4, <3>2, <3>3, <3>4
  <2> QED BY <2>1, <2>2 DEF Suffices, Held
<1> QED BY <1>1, <1>2, <1>4, <1>5, <1>6 DEF Held

-----------------------------------------------------------------------------
(* What a step does to the store, and to what is owed.                     *)

Steady == snapshot' = snapshot /\ log' = log /\ next' = next /\ Owed' \subseteq Owed

Grew ==
  /\ snapshot' = snapshot /\ next' = next + 1 /\ Owed' \subseteq Owed \cup {next'}
  /\ \E f : log' = log \cup {[offset |-> next + 1, epoch |-> f]}

\* With the store unchanged, nothing more is owed.
LEMMA Resting ==
  ASSUME Inv, [Next]_vars, UNCHANGED store
  PROVE  Steady
<1>1. next \in Nat /\ next' = next BY Shapes DEF store
<1>2. ASSUME NEW c \in Conns, HandleUpdate(c) \/ HandleMergeFails(c) PROVE FALSE
  <2>1. next' = next + 1 BY <1>2 DEF HandleUpdate, HandleMergeFails, Append
  <2> QED BY <1>1, <2>1
<1> QED BY <1>1, <1>2, OwedNow DEF Steady, store

\* The store's writes, by who makes them.
LEMMA StoreNow ==
  ASSUME Inv, [Next]_vars
  PROVE  \/ Steady
         \/ Grew /\ \E c \in Conns : HandleUpdate(c) \/ HandleMergeFails(c)
         \/ /\ log' = log /\ next' = next /\ Owed' \subseteq Owed
            /\ \E c \in Conns : /\ PersistSave(c) /\ snapshot'.doc = conn[c].cap.doc
                                /\ snapshot'.through = conn[c].cap.lastOffset
         \/ /\ snapshot' = snapshot /\ next' = next /\ Owed' \subseteq Owed
            /\ \E c \in Conns : PersistTrim(c) /\ log' = {x \in log : x.offset > conn[c].cap.lastOffset}
<1>0. next \in Nat BY Shapes
<1>1. CASE UNCHANGED store BY <1>1, Resting
<1>2. ASSUME NEW c \in Conns, HandleUpdate(c) \/ HandleMergeFails(c) PROVE Grew
  <2>1. Append(RoomOf(c).authority) BY <1>2 DEF HandleUpdate, HandleMergeFails
  <2>2. Owed' \subseteq Owed \cup {next'} BY OwedNow
  <2> QED BY <2>1, <2>2 DEF Append, Grew
<1>a. ASSUME next' = next PROVE Owed' \subseteq Owed
  <2>1. ASSUME NEW c \in Conns, HandleUpdate(c) \/ HandleMergeFails(c) PROVE FALSE
    <3>1. next' = next + 1 BY <2>1 DEF HandleUpdate, HandleMergeFails, Append
    <3> QED BY <1>0, <1>a, <3>1
  <2> QED BY <2>1, OwedNow
<1>3. ASSUME NEW c \in Conns, PersistSave(c)
      PROVE  /\ log' = log /\ next' = next /\ snapshot'.doc = conn[c].cap.doc
             /\ snapshot'.through = conn[c].cap.lastOffset
  BY <1>3 DEF PersistSave, SaveCheckpoint
<1>4. ASSUME NEW c \in Conns, PersistTrim(c)
      PROVE  /\ snapshot' = snapshot /\ next' = next
             /\ log' = {x \in log : x.offset > conn[c].cap.lastOffset}
  BY <1>4 DEF PersistTrim, TrimUpdates
<1>5. ASSUME NEW c \in Conns, RebuildDone(c) PROVE UNCHANGED store BY <1>5 DEF RebuildDone
<1> QED BY <1>1, <1>2, <1>a, <1>3, <1>4, <1>5, StepKinds DEF Writes

\* What suffices still does when nothing is written, and when an update is appended.
LEMMA SufficesKept ==
  ASSUME Inv, NEW doc, NEW through \in Nat, through <= next, Suffices(doc, through), Steady \/ Grew
  PROVE  Suffices(doc, through)'
<1>0. next \in Nat BY Shapes
<1>1. CASE Steady BY <1>1 DEF Steady, Suffices, Held, Offsets
<1>2. CASE Grew
  <2>1. PICK f : log' = log \cup {[offset |-> next + 1, epoch |-> f]} BY <1>2 DEF Grew
  <2>2. Offsets(log)' = Offsets(log) \cup {next + 1}
    <3> DEFINE new == [offset |-> next + 1, epoch |-> f]
    <3>1. new.offset = next + 1 OBVIOUS
    <3> HIDE DEF new
    <3>2. {x.offset : x \in log \cup {new}} = {x.offset : x \in log} \cup {next + 1} BY <3>1
    <3> QED BY <2>1, <3>2 DEF Offsets, new
  <2>3. next' = next + 1 /\ next + 1 > through /\ Owed' \subseteq Owed \cup {next + 1} /\ snapshot' = snapshot
    BY <1>0, <1>2 DEF Grew
  <2>4. Owed' \subseteq Held(doc, through)' BY <2>2, <2>3 DEF Suffices, Held
  <2> QED BY <2>3, <2>4 DEF Suffices
<1> QED BY <1>1, <1>2

\* A document without a tail behind it has everything itself.
LEMMA TailGone ==
  ASSUME Inv, NEW doc, NEW through \in Nat, Suffices(doc, through), Tail(through) = {}
  PROVE  Owed \subseteq doc
<1>1. \A x \in Offsets(log) : ~(x > through) BY DEF Offsets, Tail
<1> QED BY <1>1 DEF Suffices, Held

-----------------------------------------------------------------------------
(* The parts of the invariant.                                             *)

\* Rooms in the map keep their fences, and loads publish under their own.
LEMMA PublishedKept == ASSUME Inv, DurInv, [Next]_vars PROVE Published'
<1> SUFFICES ASSUME NEW n \in Nodes, rooms'[n] # None
             PROVE  room'[rooms'[n]].authority # None /\ room'[rooms'[n]].authority.node = n
  BY DEF Published
<1>1. CASE rooms'[n] = rooms[n]
  <2>1. rooms[n] \in Rooms BY <1>1, Shapes
  <2>2. room'[rooms[n]].authority = room[rooms[n]].authority BY <2>1, RoomNow
  <2> QED BY <1>1, <2>2 DEF DurInv, Published
<1>2. CASE LoadPublish(n) /\ \E r \in Rooms : rooms'[n] = r /\ room'[r] = LoadedRoom(n)
  <2>1. flight[n].at = "page" BY <1>2 DEF LoadPublish
  <2>2. flight[n].fence # None /\ flight[n].fence.node = n BY <2>1 DEF DurInv, Loading
  <2>3. LoadedRoom(n).authority = flight[n].fence BY DEF LoadedRoom
  <2> QED BY <1>2, <2>2, <2>3
<1> QED BY <1>1, <1>2, RoomsNow

\* A node has one load or one room.
LEMMA LoadingKept == ASSUME Inv, DurInv, [Next]_vars PROVE Loading'
<1> SUFFICES ASSUME NEW n \in Nodes, flight'[n].at # "none"
             PROVE  /\ rooms'[n] = None
                    /\ flight'[n].at \in {"base", "page"} => flight'[n].fence # None /\ flight'[n].fence.node = n
  BY DEF Loading
<1>0. flight[n] \in FlightRec BY Shapes
<1>1. CASE flight'[n] = flight[n] /\ ~LoadPublish(n)
  <2>1. rooms[n] = None BY <1>1 DEF DurInv, Loading
  <2> QED BY <1>1, <2>1, RoomsNow DEF DurInv, Loading
<1>2. CASE flight'[n].at = "resolve" /\ rooms[n] = None /\ rooms' = rooms BY <1>2
<1>3. CASE LoadResolve(n) /\ flight'[n].fence = owner
  <2>1. flight[n].at # "none" /\ rooms' = rooms /\ owner # None /\ owner.node = n BY <1>3 DEF LoadResolve
  <2> QED BY <1>3, <2>1 DEF DurInv, Loading
<1>4. CASE LoadBase(n) /\ flight'[n] = [flight[n] EXCEPT !.at = "page", !.rec = RecoverBase]
  <2>1. flight[n].at = "base" /\ rooms' = rooms BY <1>4 DEF LoadBase
  <2>2. flight'[n].fence = flight[n].fence BY <1>0, <1>4 DEF FlightRec
  <2> QED BY <2>1, <2>2 DEF DurInv, Loading
<1>5. CASE LoadPage(n) /\ \E last : flight'[n] = [flight[n] EXCEPT !.rec = Replay(flight[n].rec, last)]
  <2>1. flight[n].at = "page" /\ rooms' = rooms BY <1>5 DEF LoadPage
  <2>2. flight'[n].fence = flight[n].fence BY <1>0, <1>5 DEF FlightRec
  <2> QED BY <2>1, <2>2 DEF DurInv, Loading
<1> QED BY <1>1, <1>2, <1>3, <1>4, <1>5, FlightNow

\* A room's offset is its own, the newest one, or that of a recovery.
LEMMA RoomOffsetNow ==
  ASSUME Inv, [Next]_vars, NEW r \in Rooms
  PROVE  \/ room'[r].lastOffset = room[r].lastOffset \/ room'[r].lastOffset = next'
         \/ \E c \in Conns : RebuildDone(c) /\ room'[r].lastOffset = Larger(conn[c].rec.through, conn[c].offset)
         \/ \E n \in Nodes : flight[n].at = "page" /\ room'[r].lastOffset = flight[n].rec.through
<1>0. room \in [Rooms -> Room] /\ room[r] \in Room BY Shapes
<1>1. CASE UNCHANGED room BY <1>1
<1>2. ASSUME NEW c \in Conns, Lose(conn[c].room) \/ PersistMark(c) PROVE room'[r].lastOffset = room[r].lastOffset
  <2>1. CASE Lose(conn[c].room) BY <1>0, <2>1 DEF Lose, Room
  <2>2. CASE PersistMark(c) BY <1>0, <2>2 DEF PersistMark, Room
  <2> QED BY <1>2, <2>1, <2>2
<1>3. ASSUME NEW n \in Nodes, LoadPublish(n)
      PROVE  \/ room'[r].lastOffset = room[r].lastOffset
             \/ flight[n].at = "page" /\ room'[r].lastOffset = flight[n].rec.through
  <2>1. PICK q \in Rooms : room' = [room EXCEPT ![q] = LoadedRoom(n)] BY <1>3 DEF LoadPublish
  <2>2. LoadedRoom(n).lastOffset = flight[n].rec.through /\ flight[n].at = "page"
    BY <1>3 DEF LoadedRoom, LoadPublish
  <2> QED BY <1>0, <2>1, <2>2
<1>4. ASSUME NEW c \in Conns, HandleUpdate(c)
      PROVE  room'[r].lastOffset = room[r].lastOffset \/ room'[r].lastOffset = next'
  <2>1. CASE conn[c].room = r
    <3>1. room'[r] = [room[r] EXCEPT !.doc = room[r].doc \cup {next'}, !.lastOffset = next']
      BY <1>0, <1>4, <2>1 DEF HandleUpdate
    <3> QED BY <1>0, <3>1 DEF Room
  <2>2. CASE conn[c].room # r BY <1>0, <1>4, <2>2 DEF HandleUpdate
  <2> QED BY <2>1, <2>2
<1>5. ASSUME NEW c \in Conns, RebuildDone(c)
      PROVE  \/ room'[r].lastOffset = room[r].lastOffset
             \/ room'[r].lastOffset = Larger(conn[c].rec.through, conn[c].offset)
  <2>1. CASE conn[c].room = r
    <3>1. room'[r] = RebuiltRoom(c) BY <1>0, <1>5, <2>1 DEF RebuildDone
    <3> QED BY <1>0, <2>1, <3>1 DEF RebuiltRoom, RoomOf, Room
  <2>2. CASE conn[c].room # r BY <1>0, <1>5, <2>2 DEF RebuildDone
  <2> QED BY <2>1, <2>2
<1>6. \/ UNCHANGED room
      \/ \E c \in Conns : Lose(conn[c].room) \/ PersistMark(c) \/ HandleUpdate(c) \/ RebuildDone(c)
      \/ \E m \in Nodes : LoadPublish(m)
  BY DEF Next, vars, local, ConnStep, LoadStep, Revoke, Grant, LoadFails, LoadResolve, LoadBase, LoadPage, Crash,
    OpenLookup, OpenJoin, Attach, HandleMergeFails, HandleRefused, RebuildBase, RebuildPage,
    RebuildFails, PersistCapture, PersistSave, PersistTrim, PersistRefused,
    PersistFails, Revalidate, Close, CloseRemove
<1> QED BY <1>1, <1>2, <1>3, <1>4, <1>5, <1>6

\* Offsets that are carried around stay below the last one given out.
LEMMA GivenKept == ASSUME Inv, DurInv, [Next]_vars PROVE Given'
<1>0. next \in Nat /\ snapshot.through \in Nat /\ log \in SUBSET Record BY Shapes
<1>a. Given BY DEF DurInv
<1>1. next' \in Nat /\ next <= next' BY <1>0, StoreNow DEF Steady, Grew
<1>2. \A x \in Nat : x <= next => x <= next' BY <1>0, <1>1
<1>3. IsFiniteSet(log')
  <2>1. CASE log' = log BY <1>a, <2>1 DEF Given
  <2>2. CASE Grew
    <3>1. PICK f : log' = log \cup {[offset |-> next + 1, epoch |-> f]} BY <2>2 DEF Grew
    <3> QED BY <1>a, <3>1, FS_AddElement DEF Given
  <2>3. CASE log' \subseteq log BY <1>a, <2>3, FS_Subset DEF Given
  <2> QED BY <2>1, <2>2, <2>3, StoreNow DEF Steady
<1>4. snapshot'.through <= next'
  <2>1. CASE snapshot' = snapshot BY <1>0, <1>2, <1>a, <2>1 DEF Given
  <2>2. ASSUME NEW c \in Conns, PersistSave(c), snapshot'.through = conn[c].cap.lastOffset
        PROVE  snapshot'.through <= next'
    <3>1. conn[c].cap.lastOffset <= next BY <1>a, <2>2 DEF PersistSave, At, Given
    <3>2. conn[c].cap.lastOffset \in Nat BY Shapes DEF Capture
    <3> QED BY <1>2, <2>2, <3>1, <3>2
  <2> QED BY <2>1, <2>2, StoreNow DEF Steady, Grew
<1>5. ASSUME NEW r \in Rooms PROVE room'[r].lastOffset <= next'
  <2>1. CASE room'[r].lastOffset = room[r].lastOffset
    <3>1. room[r].lastOffset \in Nat BY Shapes DEF Room
    <3> QED BY <1>2, <1>a, <2>1, <3>1 DEF Given
  <2>2. CASE room'[r].lastOffset = next' BY <1>1, <2>2
  <2>3. ASSUME NEW c \in Conns, RebuildDone(c), room'[r].lastOffset = Larger(conn[c].rec.through, conn[c].offset)
        PROVE  room'[r].lastOffset <= next'
    <3>1. conn[c].at = "rebuildPage" BY <2>3 DEF RebuildDone, At
    <3>2. c \in Rebuilding BY <3>1 DEF Rebuilding
    <3>3. conn[c].rec.through <= next /\ conn[c].offset <= next BY <1>a, <3>1, <3>2 DEF Given
    <3>4. conn[c].rec.through \in Nat /\ conn[c].offset \in Nat BY Shapes DEF Recovery
    <3> QED BY <1>2, <2>3, <3>3, <3>4 DEF Larger
  <2>4. ASSUME NEW n \in Nodes, flight[n].at = "page", room'[r].lastOffset = flight[n].rec.through
        PROVE  room'[r].lastOffset <= next'
    <3>1. flight[n].rec.through \in Nat BY Shapes DEF Recovery
    <3> QED BY <1>2, <1>a, <2>4, <3>1 DEF Given
  <2> QED BY <2>1, <2>2, <2>3, <2>4, RoomOffsetNow
<1>6. ASSUME NEW rec \in Recovery, NEW last \in Page(rec.through)
      PROVE  Replay(rec, last).through <= next'
  <2>1. Replay(rec, last).through = last.offset /\ last \in log BY DEF Replay, Recovery, Page, Tail
  <2>2. last.offset \in Nat /\ last.offset <= next BY <1>0, <2>1 DEF Record, Inv, Bounded
  <2> QED BY <1>2, <2>1, <2>2
<1>7. RecoverBase.through <= next' BY <1>0, <1>2, <1>a DEF RecoverBase, Given
<1>8. ASSUME NEW n \in Nodes, flight'[n].at = "page" PROVE flight'[n].rec.through <= next'
  <2>0. flight[n] \in FlightRec /\ flight[n].rec \in Recovery /\ flight[n].rec.through \in Nat
    BY Shapes DEF Recovery
  <2>1. CASE flight'[n] = flight[n] BY <1>2, <1>8, <1>a, <2>0, <2>1 DEF Given
  <2>2. CASE flight'[n] = [flight[n] EXCEPT !.at = "page", !.rec = RecoverBase]
    <3>1. flight'[n].rec = RecoverBase BY <2>0, <2>2 DEF FlightRec
    <3> QED BY <1>7, <3>1
  <2>3. ASSUME NEW last \in Page(flight[n].rec.through),
               flight'[n] = [flight[n] EXCEPT !.rec = Replay(flight[n].rec, last)]
        PROVE  flight'[n].rec.through <= next'
    <3>1. flight'[n].rec = Replay(flight[n].rec, last) BY <2>0, <2>3 DEF FlightRec
    <3> QED BY <1>6, <2>0, <3>1
  <2> QED BY <1>8, <2>1, <2>2, <2>3, FlightNow
<1>9. ASSUME NEW c \in Conns
      PROVE  /\ conn'[c].at \in {"save", "trim"} => conn'[c].cap.lastOffset <= next'
             /\ conn'[c].at = "rebuildPage" => conn'[c].rec.through <= next'
             /\ c \in Rebuilding' => conn'[c].offset <= next'
  <2>0. /\ conn[c] \in ConnRec /\ conn[c].cap.lastOffset \in Nat /\ conn[c].rec.through \in Nat
        /\ conn[c].offset \in Nat /\ conn[c].rec \in Recovery
    BY Shapes DEF Recovery, Capture
  <2>1. ASSUME c \in Rebuilding' PROVE conn'[c].offset <= next'
    <3>1. CASE c \in Rebuilding /\ conn'[c].offset = conn[c].offset BY <1>2, <1>a, <2>0, <3>1 DEF Given
    <3>2. CASE conn'[c].offset = next' BY <1>1, <3>2
    <3> QED BY <2>1, <3>1, <3>2, RebuildNow
  <2>2. ASSUME conn'[c].at = "rebuildPage" PROVE conn'[c].rec.through <= next'
    <3>1. CASE conn'[c] = conn[c] BY <1>2, <1>a, <2>0, <2>2, <3>1 DEF Given
    <3>2. CASE conn'[c] = [conn[c] EXCEPT !.at = "rebuildPage", !.rec = RecoverBase]
      <4>1. conn'[c].rec = RecoverBase BY <2>0, <3>2 DEF ConnRec
      <4> QED BY <1>7, <4>1
    <3>3. ASSUME NEW last \in Page(conn[c].rec.through),
                 conn'[c] = [conn[c] EXCEPT !.rec = Replay(conn[c].rec, last)]
          PROVE  conn'[c].rec.through <= next'
      <4>1. conn'[c].rec = Replay(conn[c].rec, last) BY <2>0, <3>3 DEF ConnRec
      <4> QED BY <1>6, <2>0, <4>1
    <3>4. CASE conn'[c] = [conn[c] EXCEPT !.at = "rebuildBase", !.offset = next']
      BY <2>0, <2>2, <3>4 DEF ConnRec
    <3>5. CASE \E k : conn'[c] = [conn[c] EXCEPT !.at = "save", !.cap = k] BY <2>0, <2>2, <3>5 DEF ConnRec
    <3>6. CASE conn'[c] = [conn[c] EXCEPT !.at = "trim"] BY <2>0, <2>2, <3>6 DEF ConnRec
    <3> QED BY <2>2, <3>1, <3>2, <3>3, <3>4, <3>5, <3>6, ConnNow
  <2>3. ASSUME conn'[c].at \in {"save", "trim"} PROVE conn'[c].cap.lastOffset <= next'
    <3>1. CASE conn'[c] = conn[c] BY <1>2, <1>a, <2>0, <2>3, <3>1 DEF Given
    <3>2. CASE PersistSave(c) /\ conn'[c] = [conn[c] EXCEPT !.at = "trim"]
      <4>1. conn'[c].cap = conn[c].cap /\ conn[c].at = "save" BY <2>0, <3>2 DEF ConnRec, PersistSave, At
      <4> QED BY <1>2, <1>a, <2>0, <4>1 DEF Given
    <3>3. CASE /\ PersistCapture(c)
               /\ conn'[c] = [conn[c] EXCEPT !.at = "save",
                    !.cap = [doc |-> RoomOf(c).doc, lastOffset |-> RoomOf(c).lastOffset,
                             shouldTrim |-> RoomOf(c).lastOffset > RoomOf(c).compactedAt]]
      <4>1. conn'[c].cap.lastOffset = RoomOf(c).lastOffset BY <2>0, <3>3 DEF ConnRec
      <4>2. conn[c].at = "open" BY <3>3 DEF PersistCapture, Usable, At
      <4>3. conn[c].room \in Rooms BY <4>2 DEF Inv, HasRoom, Attached
      <4>4. RoomOf(c).lastOffset \in Nat /\ RoomOf(c).lastOffset <= next
        BY <1>a, <4>3, Shapes DEF RoomOf, Room, Given
      <4> QED BY <1>2, <4>1, <4>4
    <3>4. CASE RebuildBase(c) /\ conn'[c] = [conn[c] EXCEPT !.at = "rebuildPage", !.rec = RecoverBase]
      BY <2>0, <2>3, <3>4 DEF ConnRec
    <3>5. CASE RebuildPage(c) /\ \E last : conn'[c] = [conn[c] EXCEPT !.rec = Replay(conn[c].rec, last)]
      <4>1. conn'[c].at = conn[c].at /\ conn[c].at = "rebuildPage" BY <2>0, <3>5 DEF ConnRec, RebuildPage, At
      <4> QED BY <2>3, <4>1
    <3>6. CASE conn'[c] = [conn[c] EXCEPT !.at = "rebuildBase", !.offset = next']
      BY <2>0, <2>3, <3>6 DEF ConnRec
    <3> QED BY <2>3, <3>1, <3>2, <3>3, <3>4, <3>5, <3>6, ConnNow
  <2> QED BY <2>1, <2>2, <2>3
<1> QED BY <1>3, <1>4, <1>5, <1>8, <1>9 DEF Given

\* What is owed can be recovered.
LEMMA DurableKept == ASSUME Inv, DurInv, [Next]_vars PROVE Durable'
<1>0. snapshot.through \in Nat /\ next \in Nat /\ log \in SUBSET Record BY Shapes
<1>1. CASE Steady BY <1>1 DEF Steady, DurInv, Durable, Recoverable, Offsets
<1>2. CASE Grew
  <2>1. Suffices(snapshot.doc, snapshot.through) BY <1>0 DEF DurInv, Durable, Recoverable, Suffices, Held
  <2>2. PICK d, t : d = snapshot.doc /\ t = snapshot.through OBVIOUS
  <2>3. Suffices(d, t)' BY <1>0, <1>2, <2>1, <2>2, SufficesKept DEF DurInv, Given
  <2>4. snapshot' = snapshot BY <1>2 DEF Grew
  <2> QED BY <2>2, <2>3, <2>4 DEF Durable, Recoverable, Suffices, Held
<1>3. ASSUME NEW c \in Conns, PersistSave(c), snapshot'.doc = conn[c].cap.doc,
             snapshot'.through = conn[c].cap.lastOffset, log' = log, Owed' \subseteq Owed
      PROVE  Durable'
  <2>1. conn[c].at = "save" /\ FenceHolds(RoomOf(c).authority) BY <1>3 DEF PersistSave, At, SaveCheckpoint
  <2>2. Owed \subseteq Held(conn[c].cap.doc, conn[c].cap.lastOffset)
    BY <2>1 DEF DurInv, CaptureSuffices, Suffices
  <2> QED BY <1>3, <2>2 DEF Durable, Recoverable, Held, Offsets
<1>4. ASSUME NEW c \in Conns, PersistTrim(c), log' = {x \in log : x.offset > conn[c].cap.lastOffset},
             snapshot' = snapshot, Owed' \subseteq Owed
      PROVE  Durable'
  <2>1. conn[c].at = "trim" /\ FenceHolds(RoomOf(c).authority) BY <1>4 DEF PersistTrim, At, TrimUpdates
  <2>2. snapshot.through = conn[c].cap.lastOffset BY <2>1 DEF DurInv, TrimSuffices
  <2>3. ASSUME NEW x \in Offsets(log), x > snapshot.through PROVE x \in Offsets(log')
    BY <1>4, <2>2, <2>3 DEF Offsets
  <2>4. Owed \subseteq Recoverable BY DEF DurInv, Durable
  <2> QED BY <1>4, <2>3, <2>4 DEF Durable, Recoverable
<1> QED BY <1>1, <1>2, <1>3, <1>4, StoreNow

\* Only the node whose fence is valid writes.
LEMMA OthersQuiet ==
  ASSUME Inv, DurInv, [Next]_vars, NEW n \in Nodes, owner # None, owner.node = n,
         \A c \in Conns : NodeOf[c] = n => ~Writes(c)
  PROVE  Steady
<1>1. \A c \in Conns : ~Writes(c) BY Writer
<1> QED BY <1>1, StoreNow DEF Writes

\* A load under the valid fence misses nothing: nobody writes meanwhile.
LEMMA FlightKept == ASSUME Inv, DurInv, [Next]_vars, NEW n \in Nodes PROVE FlightSuffices(n)'
<1> SUFFICES ASSUME flight'[n].at = "page", FenceHolds(flight[n].fence)'
             PROVE  Suffices(flight[n].rec.doc, flight[n].rec.through)'
  BY DEF FlightSuffices
<1>0. /\ flight[n] \in FlightRec /\ flight[n].rec \in Recovery /\ flight[n].fence \in Fence \cup {None}
      /\ flight[n].rec.through \in Nat /\ snapshot.through \in Nat
  BY Shapes DEF Recovery
<1>1. CASE flight'[n].fence = flight[n].fence
  <2>1. PICK f \in Fence \cup {None} : f = flight[n].fence BY <1>0
  <2>2. FenceHolds(f)' BY <1>1, <2>1 DEF FenceHolds
  <2>3. f # None => f.epoch <= gen BY <2>1 DEF Inv, Bounded
  <2>4. FenceHolds(f) /\ owner' = owner BY <2>2, <2>3, FenceBack
  <2>5. owner = flight[n].fence /\ owner # None BY <2>1, <2>4 DEF FenceHolds
  <2>6. CASE flight'[n] = flight[n]
    <3>1. rooms[n] = None /\ flight[n].fence.node = n BY <2>6 DEF DurInv, Loading
    <3>2. \A c \in Conns : NodeOf[c] = n => ~Writes(c)
      <4> SUFFICES ASSUME NEW c \in Conns, NodeOf[c] = n, Writes(c) PROVE FALSE OBVIOUS
      <4> QED BY <3>1, Writer, RoomAssumption
    <3>3. Steady BY <2>5, <3>1, <3>2, OthersQuiet
    <3>4. PICK d, t : d = flight[n].rec.doc /\ t = flight[n].rec.through OBVIOUS
    <3>5. Suffices(d, t) /\ t \in Nat /\ t <= next
      BY <1>0, <2>1, <2>4, <2>6, <3>4 DEF DurInv, FlightSuffices, Given
    <3>6. Suffices(d, t)' BY <3>3, <3>5, SufficesKept
    <3> QED BY <2>6, <3>4, <3>6 DEF Suffices, Held
  <2>7. CASE LoadBase(n) /\ flight'[n] = [flight[n] EXCEPT !.at = "page", !.rec = RecoverBase]
    <3>1. Steady BY <2>7, Resting DEF LoadBase
    <3>2. flight'[n].rec = RecoverBase BY <1>0, <2>7 DEF FlightRec
    <3>3. flight'[n].rec.doc = snapshot.doc /\ flight'[n].rec.through = snapshot.through
      BY <3>2 DEF RecoverBase
    <3>4. Owed \subseteq Held(snapshot.doc, snapshot.through) BY DEF DurInv, Durable, Recoverable, Held
    <3> QED BY <1>0, <3>1, <3>3, <3>4 DEF Steady, Suffices, Held, Offsets
  <2>8. ASSUME LoadPage(n), NEW last \in Page(flight[n].rec.through),
               flight'[n] = [flight[n] EXCEPT !.rec = Replay(flight[n].rec, last)]
        PROVE  Suffices(flight[n].rec.doc, flight[n].rec.through)'
    <3>1. Steady BY <2>8, Resting DEF LoadPage
    <3>2. flight'[n].rec = Replay(flight[n].rec, last) BY <1>0, <2>8 DEF FlightRec
    <3>3. Suffices(flight[n].rec.doc, flight[n].rec.through)
      BY <2>1, <2>4, <2>8 DEF DurInv, FlightSuffices, LoadPage
    <3>4. /\ Owed \subseteq Held(flight'[n].rec.doc, flight'[n].rec.through)
          /\ snapshot.through <= flight'[n].rec.through
      BY <1>0, <2>8, <3>2, <3>3, ReplaySuffices DEF DurInv
    <3> QED BY <3>1, <3>4 DEF Steady, Suffices, Held, Offsets
  <2> QED BY <2>6, <2>7, <2>8, FlightNow
<1>2. CASE flight'[n].fence # flight[n].fence
  <2>1. CASE flight'[n] = [flight[n] EXCEPT !.at = "page", !.rec = RecoverBase]
    BY <1>0, <1>2, <2>1 DEF FlightRec
  <2>2. CASE \E q : flight'[n] = [flight[n] EXCEPT !.rec = q] BY <1>0, <1>2, <2>2 DEF FlightRec
  <2> QED BY <1>2, <2>1, <2>2, FlightNow
<1> QED BY <1>1, <1>2

\* The fence of a room that a connection uses: the room is its node's.
LEMMA UsedRoom ==
  ASSUME Inv, DurInv, [Next]_vars, NEW c \in Conns, conn[c].at \in Attached,
         conn'[c].room = conn[c].room, FenceHolds(RoomOf(c).authority)'
  PROVE  /\ conn[c].room \in Rooms /\ rooms[NodeOf[c]] = conn[c].room /\ NodeOf[c] \in Nodes
         /\ owner # None /\ owner.node = NodeOf[c] /\ owner' = owner
         /\ FenceHolds(RoomOf(c).authority)
<1>1. conn[c].room \in Rooms /\ rooms[NodeOf[c]] = conn[c].room /\ NodeOf[c] \in Nodes
  BY Shapes DEF Inv, HasRoom, DurInv, Serial, Registered
<1>2. room'[conn[c].room].authority = room[conn[c].room].authority BY <1>1, RoomNow
<1>3. PICK f \in Fence \cup {None} : f = RoomOf(c).authority BY <1>1, Shapes DEF RoomOf, Room
<1>4. FenceHolds(f)' BY <1>2, <1>3 DEF FenceHolds, RoomOf
<1>5. f # None => f.epoch <= gen BY <1>1, <1>3 DEF RoomOf, Inv, Bounded
<1>6. FenceHolds(f) /\ owner' = owner BY <1>4, <1>5, FenceBack
<1>7. f.node = NodeOf[c] BY <1>1, <1>3, RoomAssumption DEF DurInv, Published, RoomOf
<1> QED BY <1>1, <1>3, <1>6, <1>7 DEF FenceHolds

\* Two connections that use one room are at one node.
LEMMA SameNode ==
  ASSUME Inv, DurInv, NEW c \in Conns, NEW d \in Conns, conn[c].at \in Attached, conn[d].at \in Attached,
         conn[c].room = conn[d].room
  PROVE  NodeOf[c] = NodeOf[d]
<1>1. conn[c].room \in Rooms /\ rooms[NodeOf[c]] = conn[c].room /\ rooms[NodeOf[d]] = conn[c].room
      /\ NodeOf[c] \in Nodes /\ NodeOf[d] \in Nodes
  BY Shapes DEF Inv, HasRoom, DurInv, Serial, Registered
<1> QED BY <1>1, RoomAssumption DEF DurInv, Published

\* A rebuild under the valid fence misses nothing: its room is locked and no Persist runs.
LEMMA RebuildKept == ASSUME Inv, DurInv, [Next]_vars, NEW c \in Conns PROVE RebuildSuffices(c)'
<1> SUFFICES ASSUME conn'[c].at = "rebuildPage", FenceHolds(RoomOf(c).authority)'
             PROVE  Suffices(conn[c].rec.doc, conn[c].rec.through)'
  BY DEF RebuildSuffices
<1>0. conn[c] \in ConnRec /\ conn[c].rec \in Recovery /\ conn[c].rec.through \in Nat /\ snapshot.through \in Nat
  BY Shapes DEF Recovery
<1>1. CASE conn'[c] = conn[c]
  <2>1. conn[c].at = "rebuildPage" BY <1>1
  <2>2. conn[c].at \in Attached /\ c \in Rebuilding BY <2>1 DEF Attached, Rebuilding
  <2>3. /\ NodeOf[c] \in Nodes /\ owner # None /\ owner.node = NodeOf[c]
        /\ rooms[NodeOf[c]] = conn[c].room /\ FenceHolds(RoomOf(c).authority)
    BY <1>1, <2>2, UsedRoom
  <2>4. ASSUME NEW d \in Conns, NodeOf[d] = NodeOf[c], Writes(d) PROVE FALSE
    <3>1. conn[d].room = conn[c].room BY <2>3, <2>4, Writer
    <3>2. CASE HandleUpdate(d) \/ HandleMergeFails(d)
      <4>1. Unlocked(conn[d].room) BY <3>2 DEF HandleUpdate, HandleMergeFails, Usable
      <4> QED BY <2>1, <3>1, <4>1 DEF Unlocked
    <3>3. CASE PersistSave(d) \/ PersistTrim(d)
      <4>1. d \in Persisting BY <3>3 DEF PersistSave, PersistTrim, At, Persisting
      <4> QED BY <2>2, <2>4, <4>1 DEF DurInv, Serial, QuietRebuild
    <3> QED BY <2>4, <3>2, <3>3 DEF Writes
  <2>5. Steady BY <2>3, <2>4, OthersQuiet
  <2>6. PICK e, t : e = conn[c].rec.doc /\ t = conn[c].rec.through OBVIOUS
  <2>7. Suffices(e, t) /\ t \in Nat /\ t <= next
    BY <1>0, <2>1, <2>3, <2>6 DEF DurInv, RebuildSuffices, Given
  <2>8. Suffices(e, t)' BY <2>5, <2>7, SufficesKept
  <2> QED BY <1>1, <2>6, <2>8 DEF Suffices, Held
<1>2. CASE RebuildBase(c) /\ conn'[c] = [conn[c] EXCEPT !.at = "rebuildPage", !.rec = RecoverBase]
  <2>1. Steady BY <1>2, Resting DEF RebuildBase
  <2>2. conn'[c].rec = RecoverBase BY <1>0, <1>2 DEF ConnRec
  <2>3. conn'[c].rec.doc = snapshot.doc /\ conn'[c].rec.through = snapshot.through BY <2>2 DEF RecoverBase
  <2>4. Owed \subseteq Held(snapshot.doc, snapshot.through) BY DEF DurInv, Durable, Recoverable, Held
  <2> QED BY <1>0, <2>1, <2>3, <2>4 DEF Steady, Suffices, Held, Offsets
<1>3. ASSUME RebuildPage(c), NEW last \in Page(conn[c].rec.through),
             conn'[c] = [conn[c] EXCEPT !.rec = Replay(conn[c].rec, last)]
      PROVE  Suffices(conn[c].rec.doc, conn[c].rec.through)'
  <2>1. Steady BY <1>3, Resting DEF RebuildPage
  <2>2. conn'[c].rec = Replay(conn[c].rec, last) /\ conn'[c].room = conn[c].room BY <1>0, <1>3 DEF ConnRec
  <2>3. conn[c].at = "rebuildPage" BY <1>3 DEF RebuildPage, At
  <2>4. conn[c].at \in Attached BY <2>3 DEF Attached
  <2>5. FenceHolds(RoomOf(c).authority) BY <2>2, <2>4, UsedRoom
  <2>6. Suffices(conn[c].rec.doc, conn[c].rec.through) BY <2>3, <2>5 DEF DurInv, RebuildSuffices
  <2>7. /\ Owed \subseteq Held(conn'[c].rec.doc, conn'[c].rec.through)
        /\ snapshot.through <= conn'[c].rec.through
    BY <1>0, <1>3, <2>2, <2>6, ReplaySuffices DEF DurInv
  <2> QED BY <2>1, <2>7 DEF Steady, Suffices, Held, Offsets
<1>4. CASE conn'[c] = [conn[c] EXCEPT !.at = "rebuildBase", !.offset = next'] BY <1>0, <1>4 DEF ConnRec
<1>5. CASE \E k : conn'[c] = [conn[c] EXCEPT !.at = "save", !.cap = k] BY <1>0, <1>5 DEF ConnRec
<1>6. CASE conn'[c] = [conn[c] EXCEPT !.at = "trim"] BY <1>0, <1>6 DEF ConnRec
<1> QED BY <1>1, <1>2, <1>3, <1>4, <1>5, <1>6, ConnNow

\* What the capture of a Persist lacks is in the log after it: others only append, and
\* the room it was taken from gets no older.
LEMMA CaptureKept == ASSUME Inv, DurInv, [Next]_vars, NEW c \in Conns PROVE CaptureSuffices(c)'
<1> SUFFICES ASSUME conn'[c].at = "save", FenceHolds(RoomOf(c).authority)'
             PROVE  /\ Suffices(conn[c].cap.doc, conn[c].cap.lastOffset)'
                    /\ conn'[c].cap.lastOffset <= room'[conn'[c].room].lastOffset
  BY DEF CaptureSuffices, RoomOf
<1>0. conn[c] \in ConnRec /\ conn[c].cap.lastOffset \in Nat /\ next \in Nat /\ snapshot.through \in Nat
  BY Shapes DEF Capture
<1>1. CASE conn'[c] = conn[c]
  <2>1. conn[c].at = "save" BY <1>1
  <2>2. conn[c].at \in Attached /\ c \in Persisting BY <2>1 DEF Attached, Persisting
  <2>3. /\ NodeOf[c] \in Nodes /\ owner # None /\ owner.node = NodeOf[c] /\ conn[c].room \in Rooms
        /\ rooms[NodeOf[c]] = conn[c].room /\ FenceHolds(RoomOf(c).authority)
    BY <1>1, <2>2, UsedRoom
  <2>4. ASSUME NEW d \in Conns, PersistSave(d) \/ PersistTrim(d) PROVE FALSE
    <3>1. d \in Persisting BY <2>4 DEF PersistSave, PersistTrim, At, Persisting
    <3>2. NodeOf[d] = NodeOf[c] BY <2>3, <2>4, Writer DEF Writes
    <3>3. d = c BY <2>2, <3>1, <3>2 DEF DurInv, Serial, OnePersist
    <3>4. conn'[c].at # "save"
      <4>1. PersistSave(c) BY <2>1, <2>4, <3>3 DEF PersistTrim, At
      <4>2. CASE conn[c].cap.shouldTrim
        <5>1. conn'[c] = [conn[c] EXCEPT !.at = "trim"] BY <4>1, <4>2, Shapes DEF PersistSave, Goto
        <5> QED BY <1>0, <5>1 DEF ConnRec
      <4>3. CASE ~conn[c].cap.shouldTrim
        <5>1. conn'[c] = [Closed EXCEPT !.at = "open", !.room = conn[c].room]
          BY <4>1, <4>3, Shapes DEF PersistSave, Served
        <5> QED BY <5>1 DEF Closed
      <4> QED BY <4>2, <4>3
    <3> QED BY <1>1, <2>1, <3>4
  <2>5. Steady \/ Grew BY <2>4, StoreNow
  <2>6. PICK e, t : e = conn[c].cap.doc /\ t = conn[c].cap.lastOffset OBVIOUS
  <2>7. Suffices(e, t) /\ t \in Nat /\ t <= next /\ t <= RoomOf(c).lastOffset
    BY <1>0, <2>1, <2>3, <2>6 DEF DurInv, CaptureSuffices, Given
  <2>8. Suffices(e, t)' BY <2>5, <2>7, SufficesKept
  <2>9. t <= room'[conn[c].room].lastOffset
    <3>1. CASE room'[conn[c].room].lastOffset = room[conn[c].room].lastOffset BY <2>7, <3>1 DEF RoomOf
    <3>2. ASSUME NEW d \in Conns, conn[d].room = conn[c].room, HandleUpdate(d)
          PROVE  t <= room'[conn[c].room].lastOffset
      <4>1. next' = next + 1 BY <3>2 DEF HandleUpdate, Append
      <4>2. room[conn[c].room] \in Room BY <2>3, Shapes
      <4>3. room'[conn[c].room] = [room[conn[c].room] EXCEPT !.doc = @ \cup {next'}, !.lastOffset = next']
        BY <2>3, <3>2, Shapes DEF HandleUpdate
      <4>4. room'[conn[c].room].lastOffset = next' BY <4>2, <4>3 DEF Room
      <4> QED BY <1>0, <2>7, <4>1, <4>4
    <3>3. ASSUME NEW d \in Conns, conn[d].room = conn[c].room, RebuildDone(d) PROVE FALSE
      <4>1. conn[d].at = "rebuildPage" BY <3>3 DEF RebuildDone, At
      <4>2. d \in Rebuilding /\ conn[d].at \in Attached BY <4>1 DEF Rebuilding, Attached
      <4>3. NodeOf[d] = NodeOf[c] BY <2>2, <3>3, <4>2, SameNode
      <4> QED BY <2>2, <4>2, <4>3 DEF DurInv, Serial, QuietRebuild
    <3> QED BY <2>3, <3>1, <3>2, <3>3, RoomNow
  <2> QED BY <1>1, <2>6, <2>8, <2>9 DEF Suffices, Held
<1>2. CASE /\ PersistCapture(c)
           /\ conn'[c] = [conn[c] EXCEPT !.at = "save",
                !.cap = [doc |-> RoomOf(c).doc, lastOffset |-> RoomOf(c).lastOffset,
                         shouldTrim |-> RoomOf(c).lastOffset > RoomOf(c).compactedAt]]
  <2>1. /\ conn'[c].cap.doc = RoomOf(c).doc /\ conn'[c].cap.lastOffset = RoomOf(c).lastOffset
        /\ conn'[c].room = conn[c].room
    BY <1>0, <1>2 DEF ConnRec
  <2>2. conn[c].at = "open" /\ Unlocked(conn[c].room) /\ room' = room
    BY <1>2 DEF PersistCapture, Usable, At
  <2>3. conn[c].at \in Attached BY <2>2 DEF Attached
  <2>4. /\ NodeOf[c] \in Nodes /\ conn[c].room \in Rooms
        /\ rooms[NodeOf[c]] = conn[c].room /\ FenceHolds(RoomOf(c).authority)
    BY <2>1, <2>3, UsedRoom
  <2>5. Steady BY <1>2, Resting DEF PersistCapture
  <2>6. /\ OwedBut(conn[c].room) \subseteq RoomOf(c).doc
        /\ snapshot.through <= RoomOf(c).lastOffset
    BY <2>4, RoomAssumption DEF DurInv, RoomSuffices, RoomOf
  <2>7. Owed \subseteq OwedBut(conn[c].room)
    BY <2>2 DEF Owed, OwedBut, Unlocked, Rebuilding
  <2>8. RoomOf(c).lastOffset \in Nat BY <2>4, Shapes DEF RoomOf, Room
  <2>9. room'[conn'[c].room].lastOffset = RoomOf(c).lastOffset BY <2>1, <2>2 DEF RoomOf
  <2> QED BY <2>1, <2>5, <2>6, <2>7, <2>8, <2>9 DEF Steady, Suffices, Held
<1>3. CASE conn'[c] = [conn[c] EXCEPT !.at = "rebuildBase", !.offset = next'] BY <1>0, <1>3 DEF ConnRec
<1>4. CASE conn'[c] = [conn[c] EXCEPT !.at = "rebuildPage", !.rec = RecoverBase] BY <1>0, <1>4 DEF ConnRec
<1>5. CASE RebuildPage(c) /\ \E last : conn'[c] = [conn[c] EXCEPT !.rec = Replay(conn[c].rec, last)]
  <2>1. conn'[c].at = conn[c].at /\ conn[c].at = "rebuildPage" BY <1>0, <1>5 DEF ConnRec, RebuildPage, At
  <2> QED BY <2>1
<1>6. CASE conn'[c] = [conn[c] EXCEPT !.at = "trim"] BY <1>0, <1>6 DEF ConnRec
<1> QED BY <1>1, <1>2, <1>3, <1>4, <1>5, <1>6, ConnNow

\* A Persist about to trim finds its own checkpoint.
LEMMA TrimKept == ASSUME Inv, DurInv, [Next]_vars, NEW c \in Conns PROVE TrimSuffices(c)'
<1> SUFFICES ASSUME conn'[c].at = "trim", FenceHolds(RoomOf(c).authority)'
             PROVE  snapshot'.through = conn'[c].cap.lastOffset
  BY DEF TrimSuffices
<1>0. conn[c] \in ConnRec BY Shapes
<1>1. CASE conn'[c] = conn[c]
  <2>1. conn[c].at = "trim" BY <1>1
  <2>2. conn[c].at \in Attached /\ c \in Persisting BY <2>1 DEF Attached, Persisting
  <2>3. owner.node = NodeOf[c] /\ FenceHolds(RoomOf(c).authority) BY <1>1, <2>2, UsedRoom
  <2>4. ASSUME NEW d \in Conns, PersistSave(d) PROVE FALSE
    <3>1. d \in Persisting /\ conn[d].at = "save" BY <2>4 DEF PersistSave, At, Persisting
    <3>2. NodeOf[d] = NodeOf[c] BY <2>3, <2>4, Writer DEF Writes
    <3>3. d = c BY <2>2, <3>1, <3>2 DEF DurInv, Serial, OnePersist
    <3> QED BY <2>1, <3>1, <3>3
  <2>5. snapshot' = snapshot BY <2>4, StoreNow DEF Steady, Grew
  <2> QED BY <1>1, <2>1, <2>3, <2>5 DEF DurInv, TrimSuffices
<1>2. CASE PersistSave(c) /\ conn'[c] = [conn[c] EXCEPT !.at = "trim"]
  <2>1. conn'[c].cap = conn[c].cap BY <1>0, <1>2 DEF ConnRec
  <2>2. snapshot'.through = conn[c].cap.lastOffset BY <1>2 DEF PersistSave, SaveCheckpoint
  <2> QED BY <2>1, <2>2
<1>3. CASE conn'[c] = [conn[c] EXCEPT !.at = "rebuildBase", !.offset = next'] BY <1>0, <1>3 DEF ConnRec
<1>4. CASE conn'[c] = [conn[c] EXCEPT !.at = "rebuildPage", !.rec = RecoverBase] BY <1>0, <1>4 DEF ConnRec
<1>5. CASE RebuildPage(c) /\ \E last : conn'[c] = [conn[c] EXCEPT !.rec = Replay(conn[c].rec, last)]
  <2>1. conn'[c].at = conn[c].at /\ conn[c].at = "rebuildPage" BY <1>0, <1>5 DEF ConnRec, RebuildPage, At
  <2> QED BY <2>1
<1>6. CASE \E k : conn'[c] = [conn[c] EXCEPT !.at = "save", !.cap = k] BY <1>0, <1>6 DEF ConnRec
<1> QED BY <1>1, <1>2, <1>3, <1>4, <1>5, <1>6, ConnNow

\* The room of the owner has what was acknowledged, by whichever owner: a load gives it
\* what the store has, and only its own node's connections add to that.
LEMMA RoomKept == ASSUME Inv, DurInv, [Next]_vars, NEW n \in Nodes PROVE RoomSuffices(n)'
<1> SUFFICES ASSUME rooms'[n] # None, FenceHolds(room[rooms[n]].authority)'
             PROVE  /\ OwedBut(rooms[n])' \subseteq room'[rooms'[n]].doc
                    /\ snapshot'.through <= room'[rooms'[n]].lastOffset
  BY DEF RoomSuffices
<1>0. snapshot.through \in Nat /\ next \in Nat /\ room \in [Rooms -> Room] BY Shapes
<1>1. CASE rooms'[n] = rooms[n]
  <2>1. PICK r \in Rooms : r = rooms[n] BY <1>1, Shapes
  <2>2. room[r] \in Room /\ room'[r].authority = room[r].authority BY <1>0, <2>1, RoomNow
  <2>3. PICK f \in Fence \cup {None} : f = room[r].authority BY <2>2 DEF Room
  <2>4. FenceHolds(f)' BY <1>1, <2>1, <2>2, <2>3 DEF FenceHolds
  <2>5. f # None => f.epoch <= gen BY <2>3 DEF Inv, Bounded
  <2>6. FenceHolds(f) /\ owner' = owner BY <2>4, <2>5, FenceBack
  <2>7. OwedBut(r) \subseteq room[r].doc /\ snapshot.through <= room[r].lastOffset /\ owner.node = n
    BY <2>1, <2>3, <2>6, RoomAssumption DEF DurInv, RoomSuffices, Published, FenceHolds
  <2>8. ASSUME NEW c \in Conns, Writes(c) PROVE conn[c].room = r BY <2>1, <2>7, <2>8, Writer
  <2>a. \A x : x \in OwedBut(r)' <=> x \in acked' \/ \E d \in Rebuilding' : conn'[d].room # r /\ x = conn'[d].offset
    BY DEF OwedBut
  <2>b. \A x : x \in OwedBut(r) <=> x \in acked \/ \E d \in Rebuilding : conn[d].room # r /\ x = conn[d].offset
    BY DEF OwedBut
  <2>c. OwedBut(rooms[n])' = OwedBut(r)' BY <1>1, <2>1 DEF OwedBut
  <2>9. ASSUME NEW d \in Rebuilding', conn'[d].room # r PROVE conn'[d].offset \in OwedBut(r)
    <3>1. d \in Conns BY DEF Rebuilding
    <3>2. CASE d \in Rebuilding /\ conn'[d].offset = conn[d].offset /\ conn'[d].room = conn[d].room
      BY <2>9, <2>b, <3>2
    <3>3. CASE HandleMergeFails(d) /\ conn'[d].room = conn[d].room BY <2>8, <2>9, <3>1, <3>3 DEF Writes
    <3> QED BY <2>9, <3>1, <3>2, <3>3, RebuildNow
  <2>10. CASE \E c \in Conns : HandleUpdate(c)
    <3>1. PICK c \in Conns : HandleUpdate(c) BY <2>10
    <3>2. conn[c].room = r BY <2>8, <3>1 DEF Writes
    <3>3. room'[r] = [room[r] EXCEPT !.doc = room[r].doc \cup {next'}, !.lastOffset = next']
      BY <1>0, <3>1, <3>2 DEF HandleUpdate
    <3>4. room'[r].doc = room[r].doc \cup {next'} /\ room'[r].lastOffset = next' BY <2>2, <3>3 DEF Room
    <3>5. acked' = acked \cup {next'} /\ next' = next + 1 /\ snapshot' = snapshot
      BY <3>1 DEF HandleUpdate, Append
    <3>6. snapshot'.through <= next' BY <1>0, <3>5 DEF DurInv, Given
    <3>7. OwedBut(r)' \subseteq room'[r].doc
      <4> SUFFICES ASSUME NEW x \in OwedBut(r)' PROVE x \in room'[r].doc OBVIOUS
      <4>1. CASE x \in acked' BY <2>7, <2>b, <3>4, <3>5, <4>1
      <4>2. CASE \E d \in Rebuilding' : conn'[d].room # r /\ x = conn'[d].offset BY <2>7, <2>9, <3>4, <4>2
      <4> QED BY <2>a, <4>1, <4>2
    <3> QED BY <1>1, <2>1, <2>c, <3>4, <3>6, <3>7
  <2>11. CASE \E c \in Conns : RebuildDone(c) /\ conn[c].room = r
    <3>1. PICK c \in Conns : RebuildDone(c) /\ conn[c].room = r BY <2>11
    <3>2. conn[c].at = "rebuildPage" /\ Tail(conn[c].rec.through) = {} /\ UNCHANGED store
      BY <3>1 DEF RebuildDone, At
    <3>3. Suffices(conn[c].rec.doc, conn[c].rec.through)
      BY <2>3, <2>6, <3>1, <3>2 DEF DurInv, RebuildSuffices, RoomOf
    <3>4. conn[c].rec.through \in Nat /\ conn[c].offset \in Nat BY Shapes DEF Recovery
    <3>5. Owed \subseteq conn[c].rec.doc BY <3>2, <3>3, <3>4, TailGone
    <3>6. Steady BY <3>2, Resting
    <3>7. room'[r] = RebuiltRoom(c) BY <1>0, <3>1 DEF RebuildDone
    <3>8. /\ room'[r].doc = conn[c].rec.doc
          /\ room'[r].lastOffset = Larger(conn[c].rec.through, conn[c].offset)
      BY <2>2, <3>1, <3>7 DEF RebuiltRoom, RoomOf, Room
    <3>9. OwedBut(r)' \subseteq Owed'
      BY <2>a DEF Owed
    <3>10. snapshot'.through <= room'[r].lastOffset
      BY <1>0, <3>3, <3>4, <3>6, <3>8 DEF Suffices, Steady, Larger
    <3>11. OwedBut(r)' \subseteq room'[r].doc BY <3>5, <3>6, <3>8, <3>9 DEF Steady
    <3> QED BY <1>1, <2>1, <2>c, <3>10, <3>11
  <2>12. CASE ~(\E c \in Conns : HandleUpdate(c)) /\ ~(\E c \in Conns : RebuildDone(c) /\ conn[c].room = r)
    <3>1. room'[r].doc = room[r].doc /\ room'[r].lastOffset = room[r].lastOffset BY <2>1, <2>12, RoomNow
    <3>2. ASSUME NEW x \in acked', x \notin acked PROVE x \in OwedBut(r)
      <4>1. PICK c \in Conns : Writes(c) \/ RebuildDone(c) BY <3>2, StepKinds
      <4>2. RebuildDone(c) /\ conn[c].room # r
        BY <2>12, <3>2, <4>1 DEF Writes, HandleMergeFails, PersistSave, PersistTrim
      <4>3. c \in Rebuilding /\ x = conn[c].offset BY <3>2, <4>2 DEF RebuildDone, Rebuilding, At
      <4> QED BY <2>b, <4>2, <4>3
    <3>3. OwedBut(r)' \subseteq OwedBut(r)
      <4> SUFFICES ASSUME NEW x \in OwedBut(r)' PROVE x \in OwedBut(r) OBVIOUS
      <4>1. CASE x \in acked' BY <2>b, <3>2, <4>1
      <4>2. CASE \E d \in Rebuilding' : conn'[d].room # r /\ x = conn'[d].offset BY <2>9, <4>2
      <4> QED BY <2>a, <4>1, <4>2
    <3>4. snapshot'.through <= room[r].lastOffset
      <4>1. CASE snapshot' = snapshot BY <2>7, <4>1
      <4>2. ASSUME NEW c \in Conns, PersistSave(c), snapshot'.through = conn[c].cap.lastOffset
            PROVE  snapshot'.through <= room[r].lastOffset
        <5>1. conn[c].room = r BY <2>8, <4>2 DEF Writes
        <5>2. conn[c].at = "save" /\ FenceHolds(RoomOf(c).authority)
          BY <4>2 DEF PersistSave, At, SaveCheckpoint
        <5> QED BY <4>2, <5>1, <5>2 DEF DurInv, CaptureSuffices, RoomOf
      <4> QED BY <4>1, <4>2, StoreNow DEF Steady, Grew
    <3> QED BY <1>1, <2>1, <2>7, <2>c, <3>1, <3>3, <3>4
  <2> QED BY <2>10, <2>11, <2>12
<1>2. CASE LoadPublish(n) /\ \E r \in Rooms : Free(r) /\ rooms'[n] = r /\ room'[r] = LoadedRoom(n)
  <2>1. PICK r \in Rooms : Free(r) /\ rooms'[n] = r /\ room'[r] = LoadedRoom(n) BY <1>2
  <2>2. flight[n].at = "page" /\ Tail(flight[n].rec.through) = {} /\ UNCHANGED store BY <1>2 DEF LoadPublish
  <2>3. /\ room'[r].doc = flight[n].rec.doc /\ room'[r].lastOffset = flight[n].rec.through
        /\ room'[r].authority = flight[n].fence
    BY <2>1 DEF LoadedRoom
  <2>4. PICK f \in Fence \cup {None} : f = flight[n].fence BY Shapes
  <2>5. FenceHolds(f)' BY <2>1, <2>3, <2>4 DEF FenceHolds
  <2>6. f # None => f.epoch <= gen BY <2>4 DEF Inv, Bounded
  <2>7. FenceHolds(f) BY <2>5, <2>6, FenceBack
  <2>8. Suffices(flight[n].rec.doc, flight[n].rec.through) BY <2>2, <2>4, <2>7 DEF DurInv, FlightSuffices
  <2>9. flight[n].rec.through \in Nat BY Shapes DEF Recovery
  <2>10. Owed \subseteq flight[n].rec.doc BY <2>2, <2>8, <2>9, TailGone
  <2>11. Steady BY <2>2, Resting
  <2>12. OwedBut(rooms[n])' \subseteq Owed' BY DEF OwedBut, Owed
  <2> QED BY <2>1, <2>3, <2>8, <2>10, <2>11, <2>12 DEF Steady, Suffices
<1> QED BY <1>1, <1>2, RoomsNow

-----------------------------------------------------------------------------
(* The invariant, and what it gives.                                       *)

\* At the start there is nothing to lose.
LEMMA DurInit == Init => DurInv
<1> SUFFICES ASSUME Init PROVE DurInv OBVIOUS
<1>1. /\ \A c \in Conns : conn[c].at = "closed" /\ conn[c] = Closed
      /\ \A n \in Nodes : rooms[n] = None /\ flight[n].at = "none"
      /\ \A r \in Rooms : room[r].lastOffset = 0
      /\ log = {} /\ next = 0 /\ snapshot.through = 0 /\ acked = {}
  BY DEF Init, Closed, NoFlight, FreshRoom
<1>2. Rebuilding = {} /\ Persisting = {} BY <1>1 DEF Rebuilding, Persisting
<1>3. Serial
  <2>1. Registered BY <1>1 DEF Registered, Attached
  <2> QED BY <1>2, <2>1 DEF Serial, OnePersist, QuietRebuild
<1>4. Published /\ Loading BY <1>1 DEF Published, Loading
<1>5. IsFiniteSet(log) BY <1>1, FS_EmptySet
<1>6. Given BY <1>1, <1>2, <1>5 DEF Given
<1>7. Owed = {} BY <1>1, <1>2 DEF Owed
<1>8. Durable BY <1>7 DEF Durable
<1>9. \A n \in Nodes : FlightSuffices(n) /\ RoomSuffices(n) BY <1>1 DEF FlightSuffices, RoomSuffices
<1>10. \A c \in Conns : RebuildSuffices(c) /\ CaptureSuffices(c) /\ TrimSuffices(c)
  BY <1>1 DEF RebuildSuffices, CaptureSuffices, TrimSuffices
<1> QED BY <1>3, <1>4, <1>6, <1>8, <1>9, <1>10 DEF DurInv

\* The invariant of the rooms is kept by every step, whoever meets.
LEMMA InvKept == Inv /\ [Next]_vars => Inv'
BY TypePreserved, HasRoomPreserved, BoundedPreserved, CoveredPreserved, OrderPreserved DEF Inv

\* A step after which a node's connections do not meet keeps the whole invariant.
LEMMA DurStep == Inv /\ DurInv /\ [Next]_vars /\ Serial' => DurInv'
<1> SUFFICES ASSUME Inv, DurInv, [Next]_vars, Serial' PROVE DurInv' OBVIOUS
<1>1. Published' /\ Loading' /\ Given' /\ Durable'
  BY PublishedKept, LoadingKept, GivenKept, DurableKept
<1>2. ASSUME NEW n \in Nodes PROVE FlightSuffices(n)' /\ RoomSuffices(n)' BY FlightKept, RoomKept
<1>3. ASSUME NEW c \in Conns PROVE RebuildSuffices(c)' /\ CaptureSuffices(c)' /\ TrimSuffices(c)'
  BY RebuildKept, CaptureKept, TrimKept
<1> QED BY <1>1, <1>2, <1>3 DEF DurInv

\* What the invariant gives: acknowledged updates are stored, and the valid owner's room
\* has them.
LEMMA DurGives == DurInv => AckedDurable /\ OwnerRoomComplete
<1> SUFFICES ASSUME DurInv PROVE AckedDurable /\ OwnerRoomComplete OBVIOUS
<1>1. AckedDurable BY DEF DurInv, Durable, Owed, AckedDurable
<1>2. ASSUME NEW n \in Nodes, rooms[n] # None, room[rooms[n]].authority = owner
      PROVE  acked \subseteq room[rooms[n]].doc
  <2>1. FenceHolds(room[rooms[n]].authority) BY <1>2 DEF DurInv, Published, FenceHolds
  <2> QED BY <1>2, <2>1 DEF DurInv, RoomSuffices, OwedBut
<1> QED BY <1>1, <1>2 DEF OwnerRoomComplete

\* What a Persist captured is not behind what is stored.
LEMMA SavedForward ==
  ASSUME Inv, DurInv, [Next]_vars
  PROVE  [snapshot'.through >= snapshot.through]_snapshot
<1>0. snapshot.through \in Nat BY Shapes
<1>1. ASSUME NEW c \in Conns, PersistSave(c), snapshot'.through = conn[c].cap.lastOffset
      PROVE  snapshot'.through >= snapshot.through
  <2>1. conn[c].at = "save" /\ FenceHolds(RoomOf(c).authority)
    BY <1>1 DEF PersistSave, At, SaveCheckpoint
  <2>2. conn[c].cap.lastOffset \in Nat BY Shapes DEF Capture
  <2> QED BY <1>0, <1>1, <2>1, <2>2 DEF DurInv, CaptureSuffices, Suffices
<1> QED BY <1>1, StoreNow DEF Steady, Grew

-----------------------------------------------------------------------------
(* One connection of the document per node.                                *)

\* A connection that is alone at its node uses the room the node has in its map.
LEMMA RegisteredKept == ASSUME OneConnection, Inv, DurInv, [Next]_vars PROVE Registered'
<1> SUFFICES ASSUME NEW c \in Conns, conn'[c].at \in Attached \cup {"attach"}
             PROVE  rooms'[NodeOf[c]] = conn'[c].room
  BY DEF Registered
<1> DEFINE n == NodeOf[c]
           Goal == rooms'[n] = conn'[c].room
<1>0. conn \in [Conns -> ConnRec] /\ rooms \in [Nodes -> Rooms \cup {None}] /\ n \in Nodes /\ conn[c] \in ConnRec
  BY Shapes
<1>1. conn[c].at \in Attached \cup {"attach"} => rooms[n] = conn[c].room /\ rooms[n] \in Rooms
  BY DEF DurInv, Serial, Registered, Inv, HasRoom
<1>2. Closed.at \notin Attached \cup {"attach"} BY DEF Closed, Attached
<1>3. CASE UNCHANGED <<rooms, conn>> BY <1>1, <1>3
<1>4. ASSUME NEW m \in Nodes, LoadStep(m) PROVE Goal
  <2>1. CASE LoadFails(m)
    <3>1. conn'[c] = conn[c] \/ conn'[c] = Closed BY <2>1 DEF LoadFails
    <3> QED BY <1>1, <1>2, <2>1, <3>1 DEF LoadFails
  <2>2. CASE LoadPublish(m)
    <3>1. rooms[m] = None BY <2>2 DEF LoadPublish, DurInv, Loading
    <3>2. PICK r \in Rooms :
            /\ rooms' = [rooms EXCEPT ![m] = r]
            /\ conn' = [d \in Conns |-> IF d \in Waiting(m)
                                        THEN [Closed EXCEPT !.at = "attach", !.room = r] ELSE conn[d]]
      BY <2>2, <3>1 DEF LoadPublish
    <3>3. CASE c \in Waiting(m)
      <4>1. m = n BY <3>3 DEF Waiting
      <4>2. conn'[c].room = r BY <3>2, <3>3 DEF Closed
      <4> QED BY <1>0, <3>2, <4>1, <4>2
    <3>4. CASE c \notin Waiting(m)
      <4>1. conn'[c] = conn[c] BY <3>2, <3>4
      <4>2. rooms[n] \in Rooms /\ rooms[n] = conn[c].room BY <1>1, <4>1
      <4>3. m # n BY <3>1, <4>2, RoomAssumption
      <4> QED BY <1>0, <3>2, <4>1, <4>2, <4>3
    <3> QED BY <3>3, <3>4
  <2>3. CASE LoadResolve(m) \/ LoadBase(m) \/ LoadPage(m)
    BY <1>3, <2>3 DEF LoadResolve, LoadBase, LoadPage
  <2> QED BY <1>4, <2>1, <2>2, <2>3 DEF LoadStep
<1>5. ASSUME NEW m \in Nodes, Crash(m) PROVE Goal
  <2>1. conn' = [d \in Conns |-> IF NodeOf[d] = m THEN Closed ELSE conn[d]] BY <1>5 DEF Crash
  <2>2. n # m BY <1>2, <2>1
  <2>3. conn'[c] = conn[c] BY <2>1, <2>2
  <2>4. rooms'[n] = rooms[n] BY <1>0, <1>5, <2>2 DEF Crash
  <2> QED BY <1>1, <2>3, <2>4
<1>6. ASSUME NEW m \in Nodes, Grant(m) PROVE Goal BY <1>3, <1>6 DEF Grant, local
<1>7. CASE Revoke \/ UNCHANGED vars BY <1>3, <1>7 DEF Revoke, local, vars
<1>8. ASSUME NEW d \in Conns, ConnStep(d), d # c PROVE Goal
  <2>1. NodeOf[d] # n BY <1>8 DEF OneConnection
  <2>2. rooms'[n] = rooms[n]
    <3>1. CASE CloseRemove(d) BY <1>0, <2>1, <3>1 DEF CloseRemove
    <3>2. CASE ~CloseRemove(d)
      BY <1>8, <3>2 DEF ConnStep, OpenLookup, OpenJoin, Attach, HandleUpdate, HandleMergeFails, HandleRefused,
        RebuildBase, RebuildPage, RebuildDone, RebuildFails, PersistCapture, PersistSave, PersistTrim,
        PersistMark, PersistRefused, PersistFails, Revalidate, Close
    <3> QED BY <3>1, <3>2
  <2>3. conn'[c] = conn[c]
    <3>1. CASE OpenLookup(d) \/ OpenJoin(d) \/ Attach(d)
      BY <1>0, <1>8, <3>1 DEF OpenLookup, OpenJoin, Attach, Goto
    <3>2. CASE HandleUpdate(d) \/ HandleMergeFails(d) \/ HandleRefused(d)
      BY <1>0, <1>8, <3>2 DEF HandleUpdate, HandleMergeFails, HandleRefused
    <3>3. CASE RebuildBase(d) \/ RebuildPage(d) \/ RebuildDone(d) \/ RebuildFails(d)
      BY <1>0, <1>8, <3>3 DEF RebuildBase, RebuildPage, RebuildDone, RebuildFails, Served
    <3>4. CASE \/ PersistCapture(d) \/ PersistSave(d) \/ PersistTrim(d) \/ PersistMark(d)
               \/ PersistRefused(d) \/ PersistFails(d)
      BY <1>0, <1>8, <3>4 DEF PersistCapture, PersistSave, PersistTrim, PersistMark,
                              PersistRefused, PersistFails, Served, Goto
    <3>5. CASE Revalidate(d) \/ Close(d) \/ CloseRemove(d)
      BY <1>0, <1>8, <3>5 DEF Revalidate, Close, CloseRemove
    <3> QED BY <1>8, <3>1, <3>2, <3>3, <3>4, <3>5 DEF ConnStep
  <2> QED BY <1>1, <2>2, <2>3
<1>9. CASE ConnStep(c)
  <2>1. CASE OpenLookup(c)
    BY <1>0, <2>1 DEF OpenLookup, ConnRec, Attached
  <2>2. CASE OpenJoin(c)
    <3>1. CASE conn' = [conn EXCEPT ![c].at = "attach", ![c].room = rooms[n]]
      <4>1. conn'[c].room = rooms[n] BY <1>0, <3>1 DEF ConnRec
      <4> QED BY <2>2, <4>1 DEF OpenJoin
    <3>2. CASE Goto(c, "wait")
      <4>1. conn'[c].at = "wait" BY <1>0, <3>2 DEF Goto, ConnRec
      <4> QED BY <4>1 DEF Attached
    <3> QED BY <2>2, <3>1, <3>2 DEF OpenJoin
  <2>3. CASE CloseRemove(c)
    <3>1. conn'[c] = Closed BY <1>0, <2>3 DEF CloseRemove
    <3> QED BY <1>2, <3>1
  <2>4. CASE ~OpenLookup(c) /\ ~OpenJoin(c) /\ ~CloseRemove(c)
    <3>1. rooms' = rooms
      BY <1>9, <2>4 DEF ConnStep, Attach, HandleUpdate, HandleMergeFails, HandleRefused, RebuildBase,
        RebuildPage, RebuildDone, RebuildFails, PersistCapture, PersistSave, PersistTrim, PersistMark,
        PersistRefused, PersistFails, Revalidate, Close
    <3>2. conn[c].at \in Attached \cup {"attach"}
      BY <1>9, <2>4 DEF ConnStep, Attach, HandleUpdate, HandleMergeFails, HandleRefused, RebuildBase,
        RebuildPage, RebuildDone, RebuildFails, PersistCapture, PersistSave, PersistTrim, PersistMark,
        PersistRefused, PersistFails, Revalidate, Close, Usable, At, Attached
    <3>3. conn'[c].room = conn[c].room
      <4>1. [Closed EXCEPT !.at = "open", !.room = conn[c].room].room = conn[c].room BY DEF Closed
      <4>2. CASE Attach(c) \/ Close(c) BY <1>0, <1>2, <4>2 DEF Attach, Close, ConnRec
      <4>3. CASE HandleUpdate(c) \/ HandleMergeFails(c) \/ HandleRefused(c) \/ Revalidate(c)
        BY <1>0, <4>3 DEF HandleUpdate, HandleMergeFails, HandleRefused, Revalidate, ConnRec
      <4>4. CASE RebuildBase(c) \/ RebuildPage(c) \/ PersistCapture(c) \/ PersistTrim(c)
        BY <1>0, <4>4 DEF RebuildBase, RebuildPage, PersistCapture, PersistTrim, Goto, ConnRec
      <4>5. CASE Served(c) BY <1>0, <4>1, <4>5 DEF Served
      <4>6. CASE PersistSave(c)
        <5>1. CASE Goto(c, "trim") BY <1>0, <5>1 DEF Goto, ConnRec
        <5> QED BY <4>5, <4>6, <5>1 DEF PersistSave
      <4> QED BY <1>9, <2>4, <4>2, <4>3, <4>4, <4>5, <4>6
            DEF ConnStep, RebuildDone, RebuildFails, PersistMark, PersistRefused, PersistFails
    <3> QED BY <1>1, <3>1, <3>2, <3>3
  <2> QED BY <2>1, <2>2, <2>3, <2>4
<1> QED BY <1>4, <1>5, <1>6, <1>7, <1>8, <1>9 DEF Next

\* A connection is not inside two calls.
LEMMA SerialKept == OneConnection /\ Inv /\ DurInv /\ [Next]_vars => Serial'
<1> SUFFICES ASSUME OneConnection, Inv, DurInv, [Next]_vars PROVE Serial' OBVIOUS
<1>1. Registered' BY RegisteredKept
<1>2. OnePersist' BY DEF OnePersist, OneConnection, Persisting
<1>3. QuietRebuild'
  <2> SUFFICES ASSUME NEW c \in Rebuilding', NEW d \in Persisting', NodeOf[c] = NodeOf[d] PROVE FALSE
    BY DEF QuietRebuild
  <2>1. c = d BY DEF OneConnection, Rebuilding, Persisting
  <2> QED BY <2>1 DEF Rebuilding, Persisting
<1> QED BY <1>1, <1>2, <1>3 DEF Serial

\* What is kept when every node serves at most one connection of the document: whoever
\* writes under the valid fence has, with the log behind it, every update that was or may
\* still be acknowledged.
THEOREM FailoverInvariance == ASSUME OneConnection PROVE Spec => [](Inv /\ DurInv)
<1> USE OneConnection
<1>1. Inv /\ DurInv /\ [Next]_vars => (Inv /\ DurInv)' BY InvKept, DurStep, SerialKept
<1> QED BY <1>1, InitInv, DurInit, PTL DEF Spec

\* With one connection of the document per node, no acknowledged update is lost, whatever
\* takes over, crashes, fails half way through a Persist or is refused.
THEOREM FailoverKeepsUpdates == ASSUME OneConnection PROVE Spec => []AckedDurable
BY FailoverInvariance, DurGives, PTL

\* And the room that serves under the valid fence has every acknowledged update, those of
\* earlier owners included.
THEOREM FailoverRoomComplete == ASSUME OneConnection PROVE Spec => []OwnerRoomComplete
BY FailoverInvariance, DurGives, PTL

\* And no owner replaces a checkpoint by an older one: a replaced owner's late save is
\* refused, and the new owner's first one has all that the checkpoint it loaded had.
THEOREM FailoverCheckpointsAdvance == ASSUME OneConnection PROVE Spec => CheckpointAdvances
<1>1. Inv /\ DurInv /\ [Next]_vars => [snapshot'.through >= snapshot.through]_snapshot
  BY SavedForward
<1> QED BY <1>1, FailoverInvariance, PTL DEF Spec, CheckpointAdvances
=============================================================================
