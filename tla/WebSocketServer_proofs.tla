----------------------- MODULE WebSocketServer_proofs -----------------------
(***************************************************************************)
(* The server's accounts, its registry of peers and what browsers see, for *)
(* any requests, connection ids, clients, limits and bounds: which         *)
(* goroutine is in the room, under which id, and what evidence there is    *)
(* for every state a browser shows.                                        *)
(***************************************************************************)
EXTENDS WebSocketServer, FiniteSetTheorems, TLAPS

-----------------------------------------------------------------------------
(* Types.                                                                  *)

PCs == {"new", "quota", "owned", "opened", "accepted", "bootstrap", "serving", "fanout",
        "cleanup", "close", "removal", "release", "done"}

Entry == [clock : Nat, state : {Here, Null}] \cup {Unknown}
Msg == [client : Clients, clock : Nat, state : {Here, Null}]
Rooms == [members : SUBSET Requests, epoch : Nat, lost : BOOLEAN]

TypedServer ==
  /\ pc \in [Requests -> PCs]
  /\ room = None \/ (room \in Rooms /\ room.members # {})
  /\ epoch \in Nat /\ held \in BOOLEAN
  /\ registry \in [Ids -> Requests \cup {None}]
  /\ sessions \in [Ids -> Requests \cup {None}]
  /\ socket \in [Requests -> {"none", "open", "closed"}]

TypedAwareness ==
  /\ session \in [Requests -> Entry]
  /\ out \in [Requests -> [msgs : SUBSET Msg, to : (SUBSET Requests) \cup {None}]]
  /\ view \in [Requests -> [Clients -> Entry]]
  /\ echoed \in SUBSET Clients

-----------------------------------------------------------------------------
(* The room's members are the connections between Provider.Open and        *)
(* Connection.Close; no two of them share a connection id or a client.     *)

Inside == {"opened", "accepted", "bootstrap", "serving", "fanout", "cleanup", "close"}
Live == {"accepted", "bootstrap", "serving", "fanout"}

MembersInside == \A r \in Requests : r \in Members <=> pc[r] \in Inside

MembersDistinct ==
  \A p, q \in Members : p # q => IdOf[p] # IdOf[q] /\ ClientOf[p] # ClientOf[q]

Structure == TypedServer /\ MembersInside /\ MembersDistinct /\ ServingIsRegistered

Balanced ==
  /\ IsFiniteSet(HasQuota) /\ quota = Cardinality(HasQuota)
  /\ IsFiniteSet(HasHandle) /\ handles = Cardinality(HasHandle)
  /\ MaxConnections > 0 => quota <= MaxConnections

-----------------------------------------------------------------------------
(* The evidence for a state of client c, at clock k, that browser q shows  *)
(* or is about to: a connection of c that has got as far, or the removal   *)
(* of one, still to be written to q.                                       *)

Vouches(r, q, k) ==
  \/ r \in Members /\ session[r].clock >= k
  \/ /\ pc[r] = "removal"
     /\ \A m \in out[r].msgs : m.clock >= k
     /\ IF out[r].to = None THEN IdOf[q] # IdOf[r] ELSE q \in out[r].to

Evident(q, c, k) == \E r \in Requests : ClientOf[r] = c /\ Vouches(r, q, k)

Listening(q) == pc[q] \in Live /\ socket[q] = "open"

\* What a browser shows, and what a bootstrap is about to make it show.
Shows(q, c, k) == HasState(view[q][c]) /\ view[q][c].clock = k

Pending(q, c, k) ==
  /\ pc[q] = "bootstrap" /\ view[q][c].clock < k
  /\ \E m \in out[q].msgs : m.client = c /\ m.state # Null /\ m.clock = k

ViewsEvident ==
  \A q \in Requests, c \in Clients \ echoed, k \in Nat :
    Listening(q) /\ (Shows(q, c, k) \/ Pending(q, c, k)) => Evident(q, c, k)

\* What a goroutine writes is its own client's, or a client's that others spoke
\* for: its state, no newer than the connection's entry, or its removal.
OwnMessages ==
  \A r \in Requests :
    /\ pc[r] = "fanout" => \A m \in out[r].msgs : m.client \notin echoed =>
                             m.client = ClientOf[r] /\ session[r].clock >= m.clock
    /\ pc[r] = "removal" => /\ out[r].msgs # {}
                            /\ \A m \in out[r].msgs : m.client = ClientOf[r] /\ m.state = Null

\* Before its socket is accepted a request has no state, shows nothing, and no
\* one writes to it.
Early == {"new", "quota", "owned", "opened"}

EarlyBlank ==
  \A r \in Requests : pc[r] \in Early =>
    /\ session[r] = Unknown
    /\ \A c \in Clients : view[r][c] = Unknown
    /\ \A i \in Ids : registry[i] # r
    /\ \A p \in Requests : out[p].to # None => r \notin out[p].to

GhostInv == TypedAwareness /\ OwnMessages /\ EarlyBlank /\ ViewsEvident

Inv == Structure /\ Balanced /\ GhostInv

-----------------------------------------------------------------------------
(* The accounts.                                                           *)

Taken(step) == IF step \in {"new", "done"} THEN 0 ELSE 1
Handled(step) == IF step \in {"new", "done", "quota"} THEN 0 ELSE 1

\* Two sets that agree but for one element.
LEMMA CountOne ==
  ASSUME NEW S, IsFiniteSet(S), NEW T, NEW r, T \ {r} = S \ {r}
  PROVE  /\ IsFiniteSet(T)
         /\ Cardinality(T) =
              Cardinality(S) + ((IF r \in T THEN 1 ELSE 0) - (IF r \in S THEN 1 ELSE 0))
<1>0. Cardinality(S) \in Nat BY FS_CardinalityType
<1>1. CASE r \in S /\ r \in T
  <2>1. T = S BY <1>1
  <2> QED BY <1>0, <1>1, <2>1
<1>2. CASE r \notin S /\ r \notin T
  <2>1. T = S BY <1>2
  <2> QED BY <1>0, <1>2, <2>1
<1>3. CASE r \notin S /\ r \in T
  <2>1. T = S \cup {r} BY <1>3
  <2> QED BY <1>0, <1>3, <2>1, FS_AddElement
<1>4. CASE r \in S /\ r \notin T
  <2>1. T = S \ {r} BY <1>4
  <2> QED BY <1>0, <1>4, <2>1, FS_RemoveElement
<1> QED BY <1>1, <1>2, <1>3, <1>4

\* One goroutine goes on, and the counters by what that step takes or gives back.
LEMMA CountsMove ==
  ASSUME Balanced, pc \in [Requests -> PCs], NEW r \in Requests, NEW step \in PCs,
         pc' = [pc EXCEPT ![r] = step],
         quota' = quota + (Taken(step) - Taken(pc[r])),
         handles' = handles + (Handled(step) - Handled(pc[r])),
         MaxConnections > 0 => quota' <= MaxConnections
  PROVE  Balanced'
<1>1. pc'[r] = step /\ \A q \in Requests \ {r} : pc'[q] = pc[q] OBVIOUS
<1>2. /\ HasQuota' \ {r} = HasQuota \ {r}
      /\ Taken(pc[r]) = IF r \in HasQuota THEN 1 ELSE 0
      /\ Taken(step) = IF r \in HasQuota' THEN 1 ELSE 0
  BY <1>1 DEF HasQuota, Taken
<1>3. /\ HasHandle' \ {r} = HasHandle \ {r}
      /\ Handled(pc[r]) = IF r \in HasHandle THEN 1 ELSE 0
      /\ Handled(step) = IF r \in HasHandle' THEN 1 ELSE 0
  BY <1>1 DEF HasHandle, HasQuota, Handled
<1>4. IsFiniteSet(HasQuota') /\ Cardinality(HasQuota') = quota'
  BY <1>2, CountOne DEF Balanced
<1>5. IsFiniteSet(HasHandle') /\ Cardinality(HasHandle') = handles'
  BY <1>3, CountOne DEF Balanced
<1> QED BY <1>4, <1>5 DEF Balanced

\* A step of the goroutine, or of another, between two of its points that hold
\* the same.
LEMMA CountsStay ==
  ASSUME Balanced, pc \in [Requests -> PCs], UNCHANGED <<quota, handles>>, NEW r \in Requests,
         NEW step \in PCs, pc' = [pc EXCEPT ![r] = step],
         Taken(step) = Taken(pc[r]), Handled(step) = Handled(pc[r])
  PROVE  Balanced'
<1>1. quota \in Nat /\ handles \in Nat BY FS_CardinalityType DEF Balanced
<1>2. /\ Taken(step) \in {0, 1} /\ Taken(pc[r]) \in {0, 1}
      /\ Handled(step) \in {0, 1} /\ Handled(pc[r]) \in {0, 1}
  BY DEF Taken, Handled
<1>3. /\ quota' = quota + (Taken(step) - Taken(pc[r]))
      /\ handles' = handles + (Handled(step) - Handled(pc[r]))
  BY <1>1, <1>2
<1>4. MaxConnections > 0 => quota' <= MaxConnections BY DEF Balanced
<1> QED BY <1>3, <1>4, CountsMove

\* No step takes what it does not count, or gives back what it never had.
LEMMA CountsStep ==
  ASSUME Balanced, TypedServer, Next
  PROVE  Balanced'
<1>1. pc \in [Requests -> PCs] BY DEF TypedServer
<1>2. quota \in Nat /\ handles \in Nat /\ MaxConnections \in Nat
  BY FS_CardinalityType, ServerAssumption DEF Balanced
<1>3. CASE UNCHANGED <<pc, quota, handles>>
  BY <1>3 DEF Balanced, HasQuota, HasHandle
<1>4. ASSUME NEW r \in Requests, OpenQuota(r) PROVE Balanced'
  <2>1. CASE MaxConnections > 0 /\ quota >= MaxConnections
    <3>1. pc[r] = "new" /\ pc' = [pc EXCEPT ![r] = "done"] /\ UNCHANGED <<quota, handles>>
      BY <1>4, <2>1 DEF OpenQuota, Goto
    <3>2. "done" \in PCs /\ Taken("done") = Taken("new") /\ Handled("done") = Handled("new")
      BY DEF PCs, Taken, Handled
    <3> QED BY <1>1, <3>1, <3>2, CountsStay
  <2>2. CASE ~(MaxConnections > 0 /\ quota >= MaxConnections)
    <3>1. pc[r] = "new" /\ pc' = [pc EXCEPT ![r] = "quota"] /\ quota' = quota + 1 /\ handles' = handles
      BY <1>4, <2>2 DEF OpenQuota, Goto
    <3>2. "quota" \in PCs /\ Taken("quota") - Taken("new") = 1 /\ Handled("quota") - Handled("new") = 0
      BY DEF PCs, Taken, Handled
    <3>3. MaxConnections > 0 => quota' <= MaxConnections BY <1>2, <2>2, <3>1
    <3>4. handles' = handles + (Handled("quota") - Handled("new")) BY <1>2, <3>1, <3>2
    <3> QED BY <1>1, <3>1, <3>2, <3>3, <3>4, CountsMove
  <2> QED BY <2>1, <2>2
<1>5. ASSUME NEW r \in Requests, AcquireOwnership(r) PROVE Balanced'
  <2>1. pc[r] = "quota" /\ pc' = [pc EXCEPT ![r] = "owned"] /\ quota' = quota /\ handles' = handles + 1
    BY <1>5 DEF AcquireOwnership, Goto
  <2>2. "owned" \in PCs /\ Taken("owned") - Taken("quota") = 0 /\ Handled("owned") - Handled("quota") = 1
    BY DEF PCs, Taken, Handled
  <2>3. /\ quota' = quota + (Taken("owned") - Taken("quota"))
        /\ MaxConnections > 0 => quota' <= MaxConnections
    BY <1>2, <2>1, <2>2 DEF Balanced
  <2> QED BY <1>1, <2>1, <2>2, <2>3, CountsMove
<1>6. ASSUME NEW r \in Requests, AcquireFails(r) PROVE Balanced'
  <2>1. pc[r] = "quota" /\ pc' = [pc EXCEPT ![r] = "done"] /\ quota' = quota - 1 /\ handles' = handles
    BY <1>6 DEF AcquireFails, Goto
  <2>2. "done" \in PCs /\ Taken("done") - Taken("quota") = -1 /\ Handled("done") - Handled("quota") = 0
    BY DEF PCs, Taken, Handled
  <2>3. /\ quota' = quota + (Taken("done") - Taken("quota"))
        /\ handles' = handles + (Handled("done") - Handled("quota"))
        /\ MaxConnections > 0 => quota' <= MaxConnections
    BY <1>2, <2>1, <2>2 DEF Balanced
  <2> QED BY <1>1, <2>1, <2>2, <2>3, CountsMove
<1>7. ASSUME NEW r \in Requests, OpenRefused(r) \/ AcceptFails(r) \/ Release(r) PROVE Balanced'
  <2>1. /\ pc[r] \in {"owned", "opened", "release"} /\ pc' = [pc EXCEPT ![r] = "done"]
        /\ quota' = quota - 1 /\ handles' = handles - 1
    BY <1>7 DEF OpenRefused, AcceptFails, Release, Goto
  <2>2. "done" \in PCs /\ Taken("done") - Taken(pc[r]) = -1 /\ Handled("done") - Handled(pc[r]) = -1
    BY <2>1 DEF PCs, Taken, Handled
  <2>3. /\ quota' = quota + (Taken("done") - Taken(pc[r]))
        /\ handles' = handles + (Handled("done") - Handled(pc[r]))
        /\ MaxConnections > 0 => quota' <= MaxConnections
    BY <1>2, <2>1, <2>2 DEF Balanced
  <2> QED BY <1>1, <2>1, <2>2, <2>3, CountsMove
<1>8. ASSUME NEW r \in Requests, UNCHANGED <<quota, handles>>,
             NEW step \in PCs \ {"new", "quota", "done"}, pc[r] \notin {"new", "quota", "done"},
             pc' = [pc EXCEPT ![r] = step]
      PROVE  Balanced'
  <2>1. Taken(step) = Taken(pc[r]) /\ Handled(step) = Handled(pc[r]) BY <1>8 DEF Taken, Handled
  <2> QED BY <1>1, <1>8, <2>1, CountsStay
<1>9. ASSUME NEW r \in Requests, NEW rest, pc[r] \in {"fanout", "removal"}, Fanout(r, rest),
             UNCHANGED <<quota, handles>>
      PROVE  Balanced'
  <2>1. CASE rest = {}
    <3>1. PICK step \in {"serving", "release"} : pc' = [pc EXCEPT ![r] = step]
      BY <1>9, <2>1 DEF Fanout, Goto
    <3> QED BY <1>8, <1>9, <3>1 DEF PCs
  <2>2. CASE rest # {} BY <1>3, <1>9, <2>2 DEF Fanout
  <2> QED BY <2>1, <2>2
<1>10. ASSUME NEW r \in Requests,
              \/ ProviderOpen(r) \/ Accept(r) \/ Bootstrap(r) \/ BootstrapWrite(r) \/ ReadFails(r)
              \/ Unregister(r) \/ CloseConnection(r) \/ \E msgs \in Envelopes : Handle(r, msgs)
       PROVE  Balanced'
  <2>1. UNCHANGED <<quota, handles>> /\ pc[r] \notin {"new", "quota", "done"}
    BY <1>10 DEF ProviderOpen, Accept, Bootstrap, BootstrapWrite, ReadFails, Unregister,
                 CloseConnection, Handle
  <2>2. \E step \in {"opened", "accepted", "bootstrap", "serving", "fanout", "cleanup", "close",
                     "removal", "release"} : pc' = [pc EXCEPT ![r] = step]
    BY <1>10 DEF ProviderOpen, Accept, Bootstrap, BootstrapWrite, ReadFails, Unregister,
                 CloseConnection, Handle, Goto
  <2> QED BY <1>8, <2>1, <2>2 DEF PCs
<1>11. ASSUME NEW r \in Requests, FanoutPeers(r) \/ \E q \in Requests : FanoutWrite(r, q)
       PROVE  Balanced'
  <2>1. /\ UNCHANGED <<quota, handles>> /\ pc[r] \in {"fanout", "removal"}
        /\ \E rest : Fanout(r, rest)
    BY <1>11 DEF FanoutPeers, FanoutWrite
  <2> QED BY <1>9, <2>1
<1>12. ASSUME NEW r \in Requests,
              Revalidator(r) \/ RevalidateDocumentAuthority(r) \/ BrowserLeaves(r)
       PROVE  Balanced'
  <2>1. UNCHANGED <<pc, quota, handles>>
    BY <1>12 DEF Revalidator, RevalidatorTick, RevalidatorEnds, RevalidateDocumentAuthority,
                 BrowserLeaves
  <2> QED BY <1>3, <2>1
<1>13. CASE LoseLease BY <1>3, <1>13 DEF LoseLease
<1> QED
  BY <1>4, <1>5, <1>6, <1>7, <1>10, <1>11, <1>12, <1>13 DEF Next, Admission, Serve

-----------------------------------------------------------------------------
(* The room and its members.                                               *)

RoomTyped == room = None \/ (room \in Rooms /\ room.members # {})

\* None is no room.
LEMMA RoomIsNotNone == ASSUME NEW x \in Rooms PROVE x # None
BY ServerAssumption DEF Rooms

\* A member means a room.
LEMMA MemberHasRoom ==
  ASSUME RoomTyped, NEW r \in Members
  PROVE  room \in Rooms /\ r \in room.members /\ Members = room.members /\ r \in Requests
BY DEF RoomTyped, Members, Rooms

\* Provider.Open, which loads the room for the first connection.
LEMMA OpenRoom ==
  ASSUME RoomTyped, epoch \in Nat, NEW r \in Requests, ProviderOpen(r)
  PROVE  RoomTyped' /\ Members' = Members \cup {r}
<1>1. CASE room = None
  <2>1. room' = [members |-> {r}, epoch |-> epoch, lost |-> FALSE] BY <1>1 DEF ProviderOpen
  <2>2. room' \in Rooms BY <2>1 DEF Rooms
  <2>3. room' # None /\ room'.members = {r} BY <2>1, <2>2, RoomIsNotNone
  <2> QED BY <1>1, <2>2, <2>3 DEF RoomTyped, Members
<1>2. CASE room # None
  <2>1. room' = [room EXCEPT !.members = @ \cup {r}] BY <1>2 DEF ProviderOpen
  <2>2. room' \in Rooms /\ room'.members = room.members \cup {r} BY <1>2, <2>1 DEF RoomTyped, Rooms
  <2>3. room' # None BY <2>2, RoomIsNotNone
  <2> QED BY <1>2, <2>2, <2>3 DEF RoomTyped, Members
<1> QED BY <1>1, <1>2

\* A connection leaves; what it persists may mark the room.
LEMMA LeaveRoom ==
  ASSUME RoomTyped, NEW r \in Members,
         room' = Left(r) \/ (Left(r) # None /\ room' = [Left(r) EXCEPT !.lost = TRUE])
  PROVE  RoomTyped' /\ Members' = Members \ {r}
<1>1. room \in Rooms /\ r \in room.members /\ Members = room.members BY MemberHasRoom
<1>2. CASE room.members = {r}
  <2>1. room' = None BY <1>2 DEF Left
  <2> QED BY <1>1, <1>2, <2>1 DEF RoomTyped, Members
<1>3. CASE room.members # {r}
  <2> DEFINE left == [room EXCEPT !.members = @ \ {r}]
  <2>1. left \in Rooms /\ left.members = room.members \ {r} BY <1>1 DEF Rooms
  <2>2. room' = left \/ room' = [left EXCEPT !.lost = TRUE] BY <1>3 DEF Left
  <2> HIDE DEF left
  <2>3. room' \in Rooms /\ room'.members = room.members \ {r} BY <2>1, <2>2 DEF Rooms
  <2>4. room' # None BY <2>3, RoomIsNotNone
  <2>5. room'.members # {} BY <1>1, <1>3, <2>3
  <2> QED BY <1>1, <2>3, <2>4, <2>5 DEF RoomTyped, Members
<1> QED BY <1>2, <1>3

\* A session that finds the authority gone marks the room and leaves nobody out.
LEMMA MarkRoom ==
  ASSUME RoomTyped, NEW r \in Members, room' = [room EXCEPT !.lost = TRUE]
  PROVE  RoomTyped' /\ Members' = Members
<1>1. room \in Rooms /\ Members = room.members /\ room.members # {} BY MemberHasRoom
<1>2. room' \in Rooms /\ room'.members = room.members BY <1>1 DEF Rooms
<1>3. room' # None BY <1>2, RoomIsNotNone
<1> QED BY <1>1, <1>2, <1>3 DEF RoomTyped, Members

\* What a step does to the goroutines and the room, when it does not change who
\* is in the room and registers nobody.
Quiet(r, step) ==
  /\ pc' = [pc EXCEPT ![r] = step]
  /\ step \in Inside <=> pc[r] \in Inside
  /\ step \in Live => pc[r] \in Live
  /\ RoomTyped' /\ Members' = Members
  /\ UNCHANGED registry

\* A step of that kind keeps what relates goroutines, room and registry.
LEMMA QuietKeeps ==
  ASSUME Structure, NEW r \in Requests, NEW step \in PCs, Quiet(r, step)
  PROVE  /\ pc' \in [Requests -> PCs] /\ MembersInside' /\ MembersDistinct' /\ ServingIsRegistered'
         /\ registry' \in [Ids -> Requests \cup {None}]
<1>1. pc'[r] = step /\ (\A q \in Requests \ {r} : pc'[q] = pc[q]) /\ pc' \in [Requests -> PCs]
  BY DEF Structure, TypedServer, Quiet
<1>2. MembersInside' BY <1>1 DEF Structure, MembersInside, Quiet
<1>3. MembersDistinct' BY DEF Structure, MembersDistinct, Quiet
<1>4. ServingIsRegistered' BY <1>1 DEF Structure, ServingIsRegistered, Quiet, Live
<1> QED BY <1>1, <1>2, <1>3, <1>4 DEF Structure, TypedServer, Quiet

\* Most steps are such steps.
LEMMA MostAreQuiet ==
  ASSUME Structure, NEW r \in Requests,
         \/ OpenQuota(r) \/ AcquireOwnership(r) \/ AcquireFails(r) \/ OpenRefused(r)
         \/ Bootstrap(r) \/ BootstrapWrite(r) \/ FanoutPeers(r)
         \/ (\E q \in Requests : FanoutWrite(r, q)) \/ ReadFails(r) \/ Release(r)
         \/ Revalidator(r) \/ RevalidateDocumentAuthority(r) \/ BrowserLeaves(r)
         \/ (\E msgs \in Envelopes : Handle(r, msgs))
  PROVE  \E step \in PCs : Quiet(r, step)
<1>1. pc \in [Requests -> PCs] /\ RoomTyped BY DEF Structure, TypedServer, RoomTyped
<1>2. ASSUME UNCHANGED <<room, registry>>, NEW step \in PCs, pc' = [pc EXCEPT ![r] = step],
             step \in Inside <=> pc[r] \in Inside, step \in Live => pc[r] \in Live
      PROVE  Quiet(r, step)
  BY <1>1, <1>2 DEF Quiet, RoomTyped, Members
<1>3. CASE UNCHANGED <<pc, registry>> /\ (UNCHANGED room \/ (r \in Members /\ room' = [room EXCEPT !.lost = TRUE]))
  <2>1. RoomTyped' /\ Members' = Members BY <1>1, <1>3, MarkRoom DEF RoomTyped, Members
  <2>2. pc' = [pc EXCEPT ![r] = pc[r]] /\ pc[r] \in PCs BY <1>1, <1>3
  <2> QED BY <1>3, <2>1, <2>2 DEF Quiet
<1>4. CASE OpenQuota(r) \/ AcquireOwnership(r) \/ AcquireFails(r) \/ OpenRefused(r) \/ Release(r)
  <2>1. /\ UNCHANGED <<room, registry>> /\ pc[r] \notin Inside
        /\ \E step \in {"done", "quota", "owned"} : pc' = [pc EXCEPT ![r] = step]
    BY <1>4 DEF OpenQuota, AcquireOwnership, AcquireFails, OpenRefused, Release, Goto, Inside, server
  <2> QED BY <1>2, <2>1 DEF PCs, Inside, Live
<1>5. CASE Bootstrap(r) \/ BootstrapWrite(r) \/ ReadFails(r)
           \/ \E msgs \in Envelopes : Handle(r, msgs)
  <2>1. /\ UNCHANGED <<room, registry>> /\ pc[r] \in Live
        /\ \E step \in {"bootstrap", "serving", "cleanup", "fanout"} : pc' = [pc EXCEPT ![r] = step]
    BY <1>5 DEF Bootstrap, BootstrapWrite, ReadFails, Handle, Goto, Live, server
  <2> QED BY <1>2, <2>1 DEF PCs, Inside, Live
<1>6. CASE FanoutPeers(r) \/ \E q \in Requests : FanoutWrite(r, q)
  <2>1. /\ UNCHANGED <<room, registry>> /\ pc[r] \in {"fanout", "removal"}
        /\ \E rest : Fanout(r, rest)
    BY <1>6 DEF FanoutPeers, FanoutWrite, server
  <2>2. \/ UNCHANGED pc
        \/ pc' = [pc EXCEPT ![r] = IF pc[r] = "fanout" THEN "serving" ELSE "release"]
    BY <2>1 DEF Fanout, Goto
  <2>3. CASE UNCHANGED pc BY <1>3, <2>1, <2>3
  <2>4. CASE pc[r] = "fanout" /\ pc' = [pc EXCEPT ![r] = "serving"]
    BY <1>2, <2>1, <2>4 DEF PCs, Inside, Live
  <2>5. CASE pc[r] = "removal" /\ pc' = [pc EXCEPT ![r] = "release"]
    BY <1>2, <2>1, <2>5 DEF PCs, Inside, Live
  <2> QED BY <2>1, <2>2, <2>3, <2>4, <2>5
<1>7. CASE Revalidator(r) \/ RevalidateDocumentAuthority(r) \/ BrowserLeaves(r)
  <2>1. UNCHANGED <<pc, registry>> /\ (UNCHANGED room \/ (r \in Members /\ room' = [room EXCEPT !.lost = TRUE]))
    <3>1. CASE RevalidatorTick(r) BY <3>1 DEF RevalidatorTick, EndSession, Lost
    <3>2. CASE RevalidatorEnds(r) BY <3>2 DEF RevalidatorEnds
    <3>3. CASE RevalidateDocumentAuthority(r)
      BY <3>3 DEF RevalidateDocumentAuthority, EndSession, Lost
    <3>4. CASE BrowserLeaves(r) BY <3>4 DEF BrowserLeaves, server
    <3> QED BY <1>7, <3>1, <3>2, <3>3, <3>4 DEF Revalidator
  <2> QED BY <1>3, <2>1
<1> QED BY <1>4, <1>5, <1>6, <1>7

\* The variables no argument about the room needs.
LEMMA TypedStep ==
  ASSUME TypedServer, Next
  PROVE  /\ epoch' \in Nat /\ held' \in BOOLEAN
         /\ sessions' \in [Ids -> Requests \cup {None}]
         /\ socket' \in [Requests -> {"none", "open", "closed"}]
<1>1. epoch' \in Nat /\ held' \in BOOLEAN
  <2>1. CASE UNCHANGED <<epoch, held>> BY <2>1 DEF TypedServer
  <2>2. ASSUME NEW r \in Requests, AcquireOwnership(r) PROVE epoch' \in Nat /\ held' \in BOOLEAN
    <3>1. UNCHANGED <<held, epoch>> \/ (held' = TRUE /\ epoch' = epoch + 1)
      BY <2>2 DEF AcquireOwnership, cluster
    <3>2. epoch' \in Nat BY <3>1 DEF TypedServer
    <3>3. held' \in BOOLEAN BY <3>1 DEF TypedServer
    <3> QED BY <3>2, <3>3
  <2>3. ASSUME NEW r \in Requests, \/ OpenQuota(r) \/ AcquireFails(r)
                 \/ ProviderOpen(r) \/ OpenRefused(r) \/ Accept(r) \/ AcceptFails(r)
        PROVE UNCHANGED <<epoch, held>>
    BY <2>3 DEF OpenQuota, AcquireFails, ProviderOpen, OpenRefused, Accept, AcceptFails, cluster
  <2>4. ASSUME NEW r \in Requests, Serve(r) PROVE UNCHANGED <<epoch, held>>
    BY <2>4 DEF Serve, Bootstrap, BootstrapWrite, FanoutPeers, FanoutWrite, ReadFails, Unregister,
                CloseConnection, Release, cluster
  <2>5. ASSUME NEW r \in Requests, Revalidator(r) \/ RevalidateDocumentAuthority(r) \/ BrowserLeaves(r)
                 \/ \E msgs \in Envelopes : Handle(r, msgs)
        PROVE UNCHANGED <<epoch, held>>
    BY <2>5 DEF Revalidator, RevalidatorTick, RevalidatorEnds, RevalidateDocumentAuthority,
                BrowserLeaves, Handle, cluster
  <2>6. CASE LoseLease BY <2>6 DEF LoseLease, TypedServer
  <2> QED BY <2>1, <2>2, <2>3, <2>4, <2>5, <2>6 DEF Next, Admission
<1>2. sessions' \in [Ids -> Requests \cup {None}]
  <2>1. ASSUME NEW r \in Requests, sessions' \in {[sessions EXCEPT ![IdOf[r]] = r], [sessions EXCEPT ![IdOf[r]] = None]}
        PROVE sessions' \in [Ids -> Requests \cup {None}]
    BY <2>1 DEF TypedServer
  <2>2. CASE UNCHANGED sessions BY <2>2 DEF TypedServer
  <2>3. ASSUME NEW r \in Requests, OpenQuota(r) \/ Admission(r)
        PROVE  UNCHANGED sessions \/ sessions' = [sessions EXCEPT ![IdOf[r]] = r]
    BY <2>3 DEF Admission, OpenQuota, AcquireOwnership, AcquireFails, ProviderOpen, OpenRefused, Accept,
                AcceptFails, server
  <2>4. ASSUME NEW r \in Requests, Serve(r) PROVE UNCHANGED sessions
    BY <2>4 DEF Serve, Bootstrap, BootstrapWrite, FanoutPeers, FanoutWrite, ReadFails, Unregister,
                CloseConnection, Release, server
  <2>5. ASSUME NEW r \in Requests, Revalidator(r) \/ RevalidateDocumentAuthority(r) \/ BrowserLeaves(r)
                 \/ \E msgs \in Envelopes : Handle(r, msgs)
        PROVE  UNCHANGED sessions \/ sessions' = [sessions EXCEPT ![IdOf[r]] = None]
    BY <2>5 DEF Revalidator, RevalidatorTick, RevalidatorEnds, RevalidateDocumentAuthority,
                BrowserLeaves, Handle, server
  <2>6. CASE LoseLease BY <2>2, <2>6 DEF LoseLease, server
  <2> QED BY <2>1, <2>2, <2>3, <2>4, <2>5, <2>6 DEF Next
<1>3. socket' \in [Requests -> {"none", "open", "closed"}]
  <2>1. ASSUME NEW q, NEW s \in {"open", "closed"}, socket' = [socket EXCEPT ![q] = s]
        PROVE  socket' \in [Requests -> {"none", "open", "closed"}]
    BY <2>1 DEF TypedServer
  <2>2. CASE UNCHANGED socket BY <2>2 DEF TypedServer
  <2>3. ASSUME NEW r \in Requests, OpenQuota(r) \/ Admission(r)
        PROVE  UNCHANGED socket \/ socket' = [socket EXCEPT ![r] = "open"]
    BY <2>3 DEF Admission, OpenQuota, AcquireOwnership, AcquireFails, ProviderOpen, OpenRefused, Accept,
                AcceptFails
  <2>4. ASSUME NEW r \in Requests, Serve(r)
        PROVE  UNCHANGED socket \/ \E q : socket' = [socket EXCEPT ![q] = "closed"]
    BY <2>4 DEF Serve, Bootstrap, BootstrapWrite, FanoutPeers, FanoutWrite, ReadFails, Unregister,
                CloseConnection, Release
  <2>5. ASSUME NEW r \in Requests, Revalidator(r) \/ RevalidateDocumentAuthority(r) \/ BrowserLeaves(r)
                 \/ \E msgs \in Envelopes : Handle(r, msgs)
        PROVE  UNCHANGED socket \/ socket' = [socket EXCEPT ![r] = "closed"]
    BY <2>5 DEF Revalidator, RevalidatorTick, RevalidatorEnds, RevalidateDocumentAuthority,
                BrowserLeaves, Handle, EndSession
  <2>6. CASE LoseLease BY <2>2, <2>6 DEF LoseLease
  <2> QED BY <2>1, <2>2, <2>3, <2>4, <2>5, <2>6 DEF Next
<1> QED BY <1>1, <1>2, <1>3

\* Who is in the room, and who is registered, follow the goroutines.
LEMMA StructureStep == ASSUME Structure, Next PROVE Structure'
<1> DEFINE Goal == /\ pc' \in [Requests -> PCs] /\ RoomTyped'
                   /\ registry' \in [Ids -> Requests \cup {None}]
                   /\ MembersInside' /\ MembersDistinct' /\ ServingIsRegistered'
<1>0. SUFFICES Goal
  <2>1. TypedServer BY DEF Structure
  <2> QED BY <2>1, TypedStep DEF Structure, TypedServer, RoomTyped
<1>1. /\ pc \in [Requests -> PCs] /\ RoomTyped /\ registry \in [Ids -> Requests \cup {None}]
      /\ epoch \in Nat
      /\ MembersInside /\ MembersDistinct /\ ServingIsRegistered
  BY DEF Structure, TypedServer, RoomTyped
<1>2. ASSUME NEW r \in Requests, ProviderOpen(r) PROVE Goal
  <2>1. RoomTyped' /\ Members' = Members \cup {r} BY <1>1, <1>2, OpenRoom
  <2>2. /\ pc[r] = "owned" /\ pc' = [pc EXCEPT ![r] = "opened"] /\ UNCHANGED registry
    BY <1>2 DEF ProviderOpen, Goto, server
  <2>3. \A q \in Members : IdOf[q] # IdOf[r] /\ ClientOf[q] # ClientOf[r]
    BY <1>2 DEF ProviderOpen, Refused, Members
  <2>4. pc' \in [Requests -> PCs] BY <1>1, <2>2 DEF PCs
  <2>5. MembersInside' BY <1>1, <2>1, <2>2 DEF MembersInside, Inside
  <2>6. MembersDistinct' BY <1>1, <2>1, <2>3 DEF MembersDistinct
  <2>7. ServingIsRegistered' BY <1>1, <2>2 DEF ServingIsRegistered
  <2> QED BY <1>1, <2>1, <2>2, <2>4, <2>5, <2>6, <2>7
<1>3. ASSUME NEW r \in Requests, AcceptFails(r) \/ CloseConnection(r) PROVE Goal
  <2>1. /\ pc[r] \in {"opened", "close"} /\ UNCHANGED registry
        /\ \E step \in {"done", "release", "removal"} : pc' = [pc EXCEPT ![r] = step]
    BY <1>3 DEF AcceptFails, CloseConnection, Goto, server
  <2>2. r \in Members BY <1>1, <2>1 DEF MembersInside, Inside
  <2>3. room' = Left(r) \/ (Left(r) # None /\ room' = [Left(r) EXCEPT !.lost = TRUE])
    BY <1>3 DEF AcceptFails, CloseConnection
  <2>4. RoomTyped' /\ Members' = Members \ {r} BY <1>1, <2>2, <2>3, LeaveRoom
  <2>5. pc' \in [Requests -> PCs] BY <1>1, <2>1 DEF PCs
  <2>6. MembersInside' BY <1>1, <2>1, <2>4 DEF MembersInside, Inside
  <2>7. MembersDistinct' BY <1>1, <2>4 DEF MembersDistinct
  <2>8. ServingIsRegistered' BY <1>1, <2>1 DEF ServingIsRegistered
  <2> QED BY <1>1, <2>1, <2>4, <2>5, <2>6, <2>7, <2>8
<1>4. ASSUME NEW r \in Requests, Accept(r) \/ Unregister(r) PROVE Goal
  <2>1. PICK x \in {r, None}, step \in {"accepted", "close"} :
          /\ pc' = [pc EXCEPT ![r] = step] /\ registry' = [registry EXCEPT ![IdOf[r]] = x]
          /\ step = "accepted" => x = r
    BY <1>4 DEF Accept, Unregister, Goto
  <2>2. pc[r] \in {"opened", "cleanup"} /\ UNCHANGED room BY <1>4 DEF Accept, Unregister
  <2>3. r \in Members BY <1>1, <2>2 DEF MembersInside, Inside
  <2>4. \A q \in Requests \ {r} : pc[q] \in Live => IdOf[q] # IdOf[r]
    BY <1>1, <2>3 DEF MembersInside, MembersDistinct, Inside, Live
  <2>5. pc' \in [Requests -> PCs] /\ registry' \in [Ids -> Requests \cup {None}]
    BY <1>1, <2>1 DEF PCs
  <2>6. RoomTyped' /\ Members' = Members BY <1>1, <2>2 DEF RoomTyped, Members
  <2>7. MembersInside' BY <1>1, <2>1, <2>2, <2>6 DEF MembersInside, Inside
  <2>8. MembersDistinct' BY <1>1, <2>6 DEF MembersDistinct
  <2>9. ASSUME NEW q \in Requests, pc'[q] \in Live PROVE registry'[IdOf[q]] = q
    <3>0. IdOf[q] \in Ids /\ IdOf[r] \in Ids BY ServerAssumption
    <3>1. CASE q = r BY <1>1, <2>1, <2>9, <3>0, <3>1 DEF Live
    <3>2. CASE q # r
      <4>1. pc'[q] = pc[q] BY <1>1, <2>1, <3>2
      <4>2. IdOf[q] # IdOf[r] /\ registry[IdOf[q]] = q
        BY <1>1, <2>4, <2>9, <3>2, <4>1 DEF ServingIsRegistered, Live
      <4> QED BY <1>1, <2>1, <3>0, <4>2
    <3> QED BY <3>1, <3>2
  <2>10. ServingIsRegistered' BY <2>9 DEF ServingIsRegistered, Live
  <2> QED BY <2>5, <2>6, <2>7, <2>8, <2>10
<1>5. ASSUME NEW r \in Requests, \E step \in PCs : Quiet(r, step) PROVE Goal
  <2>1. PICK step \in PCs : Quiet(r, step) BY <1>5
  <2> QED BY <2>1, QuietKeeps DEF Quiet
<1>6. CASE LoseLease
  <2>1. UNCHANGED <<pc, room, registry>> BY <1>6 DEF LoseLease, server
  <2> QED BY <1>1, <2>1 DEF RoomTyped, MembersInside, MembersDistinct, ServingIsRegistered, Members
<1> HIDE DEF Goal
<1> QED BY <1>2, <1>3, <1>4, <1>5, <1>6, MostAreQuiet DEF Next, Admission, Serve

-----------------------------------------------------------------------------
(* Awareness: what one message does to what is known of a client.          *)

\* An entry's fields; a state has a clock.
LEMMA EntryFields ==
  ASSUME NEW e \in Entry
  PROVE  /\ e.clock \in Int /\ e.clock >= -1 /\ (HasState(e) => e.clock >= 0)
         /\ HasMeta(e) <=> e \in [clock : Nat, state : {Here, Null}]
<1>1. Unknown.clock = -1 /\ Unknown.state = Null BY DEF Unknown
<1>2. CASE e \in [clock : Nat, state : {Here, Null}] BY <1>2 DEF HasMeta
<1>3. CASE e = Unknown BY <1>1, <1>3 DEF HasMeta, HasState
<1> QED BY <1>2, <1>3 DEF Entry

\* Clocks only grow, past the message's; a browser shows a state it had or a
\* newer one it is told of, and a removal no older than what it shows ends it.
LEMMA Applied ==
  ASSUME NEW e \in Entry, NEW m \in Msg, NEW isLocal \in BOOLEAN
  PROVE  /\ ApplyClient(e, isLocal, m) \in Entry
         /\ ApplyClient(e, isLocal, m).clock >= e.clock
         /\ ApplyClient(e, isLocal, m).clock >= m.clock
         /\ ~isLocal /\ HasState(ApplyClient(e, isLocal, m)) =>
              \/ ApplyClient(e, isLocal, m) = e
              \/ /\ ApplyClient(e, isLocal, m).clock = m.clock
                 /\ m.state # Null /\ e.clock < m.clock
         /\ ~isLocal /\ m.state = Null /\ m.clock >= e.clock =>
              ~HasState(ApplyClient(e, isLocal, m))
<1>0. m.clock \in Nat /\ m.state \in {Here, Null} BY DEF Msg
<1>1. e.clock \in Int /\ e.clock >= -1 /\ (HasState(e) => e.clock >= 0) BY EntryFields
<1>2. CASE Outdated(e, m)
  <2>1. ApplyClient(e, isLocal, m) = e BY <1>2 DEF ApplyClient
  <2>2. e.clock >= m.clock BY <1>0, <1>1, <1>2 DEF Outdated
  <2>3. m.state = Null /\ m.clock >= e.clock => ~HasState(e)
    BY <1>0, <1>1, <1>2 DEF Outdated
  <2>4. e.clock >= e.clock BY <1>1
  <2> QED BY <2>1, <2>2, <2>3, <2>4
<1>3. CASE ~Outdated(e, m) /\ m.state = Null /\ isLocal /\ HasState(e)
  <2>1. ApplyClient(e, isLocal, m) = [e EXCEPT !.clock = m.clock + 1] BY <1>3 DEF ApplyClient
  <2>2. e \in [clock : Nat, state : {Here, Null}] BY <1>1, <1>3, EntryFields DEF HasMeta
  <2>3. [e EXCEPT !.clock = m.clock + 1] \in Entry /\ [e EXCEPT !.clock = m.clock + 1].clock = m.clock + 1
    BY <1>0, <2>2 DEF Entry
  <2>4. m.clock >= e.clock BY <1>0, <1>1, <1>3, <2>2 DEF Outdated, HasMeta
  <2>5. m.clock + 1 >= e.clock /\ m.clock + 1 >= m.clock BY <1>0, <1>1, <2>4
  <2>6. /\ ApplyClient(e, isLocal, m) \in Entry
        /\ ApplyClient(e, isLocal, m).clock >= e.clock
        /\ ApplyClient(e, isLocal, m).clock >= m.clock
    BY <2>1, <2>3, <2>5
  <2> QED BY <1>3, <2>6, Zenon
<1>4. CASE ~Outdated(e, m) /\ ~(m.state = Null /\ isLocal /\ HasState(e))
  <2> DEFINE new == [clock |-> m.clock, state |-> m.state]
  <2>1. ApplyClient(e, isLocal, m) = new BY <1>4 DEF ApplyClient
  <2>2. new \in Entry /\ new.clock = m.clock /\ new.state = m.state BY <1>0 DEF Entry
  <2>3. m.clock >= e.clock /\ (m.state # Null => e.clock < m.clock)
    BY <1>0, <1>1, <1>4 DEF Outdated, HasMeta
  <2> HIDE DEF new
  <2> QED BY <1>0, <1>1, <2>1, <2>2, <2>3 DEF HasState
<1> QED BY <1>2, <1>3, <1>4

\* What a connection says of its client.
LEMMA UpdateTyped ==
  ASSUME NEW e \in Entry, NEW c \in Clients
  PROVE  /\ UpdateFor(c, e) \subseteq Msg
         /\ \A m \in UpdateFor(c, e) : m.client = c /\ m.clock = e.clock /\ m.state = e.state
<1>1. CASE HasMeta(e)
  <2>1. e \in [clock : Nat, state : {Here, Null}] BY <1>1, EntryFields
  <2>2. UpdateFor(c, e) = {[client |-> c, clock |-> e.clock, state |-> e.state]}
    BY <1>1 DEF UpdateFor
  <2>3. [client |-> c, clock |-> e.clock, state |-> e.state] \in Msg BY <2>1 DEF Msg
  <2> QED BY <2>2, <2>3
<1>2. CASE ~HasMeta(e) BY <1>2 DEF UpdateFor
<1> QED BY <1>1, <1>2

\* The removal that Connection.Close sends has the next clock.
LEMMA RemovalFacts ==
  ASSUME NEW r \in Requests, session[r] \in Entry, ClientOf[r] \in Clients
  PROVE  /\ Removal(r) \subseteq Msg
         /\ Removal(r) = {} <=> ~HasMeta(session[r])
         /\ \A m \in Removal(r) : /\ m.client = ClientOf[r] /\ m.state = Null
                                  /\ m.clock >= session[r].clock
<1> DEFINE e == SetLocalState(session[r], Null)
<1>1. CASE HasMeta(session[r])
  <2>1. session[r].clock \in Nat BY <1>1, EntryFields DEF HasMeta
  <2>2. e = [clock |-> session[r].clock + 1, state |-> Null] BY DEF SetLocalState
  <2>3. e \in Entry /\ e.clock = session[r].clock + 1 /\ e.state = Null BY <2>1, <2>2 DEF Entry
  <2>4. Removal(r) = UpdateFor(ClientOf[r], e) BY <1>1 DEF Removal
  <2> HIDE DEF e
  <2>5. UpdateFor(ClientOf[r], e) # {}
    <3>1. HasMeta(e) BY <2>1, <2>3 DEF HasMeta
    <3> QED BY <3>1 DEF UpdateFor
  <2>6. e.clock >= session[r].clock BY <2>1, <2>3
  <2> QED BY <1>1, <2>3, <2>4, <2>5, <2>6, UpdateTyped
<1>2. CASE ~HasMeta(session[r]) BY <1>2 DEF Removal
<1> QED BY <1>1, <1>2

\* A message reaches one browser: of the clients it is about, each is updated by
\* something the message says of it.
LEMMA Received ==
  ASSUME view \in [Requests -> [Clients -> Entry]], NEW q \in Requests, NEW msgs \in SUBSET Msg,
         view' = Receive(q, msgs)
  PROVE  /\ view' \in [Requests -> [Clients -> Entry]]
         /\ \A p \in Requests \ {q} : view'[p] = view[p]
         /\ \A c \in Clients :
              \/ view'[q][c] = view[q][c] /\ \A x \in msgs : x.client # c
              \/ \E x \in msgs : x.client = c /\ view'[q][c] = ApplyClient(view[q][c], FALSE, x)
<1> DEFINE about(c) == {x \in msgs : x.client = c}
           told(c) == IF about(c) = {} THEN view[q][c]
                      ELSE ApplyClient(view[q][c], FALSE, CHOOSE x \in about(c) : TRUE)
<1>1. view' = [view EXCEPT ![q] = [c \in Clients |-> told(c)]] BY DEF Receive, Told
<1>2. ASSUME NEW c \in Clients
      PROVE  /\ told(c) \in Entry
             /\ \/ told(c) = view[q][c] /\ \A x \in msgs : x.client # c
                \/ \E x \in msgs : x.client = c /\ told(c) = ApplyClient(view[q][c], FALSE, x)
  <2>0. view[q][c] \in Entry OBVIOUS
  <2>1. CASE about(c) = {} BY <2>0, <2>1
  <2>2. CASE about(c) # {}
    <3>0. (CHOOSE y \in about(c) : TRUE) \in about(c)
      <4> HIDE DEF about
      <4> QED BY <2>2
    <3>1. PICK x \in about(c) : x = CHOOSE y \in about(c) : TRUE
      <4> HIDE DEF about
      <4> QED BY <3>0
    <3>2. told(c) = ApplyClient(view[q][c], FALSE, x) BY <2>2, <3>1
    <3>3. x \in Msg BY <3>1
    <3>4. ApplyClient(view[q][c], FALSE, x) \in Entry BY <2>0, <3>3, Applied
    <3> QED BY <3>1, <3>2, <3>4
  <2> QED BY <2>1, <2>2
<1> HIDE DEF told
<1>3. view'[q] = [c \in Clients |-> told(c)] /\ \A p \in Requests \ {q} : view'[p] = view[p]
  BY <1>1
<1>4. view' \in [Requests -> [Clients -> Entry]] BY <1>1, <1>2
<1>5. \A c \in Clients : view'[q][c] = told(c) BY <1>3
<1> HIDE DEF about
<1>6. ASSUME NEW c \in Clients
      PROVE  \/ view'[q][c] = view[q][c] /\ \A x \in msgs : x.client # c
             \/ \E x \in msgs : x.client = c /\ view'[q][c] = ApplyClient(view[q][c], FALSE, x)
  <2>1. view'[q][c] = told(c) BY <1>5
  <2> QED BY <1>2, <2>1, Zenon
<1> QED BY <1>3, <1>4, <1>6

-----------------------------------------------------------------------------
(* The evidence, step by step.                                             *)

\* The steps that change no message, no entry and no view: a connection that
\* leaves by them had no state yet, and a socket that is accepted shows nothing.
LEMMA GhostQuiet ==
  ASSUME GhostInv, UNCHANGED <<session, out, view, echoed>>,
         \A r \in Requests :
           /\ pc'[r] = "removal" <=> pc[r] = "removal"
           /\ pc'[r] = "fanout" => pc[r] = "fanout"
           /\ pc'[r] = "bootstrap" => pc[r] = "bootstrap"
           /\ pc'[r] \in Early => pc[r] \in Early
           /\ r \in Members => r \in Members' \/ pc[r] \in Early
           /\ Listening(r)' => Listening(r) \/ pc[r] \in Early,
         \A i \in Ids : registry'[i] \in {registry[i], None} \/ pc'[registry'[i]] \notin Early
  PROVE  GhostInv'
<1>1. TypedAwareness' BY DEF GhostInv, TypedAwareness
<1>2. OwnMessages' BY DEF GhostInv, OwnMessages
<1>3. EarlyBlank' BY ServerAssumption DEF GhostInv, EarlyBlank
<1>4. ASSUME NEW q \in Requests, NEW c \in Clients \ echoed, NEW k \in Nat, Listening(q)',
             Shows(q, c, k)' \/ Pending(q, c, k)'
      PROVE  Evident(q, c, k)'
  <2>1. Shows(q, c, k) \/ Pending(q, c, k) BY <1>4 DEF Shows, Pending
  <2>2. pc[q] \notin Early
    <3>1. ~HasState(Unknown) BY DEF HasState, Unknown
    <3>2. pc[q] \in Early => ~Shows(q, c, k) BY <3>1 DEF GhostInv, EarlyBlank, Shows
    <3>3. pc[q] \in Early => ~Pending(q, c, k) BY DEF Pending, Early
    <3> QED BY <2>1, <3>2, <3>3
  <2>3. PICK r \in Requests : ClientOf[r] = c /\ Vouches(r, q, k)
    BY <1>4, <2>1, <2>2 DEF GhostInv, ViewsEvident, Evident
  <2>4. pc[r] \in Early => ~(session[r].clock >= k)
    BY DEF GhostInv, EarlyBlank, Unknown
  <2>5. Vouches(r, q, k)' BY <2>3, <2>4 DEF Vouches
  <2> QED BY <2>3, <2>5 DEF Evident
<1>5. ViewsEvident' BY <1>4 DEF ViewsEvident
<1> QED BY <1>1, <1>2, <1>3, <1>5 DEF GhostInv

\* Which steps those are.
LEMMA QuietGhosts ==
  ASSUME Structure, GhostInv, NEW r \in Requests,
         \/ OpenQuota(r) \/ AcquireOwnership(r) \/ AcquireFails(r) \/ OpenRefused(r)
         \/ ProviderOpen(r) \/ AcceptFails(r) \/ Accept(r)
         \/ ReadFails(r) \/ Unregister(r)
         \/ Revalidator(r) \/ RevalidateDocumentAuthority(r) \/ BrowserLeaves(r)
         \/ Bootstrap(r) /\ room.lost
         \/ \E msgs \in Envelopes : Handle(r, msgs) /\ room.lost
  PROVE  GhostInv'
<1>0. /\ pc \in [Requests -> PCs] /\ registry \in [Ids -> Requests \cup {None}] /\ RoomTyped
      /\ socket \in [Requests -> {"none", "open", "closed"}] /\ epoch \in Nat
  BY DEF Structure, TypedServer, RoomTyped
<1>1. UNCHANGED <<session, out, view, echoed>>
  BY DEF OpenQuota, AcquireOwnership, AcquireFails, OpenRefused, ProviderOpen, AcceptFails, Accept,
     ReadFails, Unregister, Revalidator, RevalidatorTick, RevalidatorEnds,
     RevalidateDocumentAuthority, BrowserLeaves, Bootstrap, Handle, browser
<1> DEFINE Ok(step) == /\ step \in PCs
                       /\ step # "removal" /\ step # "fanout" /\ step # "bootstrap"
                       /\ pc[r] # "removal"
                       /\ step \in Early => pc[r] \in Early
<1>2. \/ UNCHANGED pc
      \/ \E step \in PCs : Ok(step) /\ pc' = [pc EXCEPT ![r] = step]
  <2>1. CASE OpenQuota(r)
    <3>1. pc[r] = "new" /\ \E step \in {"done", "quota"} : pc' = [pc EXCEPT ![r] = step]
      BY <2>1 DEF OpenQuota, Goto
    <3> QED BY <3>1 DEF PCs, Early
  <2>2. CASE AcquireOwnership(r) \/ AcquireFails(r)
    <3>1. pc[r] = "quota" /\ \E step \in {"done", "owned"} : pc' = [pc EXCEPT ![r] = step]
      BY <2>2 DEF AcquireOwnership, AcquireFails, Goto
    <3> QED BY <3>1 DEF PCs, Early
  <2>3. CASE OpenRefused(r) \/ ProviderOpen(r)
    <3>1. pc[r] = "owned" /\ \E step \in {"done", "opened"} : pc' = [pc EXCEPT ![r] = step]
      BY <2>3 DEF OpenRefused, ProviderOpen, Goto
    <3> QED BY <3>1 DEF PCs, Early
  <2>4. CASE AcceptFails(r) \/ Accept(r)
    <3>1. pc[r] = "opened" /\ \E step \in {"done", "accepted"} : pc' = [pc EXCEPT ![r] = step]
      BY <2>4 DEF AcceptFails, Accept, Goto
    <3> QED BY <3>1 DEF PCs, Early
  <2>5. CASE ReadFails(r) \/ Unregister(r) \/ (Bootstrap(r) /\ room.lost)
             \/ \E msgs \in Envelopes : Handle(r, msgs) /\ room.lost
    <3>1. /\ pc[r] \in {"serving", "cleanup", "accepted"}
          /\ \E step \in {"cleanup", "close"} : pc' = [pc EXCEPT ![r] = step]
      BY <2>5 DEF ReadFails, Unregister, Bootstrap, Handle, Goto
    <3> QED BY <3>1 DEF PCs, Early
  <2>6. CASE Revalidator(r) \/ RevalidateDocumentAuthority(r) \/ BrowserLeaves(r)
    BY <2>6 DEF Revalidator, RevalidatorTick, RevalidatorEnds, RevalidateDocumentAuthority,
       BrowserLeaves
  <2> QED BY <2>1, <2>2, <2>3, <2>4, <2>5, <2>6
<1>3. \A p \in Requests : /\ pc'[p] = "removal" <=> pc[p] = "removal"
                          /\ pc'[p] = "fanout" => pc[p] = "fanout"
                          /\ pc'[p] = "bootstrap" => pc[p] = "bootstrap"
                          /\ pc'[p] \in Early => pc[p] \in Early
  BY <1>0, <1>2
<1>4. \A p \in Members : p \in Members' \/ pc[p] \in Early
  <2>1. CASE ProviderOpen(r) BY <1>0, <2>1, OpenRoom
  <2>2. CASE AcceptFails(r)
    <3>1. pc[r] = "opened" /\ room' = Left(r) BY <2>2 DEF AcceptFails
    <3>2. r \in Members BY <3>1 DEF Structure, MembersInside, Inside
    <3>3. Members' = Members \ {r} BY <1>0, <3>1, <3>2, LeaveRoom
    <3> QED BY <3>1, <3>3 DEF Early
  <2>3. CASE RevalidatorTick(r) \/ RevalidateDocumentAuthority(r)
    <3>1. r \in Members /\ room' = [room EXCEPT !.lost = TRUE]
      BY <2>3 DEF RevalidatorTick, RevalidateDocumentAuthority, Lost, EndSession
    <3> QED BY <1>0, <3>1, MarkRoom
  <2>4. CASE ~ProviderOpen(r) /\ ~AcceptFails(r) /\ ~RevalidatorTick(r) /\ ~RevalidateDocumentAuthority(r)
    <3>1. UNCHANGED room
      BY <2>4 DEF OpenQuota, AcquireOwnership, AcquireFails, OpenRefused, Accept,
         ReadFails, Unregister, Revalidator, RevalidatorEnds, BrowserLeaves, Bootstrap, Handle
    <3> QED BY <3>1 DEF Members
  <2> QED BY <2>1, <2>2, <2>3, <2>4
<1>5. ASSUME NEW p \in Requests, Listening(p)' PROVE Listening(p) \/ pc[p] \in Early
  <2>1. CASE Accept(r)
    <3>1. pc[r] = "opened" /\ socket' = [socket EXCEPT ![r] = "open"] /\ pc' = [pc EXCEPT ![r] = "accepted"]
      BY <2>1 DEF Accept, Goto
    <3> QED BY <1>0, <1>5, <3>1 DEF Listening, Early
  <2>2. CASE ~Accept(r)
    <3>1. UNCHANGED socket \/ socket' = [socket EXCEPT ![r] = "closed"]
      <4>1. CASE OpenQuota(r) \/ AcquireOwnership(r) \/ AcquireFails(r) \/ OpenRefused(r)
                 \/ ProviderOpen(r) \/ AcceptFails(r) \/ ReadFails(r) \/ Unregister(r) \/ Bootstrap(r)
                 \/ \E msgs \in Envelopes : Handle(r, msgs)
        BY <4>1 DEF OpenQuota, AcquireOwnership, AcquireFails, OpenRefused, ProviderOpen, AcceptFails,
           ReadFails, Unregister, Bootstrap, Handle
      <4>2. CASE Revalidator(r) \/ RevalidateDocumentAuthority(r) \/ BrowserLeaves(r)
        BY <4>2 DEF Revalidator, RevalidatorTick, RevalidatorEnds, RevalidateDocumentAuthority,
           BrowserLeaves, EndSession
      <4> QED BY <2>2, <4>1, <4>2
    <3>2. socket[p] = "open" BY <1>0, <1>5, <3>1 DEF Listening
    <3>3. pc'[p] \in Live => pc[p] \in Live
      <4>1. CASE p # r BY <1>0, <1>2, <4>1
      <4>2. CASE p = r
        <5>1. UNCHANGED pc \/ pc'[r] \in {"done", "quota", "owned", "opened", "cleanup", "close"}
          BY <1>0, <2>2 DEF OpenQuota, AcquireOwnership, AcquireFails, OpenRefused, ProviderOpen,
             AcceptFails, ReadFails, Unregister, Revalidator, RevalidatorTick, RevalidatorEnds,
             RevalidateDocumentAuthority, BrowserLeaves, Bootstrap, Handle, Goto
        <5> QED BY <4>2, <5>1 DEF Live
      <4> QED BY <4>1, <4>2
    <3> QED BY <1>5, <3>2, <3>3 DEF Listening
  <2> QED BY <2>1, <2>2
<1>6. \A i \in Ids : registry'[i] \in {registry[i], None} \/ pc'[registry'[i]] \notin Early
  <2>1. CASE Accept(r)
    <3>1. pc'[r] = "accepted" /\ registry' = [registry EXCEPT ![IdOf[r]] = r]
      BY <1>0, <2>1 DEF Accept, Goto
    <3> QED BY <1>0, <3>1 DEF Early
  <2>2. CASE ~Accept(r)
    <3>1. UNCHANGED registry \/ registry' = [registry EXCEPT ![IdOf[r]] = None]
      BY <2>2 DEF OpenQuota, AcquireOwnership, AcquireFails, OpenRefused, ProviderOpen, AcceptFails,
         ReadFails, Unregister, Revalidator, RevalidatorTick, RevalidatorEnds,
         RevalidateDocumentAuthority, BrowserLeaves, Bootstrap, Handle, server
    <3> QED BY <1>0, <3>1
  <2> QED BY <2>1, <2>2
<1> QED BY <1>1, <1>3, <1>4, <1>5, <1>6, GhostQuiet

\* The types of the awareness variables, field by field.
LEMMA AwarenessFields ==
  ASSUME TypedAwareness, NEW r \in Requests
  PROVE  /\ session[r] \in Entry /\ out[r].msgs \in SUBSET Msg
         /\ out[r].to \in (SUBSET Requests) \cup {None}
         /\ \A c \in Clients : view[r][c] \in Entry /\ view[r][c].clock \in Int
         /\ ClientOf[r] \in Clients
<1>1. ClientOf[r] \in Clients BY ServerAssumption
<1>2. /\ session[r] \in Entry /\ out[r].msgs \in SUBSET Msg
      /\ out[r].to \in (SUBSET Requests) \cup {None}
      /\ \A c \in Clients : view[r][c] \in Entry
  BY DEF TypedAwareness
<1>3. \A c \in Clients : view[r][c].clock \in Int BY <1>2, EntryFields
<1> QED BY <1>1, <1>2, <1>3

\* Nothing to write.
LEMMA BlankOut ==
  NoOut \in [msgs : SUBSET Msg, to : (SUBSET Requests) \cup {None}] /\ NoOut.to = None /\ NoOut.msgs = {}
<1>1. {} \in SUBSET Msg /\ None \in (SUBSET Requests) \cup {None} OBVIOUS
<1>2. NoOut.to = None /\ NoOut.msgs = {} BY DEF NoOut
<1>3. NoOut \in [msgs : SUBSET Msg, to : (SUBSET Requests) \cup {None}] BY <1>1 DEF NoOut
<1> QED BY <1>2, <1>3

\* The first message to a browser: what the members' entries say, for each of
\* which its member vouches.
LEMMA GhostBootstrap ==
  ASSUME Structure, GhostInv, NEW r \in Requests, Bootstrap(r), ~room.lost
  PROVE  GhostInv'
<1>0. /\ pc \in [Requests -> PCs] /\ RoomTyped /\ TypedAwareness
  BY DEF Structure, TypedServer, RoomTyped, GhostInv
<1>1. /\ pc[r] = "accepted" /\ pc' = [pc EXCEPT ![r] = "bootstrap"]
      /\ out' = [out EXCEPT ![r] = [msgs |-> AggregateAwareness, to |-> {r}]]
      /\ UNCHANGED <<session, view, echoed, registry, room, socket>>
  BY DEF Bootstrap, Goto, server, browser
<1>2. r \in Members BY <1>1 DEF Structure, MembersInside, Inside
<1>3. Members = room.members /\ Members \subseteq Requests BY <1>0, <1>2, MemberHasRoom
<1>4. /\ AggregateAwareness \subseteq Msg
      /\ \A m \in AggregateAwareness : \E p \in Members : ClientOf[p] = m.client /\ session[p].clock = m.clock
  <2>1. ASSUME NEW m \in AggregateAwareness
        PROVE  m \in Msg /\ \E p \in Members : ClientOf[p] = m.client /\ session[p].clock = m.clock
    <3>1. PICK p \in Members : m \in UpdateFor(ClientOf[p], session[p])
      BY <1>3 DEF AggregateAwareness
    <3>2. session[p] \in Entry /\ ClientOf[p] \in Clients BY <1>0, <1>3, AwarenessFields
    <3> QED BY <3>1, <3>2, UpdateTyped
  <2> QED BY <2>1
<1> HIDE DEF AggregateAwareness
<1>5. /\ pc'[r] = "bootstrap" /\ \A p \in Requests \ {r} : pc'[p] = pc[p]
      /\ out'[r].msgs = AggregateAwareness /\ out'[r].to = {r}
      /\ \A p \in Requests \ {r} : out'[p] = out[p]
  BY <1>0, <1>1 DEF TypedAwareness
<1>6. TypedAwareness' BY <1>0, <1>1, <1>4 DEF TypedAwareness
<1>7. OwnMessages' BY <1>1, <1>5 DEF GhostInv, OwnMessages
<1>8. EarlyBlank' BY <1>1, <1>5 DEF GhostInv, EarlyBlank, Early
<1>9. Members' = Members BY <1>1 DEF Members
<1>10. ASSUME NEW p \in Requests, NEW q \in Requests, NEW k \in Nat, Vouches(p, q, k)
       PROVE  Vouches(p, q, k)'
  <2>1. CASE p = r BY <1>1, <1>9, <1>10, <2>1 DEF Vouches
  <2>2. CASE p # r BY <1>1, <1>5, <1>9, <1>10, <2>2 DEF Vouches
  <2> QED BY <2>1, <2>2
<1>11. ASSUME NEW q \in Requests, NEW c \in Clients \ echoed, NEW k \in Nat, Listening(q)',
              Shows(q, c, k)' \/ Pending(q, c, k)'
       PROVE  Evident(q, c, k)'
  <2>0. Listening(q) BY <1>1, <1>5, <1>11 DEF Listening, Live
  <2>1. CASE Shows(q, c, k) \/ Pending(q, c, k)
    BY <1>10, <2>0, <2>1 DEF GhostInv, ViewsEvident, Evident
  <2>2. CASE ~Shows(q, c, k) /\ ~Pending(q, c, k)
    <3>1. Pending(q, c, k)' BY <1>1, <1>11, <2>2 DEF Shows
    <3>2. q = r BY <1>1, <1>5, <2>2, <3>1 DEF Pending
    <3>3. PICK m \in AggregateAwareness : m.client = c /\ m.clock = k
      BY <1>5, <3>1, <3>2 DEF Pending
    <3>4. PICK p \in Members : ClientOf[p] = c /\ session[p].clock = k BY <1>4, <3>3
    <3>5. Vouches(p, q, k)' BY <1>1, <1>9, <3>4 DEF Vouches
    <3> QED BY <1>3, <3>4, <3>5 DEF Evident
  <2> QED BY <2>1, <2>2
<1>12. ViewsEvident' BY <1>1, <1>11 DEF ViewsEvident
<1> QED BY <1>6, <1>7, <1>8, <1>12 DEF GhostInv

\* The bootstrap is written: what was pending is shown.
LEMMA GhostBootstrapWrite ==
  ASSUME Structure, GhostInv, NEW r \in Requests, BootstrapWrite(r)
  PROVE  GhostInv'
<1>0. pc \in [Requests -> PCs] /\ TypedAwareness BY DEF Structure, TypedServer, GhostInv
<1>1. /\ pc[r] = "bootstrap" /\ out' = [out EXCEPT ![r] = NoOut]
      /\ UNCHANGED <<session, echoed, registry, room, socket>>
  BY DEF BootstrapWrite, server
<1>2. PICK step \in {"serving", "cleanup"} : /\ pc' = [pc EXCEPT ![r] = step]
                                             /\ step = "serving" => socket[r] = "open"
  BY DEF BootstrapWrite, Goto
<1>3. UNCHANGED view \/ (view' = Receive(r, out[r].msgs) /\ socket[r] = "open") BY DEF BootstrapWrite
<1>4. out[r].msgs \in SUBSET Msg /\ \A c \in Clients : view[r][c] \in Entry /\ view[r][c].clock \in Int
  BY <1>0, AwarenessFields
<1>5. /\ view' \in [Requests -> [Clients -> Entry]]
      /\ \A p \in Requests \ {r} : view'[p] = view[p]
      /\ \A c \in Clients :
           \/ view'[r][c] = view[r][c]
           \/ /\ socket[r] = "open"
              /\ \E x \in out[r].msgs : x.client = c /\ view'[r][c] = ApplyClient(view[r][c], FALSE, x)
  <2>0. view \in [Requests -> [Clients -> Entry]] BY <1>0 DEF TypedAwareness
  <2>1. CASE UNCHANGED view BY <2>0, <2>1
  <2>2. CASE view' = Receive(r, out[r].msgs) /\ socket[r] = "open"
    <3>1. /\ view' \in [Requests -> [Clients -> Entry]]
          /\ \A p \in Requests \ {r} : view'[p] = view[p]
          /\ \A c \in Clients :
               \/ view'[r][c] = view[r][c] /\ \A x \in out[r].msgs : x.client # c
               \/ \E x \in out[r].msgs : x.client = c /\ view'[r][c] = ApplyClient(view[r][c], FALSE, x)
      BY <1>4, <2>0, <2>2, Received
    <3> QED BY <2>2, <3>1
  <2> QED BY <1>3, <2>1, <2>2
<1>6. NoOut \in [msgs : SUBSET Msg, to : (SUBSET Requests) \cup {None}] /\ NoOut.to = None
  BY BlankOut
<1>7. /\ pc'[r] = step /\ \A p \in Requests \ {r} : pc'[p] = pc[p]
      /\ out'[r] = NoOut /\ \A p \in Requests \ {r} : out'[p] = out[p]
  BY <1>0, <1>1, <1>2 DEF TypedAwareness
<1>8. TypedAwareness' BY <1>0, <1>1, <1>5, <1>6 DEF TypedAwareness
<1>9. OwnMessages' BY <1>1, <1>7 DEF GhostInv, OwnMessages
<1>10. EarlyBlank' BY <1>1, <1>5, <1>6, <1>7 DEF GhostInv, EarlyBlank, Early
<1>11. Members' = Members BY <1>1 DEF Members
<1>12. ASSUME NEW p \in Requests, NEW q \in Requests, NEW k \in Nat, Vouches(p, q, k)
       PROVE  Vouches(p, q, k)'
  <2>1. CASE p = r BY <1>1, <1>11, <1>12, <2>1 DEF Vouches
  <2>2. CASE p # r BY <1>1, <1>7, <1>11, <1>12, <2>2 DEF Vouches
  <2> QED BY <2>1, <2>2
<1>13. ASSUME NEW q \in Requests, NEW c \in Clients \ echoed, NEW k \in Nat, Listening(q)',
              Shows(q, c, k)' \/ Pending(q, c, k)'
       PROVE  Listening(q) /\ (Shows(q, c, k) \/ Pending(q, c, k))
  <2>1. CASE q # r BY <1>1, <1>5, <1>7, <1>13, <2>1 DEF Listening, Shows, Pending
  <2>2. CASE q = r
    <3>1. Listening(r) BY <1>1, <1>2, <1>7, <1>13, <2>2 DEF Listening, Live
    <3>2. Shows(r, c, k)' BY <1>7, <1>13, <2>2 DEF Pending
    <3>3. CASE view'[r][c] = view[r][c] BY <2>2, <3>1, <3>2, <3>3 DEF Shows
    <3>4. CASE view'[r][c] # view[r][c]
      <4>1. PICK x \in out[r].msgs : x.client = c /\ view'[r][c] = ApplyClient(view[r][c], FALSE, x)
        BY <1>5, <3>4
      <4>0. view[r][c] \in Entry /\ view[r][c].clock \in Int BY <1>4
      <4>2. x \in Msg /\ FALSE \in BOOLEAN BY <1>4
      <4>3. HasState(view'[r][c]) /\ view'[r][c].clock = k BY <3>2 DEF Shows
      <4>4. /\ view'[r][c].clock = x.clock
            /\ x.state # Null /\ view[r][c].clock < x.clock
        <5> DEFINE a == ApplyClient(view[r][c], FALSE, x)
        <5>1. HasState(a) =>
                a = view[r][c] \/ (a.clock = x.clock /\ x.state # Null /\ view[r][c].clock < x.clock)
          BY <4>0, <4>2, Applied
        <5>2. view'[r][c] = a BY <4>1
        <5> HIDE DEF a
        <5> QED BY <3>4, <4>3, <5>1, <5>2
      <4> QED BY <1>1, <2>2, <3>1, <4>1, <4>3, <4>4 DEF Pending
    <3> QED BY <3>3, <3>4
  <2> QED BY <2>1, <2>2
<1>14. ViewsEvident' BY <1>1, <1>12, <1>13 DEF GhostInv, ViewsEvident, Evident
<1> QED BY <1>8, <1>9, <1>10, <1>14 DEF GhostInv

\* An envelope has at most one entry for a client.
LEMMA EnvelopeTyped ==
  ASSUME NEW msgs \in Envelopes
  PROVE  msgs \in SUBSET Msg /\ \A x, y \in msgs : x.client = y.client => x = y
<1>1. 0..MaxClock \subseteq Nat BY ServerAssumption
<1>2. [client : Clients, clock : 0..MaxClock, state : {Here, Null}] \subseteq Msg BY <1>1 DEF Msg
<1> QED BY <1>2 DEF Envelopes

\* What an envelope makes of an entry: it is no older, and no older than what the
\* envelope says of the client.
LEMMA ToldOnce ==
  ASSUME NEW e \in Entry, NEW c, NEW msgs \in SUBSET Msg, NEW isLocal \in BOOLEAN,
         \A x, y \in msgs : x.client = y.client => x = y
  PROVE  /\ Told(e, isLocal, c, msgs) \in Entry
         /\ Told(e, isLocal, c, msgs).clock >= e.clock
         /\ \A m \in msgs : m.client = c =>
              /\ Told(e, isLocal, c, msgs) = ApplyClient(e, isLocal, m)
              /\ Told(e, isLocal, c, msgs).clock >= m.clock
         /\ (\A m \in msgs : m.client # c) => Told(e, isLocal, c, msgs) = e
<1> DEFINE about == {x \in msgs : x.client = c}
<1>0. e.clock \in Int /\ e.clock >= e.clock BY EntryFields
<1>1. CASE about = {}
  <2>1. Told(e, isLocal, c, msgs) = e BY <1>1 DEF Told
  <2> QED BY <1>0, <1>1, <2>1
<1>2. CASE about # {}
  <2>1. PICK m \in msgs : m.client = c BY <1>2
  <2>2. about = {m} BY <2>1
  <2>3. (CHOOSE x \in {m} : TRUE) = m OBVIOUS
  <2>4. Told(e, isLocal, c, msgs) = ApplyClient(e, isLocal, m) BY <2>2, <2>3 DEF Told
  <2>5. m \in Msg OBVIOUS
  <2> QED BY <2>1, <2>4, <2>5, Applied
<1> QED BY <1>1, <1>2

\* The browser speaks, for whom it wants: its own connection's entry moves to the
\* clock the message has for it, or past it.
LEMMA GhostHandle ==
  ASSUME Structure, GhostInv, NEW r \in Requests, NEW msgs \in Envelopes, Handle(r, msgs),
         ~room.lost
  PROVE  GhostInv'
<1> DEFINE c0 == ClientOf[r]
<1>0. pc \in [Requests -> PCs] /\ TypedAwareness BY DEF Structure, TypedServer, GhostInv
<1>1. /\ pc[r] = "serving" /\ pc' = [pc EXCEPT ![r] = "fanout"]
      /\ session' = [session EXCEPT ![r] = Told(session[r], TRUE, c0, msgs)]
      /\ out' = [out EXCEPT ![r] = [msgs |-> msgs, to |-> None]]
      /\ echoed' = echoed \cup ({x.client : x \in msgs} \ {c0})
      /\ UNCHANGED <<view, registry, room, socket>>
  BY DEF Handle, Goto, server
<1>2. session[r] \in Entry /\ c0 \in Clients BY <1>0, AwarenessFields
<1>3. msgs \in SUBSET Msg /\ \A x, y \in msgs : x.client = y.client => x = y BY EnvelopeTyped
<1>4. PICK e \in Entry : /\ session' = [session EXCEPT ![r] = e]
                         /\ e.clock >= session[r].clock
                         /\ \A m \in msgs : m.client = c0 => e.clock >= m.clock
  <2>1. TRUE \in BOOLEAN OBVIOUS
  <2> DEFINE e == Told(session[r], TRUE, c0, msgs)
  <2>2. /\ e \in Entry /\ e.clock >= session[r].clock
        /\ \A m \in msgs : m.client = c0 => e.clock >= m.clock
    BY <1>2, <1>3, <2>1, ToldOnce
  <2>3. session' = [session EXCEPT ![r] = e] BY <1>1
  <2> HIDE DEF e
  <2> QED BY <2>2, <2>3
<1>5. /\ pc'[r] = "fanout" /\ \A p \in Requests \ {r} : pc'[p] = pc[p]
      /\ out'[r].msgs = msgs /\ out'[r].to = None /\ \A p \in Requests \ {r} : out'[p] = out[p]
      /\ session'[r] = e /\ \A p \in Requests \ {r} : session'[p] = session[p]
  BY <1>0, <1>1, <1>4 DEF TypedAwareness
<1>6. TypedAwareness'
  <2>1. [msgs |-> msgs, to |-> None] \in [msgs : SUBSET Msg, to : (SUBSET Requests) \cup {None}]
    BY <1>3
  <2>2. echoed' \in SUBSET Clients
    <3>1. \A x \in msgs : x.client \in Clients BY <1>3 DEF Msg
    <3> QED BY <1>0, <1>1, <3>1 DEF TypedAwareness
  <2>3. session' \in [Requests -> Entry] BY <1>0, <1>4 DEF TypedAwareness
  <2> QED BY <1>0, <1>1, <2>1, <2>2, <2>3 DEF TypedAwareness
<1>7. OwnMessages'
  <2>1. echoed \subseteq echoed' /\ \A m \in msgs : m.client \notin echoed' => m.client = c0 BY <1>1
  <2>2. ASSUME NEW p \in Requests
        PROVE  /\ pc'[p] = "fanout" => \A m \in out'[p].msgs : m.client \notin echoed' =>
                                        m.client = ClientOf[p] /\ session'[p].clock >= m.clock
               /\ pc'[p] = "removal" => /\ out'[p].msgs # {}
                                        /\ \A m \in out'[p].msgs : m.client = ClientOf[p] /\ m.state = Null
    <3>1. CASE p = r BY <1>4, <1>5, <2>1, <3>1
    <3>2. CASE p # r BY <1>5, <2>1, <3>2 DEF GhostInv, OwnMessages
    <3> QED BY <3>1, <3>2
  <2> QED BY <2>2 DEF OwnMessages
<1>8. EarlyBlank' BY <1>1, <1>5 DEF GhostInv, EarlyBlank, Early
<1>9. Members' = Members BY <1>1 DEF Members
<1>10. ASSUME NEW p \in Requests, NEW q \in Requests, NEW k \in Nat, Vouches(p, q, k)
       PROVE  Vouches(p, q, k)'
  <2>1. CASE p = r
    <3>1. p \in Members /\ session[r].clock >= k BY <1>1, <1>10, <2>1 DEF Vouches
    <3>2. session[r].clock \in Int /\ e.clock \in Int BY <1>2, EntryFields
    <3>3. e.clock >= k BY <1>4, <3>1, <3>2
    <3> QED BY <1>5, <1>9, <2>1, <3>1, <3>3 DEF Vouches
  <2>2. CASE p # r BY <1>1, <1>5, <1>9, <1>10, <2>2 DEF Vouches
  <2> QED BY <2>1, <2>2
<1>11. ASSUME NEW q \in Requests, NEW c \in Clients \ echoed, NEW k \in Nat, Listening(q)',
              Shows(q, c, k)' \/ Pending(q, c, k)'
       PROVE  Listening(q) /\ (Shows(q, c, k) \/ Pending(q, c, k))
  <2>1. Listening(q) BY <1>1, <1>5, <1>11 DEF Listening, Live
  <2>2. Shows(q, c, k) \/ Pending(q, c, k) BY <1>1, <1>5, <1>11 DEF Shows, Pending
  <2> QED BY <2>1, <2>2
<1>12. echoed \subseteq echoed' BY <1>1
<1>13. ViewsEvident' BY <1>10, <1>11, <1>12 DEF GhostInv, ViewsEvident, Evident
<1> QED BY <1>6, <1>7, <1>8, <1>13 DEF GhostInv

\* A broadcast goes on with the peers in rest, or ends.
LEMMA FanoutMoves ==
  ASSUME TypedAwareness, pc \in [Requests -> PCs], NEW r \in Requests, pc[r] \in {"fanout", "removal"},
         NEW rest \in SUBSET Requests, Fanout(r, rest)
  PROVE  /\ out' \in [Requests -> [msgs : SUBSET Msg, to : (SUBSET Requests) \cup {None}]]
         /\ \A p \in Requests \ {r} : out'[p] = out[p] /\ pc'[p] = pc[p]
         /\ out'[r].to \in {None, rest}
         /\ pc'[r] \in {"fanout", "removal"} => /\ pc'[r] = pc[r]
                                                /\ out'[r].msgs = out[r].msgs
                                                /\ out'[r].to = rest
         /\ rest # {} => pc'[r] = pc[r]
         /\ pc[r] = "fanout" => pc'[r] \in {"fanout", "serving"}
         /\ pc[r] = "removal" => pc'[r] \in {"removal", "release"}
<1>1. CASE rest = {}
  <2>1. PICK step \in {"serving", "release"} :
          /\ out' = [out EXCEPT ![r] = NoOut] /\ pc' = [pc EXCEPT ![r] = step]
          /\ pc[r] = "fanout" => step = "serving"
          /\ pc[r] = "removal" => step = "release"
    BY <1>1 DEF Fanout, Goto
  <2>2. out'[r] = NoOut /\ pc'[r] = step /\ \A p \in Requests \ {r} : out'[p] = out[p] /\ pc'[p] = pc[p]
    BY <2>1 DEF TypedAwareness
  <2>3. out' \in [Requests -> [msgs : SUBSET Msg, to : (SUBSET Requests) \cup {None}]]
    BY <2>1, BlankOut DEF TypedAwareness
  <2> QED BY <1>1, <2>1, <2>2, <2>3, BlankOut
<1>2. CASE rest # {}
  <2> DEFINE o == [out[r] EXCEPT !.to = rest]
  <2>1. out[r] \in [msgs : SUBSET Msg, to : (SUBSET Requests) \cup {None}] BY DEF TypedAwareness
  <2>2. /\ o \in [msgs : SUBSET Msg, to : (SUBSET Requests) \cup {None}]
        /\ o.msgs = out[r].msgs /\ o.to = rest
    BY <2>1
  <2>3. out' = [out EXCEPT ![r] = o] /\ UNCHANGED pc BY <1>2 DEF Fanout
  <2> HIDE DEF o
  <2>4. out'[r] = o /\ \A p \in Requests \ {r} : out'[p] = out[p] BY <2>3 DEF TypedAwareness
  <2>5. out' \in [Requests -> [msgs : SUBSET Msg, to : (SUBSET Requests) \cup {None}]]
    BY <2>2, <2>3 DEF TypedAwareness
  <2> QED BY <1>2, <2>2, <2>3, <2>4, <2>5
<1> QED BY <1>1, <1>2

\* The peers are looked up: whoever listens under another id is among them.
LEMMA GhostFanoutPeers ==
  ASSUME Structure, GhostInv, NEW r \in Requests, FanoutPeers(r)
  PROVE  GhostInv'
<1>0. /\ pc \in [Requests -> PCs] /\ TypedAwareness /\ registry \in [Ids -> Requests \cup {None}]
  BY DEF Structure, TypedServer, GhostInv
<1>1. /\ pc[r] \in {"fanout", "removal"} /\ out[r].to = None
      /\ UNCHANGED <<session, view, echoed, registry, room, socket>>
  BY DEF FanoutPeers, server, browser
<1>2. PICK rest \in SUBSET Requests : rest = Peers(r) /\ Fanout(r, rest)
  BY <1>0 DEF FanoutPeers, Peers
<1>3. /\ out' \in [Requests -> [msgs : SUBSET Msg, to : (SUBSET Requests) \cup {None}]]
      /\ \A p \in Requests \ {r} : out'[p] = out[p] /\ pc'[p] = pc[p]
      /\ out'[r].to \in {None, rest}
      /\ pc'[r] \in {"fanout", "removal"} => /\ pc'[r] = pc[r]
                                             /\ out'[r].msgs = out[r].msgs
                                             /\ out'[r].to = rest
      /\ rest # {} => pc'[r] = pc[r]
      /\ pc[r] = "fanout" => pc'[r] \in {"fanout", "serving"}
      /\ pc[r] = "removal" => pc'[r] \in {"removal", "release"}
  BY <1>0, <1>1, <1>2, FanoutMoves
<1>4. TypedAwareness' BY <1>0, <1>1, <1>3 DEF TypedAwareness
<1>5. OwnMessages'
  <2>1. ASSUME NEW p \in Requests
        PROVE  /\ pc'[p] = "fanout" => \A m \in out'[p].msgs : m.client \notin echoed' =>
                                        m.client = ClientOf[p] /\ session'[p].clock >= m.clock
               /\ pc'[p] = "removal" => /\ out'[p].msgs # {}
                                        /\ \A m \in out'[p].msgs : m.client = ClientOf[p] /\ m.state = Null
    <3>1. CASE p = r BY <1>1, <1>3, <3>1 DEF GhostInv, OwnMessages
    <3>2. CASE p # r BY <1>1, <1>3, <3>2 DEF GhostInv, OwnMessages
    <3> QED BY <3>1, <3>2
  <2> QED BY <2>1 DEF OwnMessages
<1>6. EarlyBlank'
  <2>1. ASSUME NEW p \in Requests, pc'[p] \in Early PROVE p \notin rest /\ pc[p] \in Early /\ p # r
    <3>1. p # r /\ pc[p] \in Early BY <1>1, <1>3, <2>1 DEF Early
    <3>2. \A i \in Ids : registry[i] # p BY <3>1 DEF GhostInv, EarlyBlank
    <3> QED BY <1>2, <3>1, <3>2 DEF Peers
  <2>2. ASSUME NEW p \in Requests, pc'[p] \in Early, NEW b \in Requests, out'[b].to # None
        PROVE  p \notin out'[b].to
    <3>1. CASE b = r BY <1>3, <2>1, <2>2, <3>1
    <3>2. CASE b # r BY <1>3, <2>1, <2>2, <3>2 DEF GhostInv, EarlyBlank
    <3> QED BY <3>1, <3>2
  <2> QED BY <1>1, <2>1, <2>2 DEF GhostInv, EarlyBlank
<1>7. Members' = Members BY <1>1 DEF Members
<1>8. rest # None BY ServerAssumption
<1>9. ASSUME NEW p \in Requests, NEW q \in Requests, NEW k \in Nat, Listening(q), Vouches(p, q, k)
      PROVE  Vouches(p, q, k)'
  <2>1. CASE p # r BY <1>1, <1>3, <1>7, <1>9, <2>1 DEF Vouches
  <2>2. CASE p = r /\ r \in Members /\ session[r].clock >= k BY <1>1, <1>7, <2>2 DEF Vouches
  <2>3. CASE p = r /\ ~(r \in Members /\ session[r].clock >= k)
    <3>1. pc[r] = "removal" /\ (\A m \in out[r].msgs : m.clock >= k) /\ IdOf[q] # IdOf[r]
      BY <1>1, <1>9, <2>3 DEF Vouches
    <3>2. registry[IdOf[q]] = q BY <1>9 DEF Listening, Live, Structure, ServingIsRegistered
    <3>3. q \in rest BY <1>2, <3>1, <3>2, ServerAssumption DEF Peers
    <3>4. pc'[r] = "removal" /\ out'[r].msgs = out[r].msgs /\ out'[r].to = rest BY <1>3, <3>1, <3>3
    <3> QED BY <1>8, <2>3, <3>1, <3>3, <3>4 DEF Vouches
  <2> QED BY <2>1, <2>2, <2>3
<1>10. ASSUME NEW q \in Requests, NEW c \in Clients \ echoed, NEW k \in Nat, Listening(q)',
              Shows(q, c, k)' \/ Pending(q, c, k)'
       PROVE  Listening(q) /\ (Shows(q, c, k) \/ Pending(q, c, k))
  <2>1. Listening(q)
    <3>1. CASE q = r BY <1>1, <1>3, <1>10, <3>1 DEF Listening, Live
    <3>2. CASE q # r BY <1>1, <1>3, <1>10, <3>2 DEF Listening
    <3> QED BY <3>1, <3>2
  <2>2. Pending(q, c, k)' => Pending(q, c, k)
    <3>1. CASE q = r BY <1>1, <1>3, <3>1 DEF Pending
    <3>2. CASE q # r BY <1>1, <1>3, <3>2 DEF Pending
    <3> QED BY <3>1, <3>2
  <2>3. Shows(q, c, k)' => Shows(q, c, k) BY <1>1 DEF Shows
  <2> QED BY <1>10, <2>1, <2>2, <2>3
<1>11. ViewsEvident' BY <1>1, <1>9, <1>10 DEF GhostInv, ViewsEvident, Evident
<1> QED BY <1>4, <1>5, <1>6, <1>11 DEF GhostInv

\* One peer is written to.  A state it now shows is the writer's, who is in the
\* room; a removal that reaches it ends what the remover vouched for.
LEMMA GhostFanoutWrite ==
  ASSUME Structure, GhostInv, NEW r \in Requests, NEW b \in Requests, FanoutWrite(r, b)
  PROVE  GhostInv'
<1>0. /\ pc \in [Requests -> PCs] /\ TypedAwareness /\ socket \in [Requests -> {"none", "open", "closed"}]
  BY DEF Structure, TypedServer, GhostInv
<1>1. /\ pc[r] \in {"fanout", "removal"} /\ out[r].to # None /\ b \in out[r].to
      /\ UNCHANGED <<session, echoed, registry, room>>
  BY DEF FanoutWrite, server
<1>2. PICK rest \in SUBSET Requests : rest = out[r].to \ {b} /\ Fanout(r, rest)
  <2>1. out[r].to \in SUBSET Requests BY <1>0, <1>1, AwarenessFields
  <2> QED BY <2>1 DEF FanoutWrite
<1>3. /\ out' \in [Requests -> [msgs : SUBSET Msg, to : (SUBSET Requests) \cup {None}]]
      /\ \A p \in Requests \ {r} : out'[p] = out[p] /\ pc'[p] = pc[p]
      /\ out'[r].to \in {None, rest}
      /\ pc'[r] \in {"fanout", "removal"} => /\ pc'[r] = pc[r]
                                             /\ out'[r].msgs = out[r].msgs
                                             /\ out'[r].to = rest
      /\ rest # {} => pc'[r] = pc[r]
      /\ pc[r] = "fanout" => pc'[r] \in {"fanout", "serving"}
      /\ pc[r] = "removal" => pc'[r] \in {"removal", "release"}
  BY <1>0, <1>1, <1>2, FanoutMoves
<1>4. /\ out[r].msgs \in SUBSET Msg
      /\ \A c \in Clients : view[b][c] \in Entry /\ view[b][c].clock \in Int
  BY <1>0, AwarenessFields
<1>5. /\ view' \in [Requests -> [Clients -> Entry]]
      /\ \A p \in Requests \ {b} : view'[p] = view[p] /\ socket'[p] = socket[p]
      /\ \/ socket'[b] = "closed" /\ UNCHANGED view
         \/ /\ UNCHANGED socket
            /\ \A c \in Clients :
                 \/ view'[b][c] = view[b][c] /\ \A x \in out[r].msgs : x.client # c
                 \/ \E x \in out[r].msgs : x.client = c /\ view'[b][c] = ApplyClient(view[b][c], FALSE, x)
  <2>0. view \in [Requests -> [Clients -> Entry]] BY <1>0 DEF TypedAwareness
  <2>1. CASE view' = Receive(b, out[r].msgs) /\ UNCHANGED socket BY <1>4, <2>0, <2>1, Received
  <2>2. CASE socket' = [socket EXCEPT ![b] = "closed"] /\ UNCHANGED view BY <1>0, <2>0, <2>2
  <2> QED BY <2>1, <2>2 DEF FanoutWrite
<1>6. TypedAwareness' BY <1>0, <1>1, <1>3, <1>5 DEF TypedAwareness
<1>7. OwnMessages'
  <2>1. ASSUME NEW p \in Requests
        PROVE  /\ pc'[p] = "fanout" => \A m \in out'[p].msgs : m.client \notin echoed' =>
                                        m.client = ClientOf[p] /\ session'[p].clock >= m.clock
               /\ pc'[p] = "removal" => /\ out'[p].msgs # {}
                                        /\ \A m \in out'[p].msgs : m.client = ClientOf[p] /\ m.state = Null
    <3>1. CASE p = r BY <1>1, <1>3, <3>1 DEF GhostInv, OwnMessages
    <3>2. CASE p # r BY <1>1, <1>3, <3>2 DEF GhostInv, OwnMessages
    <3> QED BY <3>1, <3>2
  <2> QED BY <2>1 DEF OwnMessages
<1>8. EarlyBlank'
  <2>1. ASSUME NEW p \in Requests, pc'[p] \in Early
        PROVE  p \notin out[r].to /\ pc[p] \in Early /\ p # r /\ view'[p] = view[p]
    <3>1. p # r /\ pc[p] \in Early BY <1>1, <1>3, <2>1 DEF Early
    <3>2. p \notin out[r].to BY <1>1, <3>1 DEF GhostInv, EarlyBlank
    <3> QED BY <1>1, <1>5, <3>1, <3>2
  <2>2. ASSUME NEW p \in Requests, pc'[p] \in Early, NEW d \in Requests, out'[d].to # None
        PROVE  p \notin out'[d].to
    <3>1. CASE d = r BY <1>2, <1>3, <2>1, <2>2, <3>1
    <3>2. CASE d # r BY <1>3, <2>1, <2>2, <3>2 DEF GhostInv, EarlyBlank
    <3> QED BY <3>1, <3>2
  <2> QED BY <1>1, <2>1, <2>2 DEF GhostInv, EarlyBlank
<1>9. Members' = Members /\ rest # None BY <1>1, ServerAssumption DEF Members
<1>10. ASSUME NEW p \in Requests, NEW q \in Requests, NEW k \in Nat, Vouches(p, q, k),
              p # r \/ q # b \/ pc[r] = "fanout"
       PROVE  Vouches(p, q, k)'
  <2>1. CASE p # r BY <1>1, <1>3, <1>9, <1>10, <2>1 DEF Vouches
  <2>2. CASE p = r /\ r \in Members /\ session[r].clock >= k BY <1>1, <1>9, <2>2 DEF Vouches
  <2>3. CASE p = r /\ ~(r \in Members /\ session[r].clock >= k)
    <3>1. pc[r] = "removal" /\ (\A m \in out[r].msgs : m.clock >= k) /\ q \in out[r].to
      BY <1>1, <1>10, <2>3 DEF Vouches
    <3>2. q \in rest BY <1>2, <1>10, <2>3, <3>1
    <3>3. pc'[r] = "removal" /\ out'[r].msgs = out[r].msgs /\ out'[r].to = rest BY <1>3, <3>1, <3>2
    <3> QED BY <1>9, <2>3, <3>1, <3>2, <3>3 DEF Vouches
  <2> QED BY <2>1, <2>2, <2>3
<1>11. ASSUME NEW q \in Requests, Listening(q)' PROVE Listening(q)
  <2>1. socket[q] = "open" BY <1>5, <1>11 DEF Listening
  <2>2. pc[q] \in Live
    <3>1. CASE q = r BY <1>1, <1>3, <1>11, <3>1 DEF Listening, Live
    <3>2. CASE q # r BY <1>3, <1>11, <3>2 DEF Listening
    <3> QED BY <3>1, <3>2
  <2> QED BY <2>1, <2>2 DEF Listening
<1>12. ASSUME NEW q \in Requests, NEW c \in Clients, NEW k \in Nat, Pending(q, c, k)'
       PROVE  q # r /\ out'[q] = out[q] /\ pc[q] = "bootstrap"
  BY <1>1, <1>3, <1>12 DEF Pending
<1>13. ASSUME NEW q \in Requests, NEW c \in Clients \ echoed, NEW k \in Nat, Listening(q)',
              Shows(q, c, k)' \/ Pending(q, c, k)'
       PROVE  Evident(q, c, k)'
  <2>1. ASSUME Shows(q, c, k) \/ Pending(q, c, k),
               \A p \in Requests : ClientOf[p] = c /\ Vouches(p, q, k) => p # r \/ q # b \/ pc[r] = "fanout"
        PROVE  Evident(q, c, k)'
    BY <1>10, <1>11, <1>13, <2>1 DEF GhostInv, ViewsEvident, Evident
  <2>2. CASE q # b
    <3>1. Shows(q, c, k) \/ Pending(q, c, k) BY <1>5, <1>12, <1>13, <2>2 DEF Shows, Pending
    <3> QED BY <2>1, <2>2, <3>1
  <2>3. CASE q = b
    <3>1. socket'[b] = "open" BY <1>13, <2>3 DEF Listening
    <3>2. CASE view'[b][c] = view[b][c] /\ \A x \in out[r].msgs : x.client # c
      <4>1. Shows(q, c, k) \/ Pending(q, c, k) BY <1>12, <1>13, <2>3, <3>2 DEF Shows, Pending
      <4>2. pc[r] = "removal" => c # ClientOf[r] BY <3>2 DEF GhostInv, OwnMessages
      <4> QED BY <1>1, <2>1, <4>1, <4>2
    <3>3. CASE \E x \in out[r].msgs : x.client = c /\ view'[b][c] = ApplyClient(view[b][c], FALSE, x)
      <4>1. PICK x \in out[r].msgs : x.client = c /\ view'[b][c] = ApplyClient(view[b][c], FALSE, x)
        BY <3>3
      <4>0. view[b][c] \in Entry /\ view[b][c].clock \in Int BY <1>4
      <4>2. x \in Msg /\ x.clock \in Nat /\ FALSE \in BOOLEAN BY <1>4 DEF Msg
      <4>3. /\ view'[b][c] \in Entry
            /\ view'[b][c].clock >= view[b][c].clock /\ view'[b][c].clock >= x.clock
            /\ HasState(view'[b][c]) =>
                 \/ view'[b][c] = view[b][c]
                 \/ view'[b][c].clock = x.clock /\ x.state # Null
            /\ x.state = Null /\ x.clock >= view[b][c].clock => ~HasState(view'[b][c])
        <5> DEFINE a == ApplyClient(view[b][c], FALSE, x)
        <5>1. /\ a \in Entry /\ a.clock >= view[b][c].clock /\ a.clock >= x.clock
              /\ HasState(a) => a = view[b][c] \/ (a.clock = x.clock /\ x.state # Null)
              /\ x.state = Null /\ x.clock >= view[b][c].clock => ~HasState(a)
          BY <4>0, <4>2, Applied
        <5>2. view'[b][c] = a BY <4>1
        <5> HIDE DEF a
        <5> QED BY <5>1, <5>2
      <4>4. view'[b][c].clock \in Int BY <4>3, EntryFields
      <4>5. ClientOf[r] = c BY <1>1, <4>1 DEF GhostInv, OwnMessages
      <4>6. Pending(q, c, k)' => Pending(q, c, k) /\ x.clock < k
        <5>1. ASSUME Pending(q, c, k)' PROVE view[b][c].clock < k /\ x.clock < k
          <6>1. view'[b][c].clock < k BY <2>3, <5>1 DEF Pending
          <6> QED BY <1>4, <4>2, <4>3, <4>4, <6>1
        <5> QED BY <1>12, <2>3, <5>1 DEF Pending
      <4>7. CASE pc[r] = "fanout"
        <5>1. session[r].clock >= x.clock BY <4>1, <4>7 DEF GhostInv, OwnMessages
        <5>2. r \in Members BY <4>7 DEF Structure, MembersInside, Inside
        <5>3. CASE Pending(q, c, k)' BY <2>1, <4>6, <4>7, <5>3
        <5>4. CASE Shows(q, c, k)' /\ view'[b][c] = view[b][c]
          <6>1. Shows(q, c, k) BY <2>3, <5>4 DEF Shows
          <6> QED BY <2>1, <4>7, <6>1
        <5>5. CASE Shows(q, c, k)' /\ view'[b][c].clock = x.clock
          <6>1. x.clock = k BY <2>3, <5>5 DEF Shows
          <6>2. Vouches(r, q, k)' BY <1>1, <1>9, <5>1, <5>2, <6>1 DEF Vouches
          <6> QED BY <4>5, <6>2 DEF Evident
        <5>6. Shows(q, c, k)' => HasState(view'[b][c]) BY <2>3 DEF Shows
        <5> QED BY <1>13, <4>3, <5>3, <5>4, <5>5, <5>6
      <4>8. CASE pc[r] = "removal"
        <5>1. x.state = Null BY <4>1, <4>8 DEF GhostInv, OwnMessages
        <5>2. r \notin Members BY <4>8 DEF Structure, MembersInside, Inside
        <5>3. Shows(q, c, k)' => Shows(q, c, k) /\ x.clock < k
          <6>1. ASSUME Shows(q, c, k)' PROVE Shows(q, c, k) /\ x.clock < k
            <7>1. HasState(view'[b][c]) /\ view'[b][c].clock = k BY <2>3, <6>1 DEF Shows
            <7>2. view'[b][c] = view[b][c] BY <4>3, <5>1, <7>1
            <7>3. ~(x.clock >= view[b][c].clock) BY <4>3, <5>1, <7>1
            <7>4. x.clock < k BY <4>2, <4>4, <7>1, <7>2, <7>3
            <7> QED BY <2>3, <7>1, <7>2, <7>4 DEF Shows
          <6> QED BY <6>1
        <5>4. x.clock < k /\ (Shows(q, c, k) \/ Pending(q, c, k)) BY <1>13, <4>6, <5>3
        <5>5. ~(x.clock >= k) BY <4>2, <5>4
        <5>6. ~Vouches(r, q, k) BY <4>1, <5>2, <5>5 DEF Vouches
        <5> QED BY <2>1, <5>4, <5>6
      <4> QED BY <1>1, <4>7, <4>8
    <3> QED BY <1>5, <2>3, <3>1, <3>2, <3>3
  <2> QED BY <2>2, <2>3
<1>14. ViewsEvident' BY <1>1, <1>13 DEF ViewsEvident
<1> QED BY <1>6, <1>7, <1>8, <1>14 DEF GhostInv

\* A connection closes: what it vouched for, its removal now does, to everyone who
\* listens, as they were in the room with it and so have other ids.
LEMMA GhostClose ==
  ASSUME Structure, GhostInv, NEW r \in Requests, CloseConnection(r)
  PROVE  GhostInv'
<1>0. pc \in [Requests -> PCs] /\ TypedAwareness /\ RoomTyped
  BY DEF Structure, TypedServer, GhostInv, RoomTyped
<1>1. /\ pc[r] = "close" /\ session' = [session EXCEPT ![r] = Unknown]
      /\ UNCHANGED <<view, echoed, registry, socket>>
  BY DEF CloseConnection, server, browser
<1>2. r \in Members BY <1>1 DEF Structure, MembersInside, Inside
<1>3. Members' = Members \ {r}
  <2>1. room' = Left(r) \/ (Left(r) # None /\ room' = [Left(r) EXCEPT !.lost = TRUE])
    BY DEF CloseConnection
  <2> QED BY <1>0, <1>2, <2>1, LeaveRoom
<1>4. /\ session[r] \in Entry
      /\ Removal(r) \subseteq Msg
      /\ Removal(r) = {} <=> ~HasMeta(session[r])
      /\ \A m \in Removal(r) : /\ m.client = ClientOf[r] /\ m.state = Null
                               /\ m.clock >= session[r].clock
  <2>1. session[r] \in Entry /\ ClientOf[r] \in Clients BY <1>0, AwarenessFields
  <2> QED BY <2>1, RemovalFacts
<1> DEFINE o == [msgs |-> Removal(r), to |-> None]
<1>5. \/ Removal(r) = {} /\ pc' = [pc EXCEPT ![r] = "release"] /\ UNCHANGED out
      \/ Removal(r) # {} /\ pc' = [pc EXCEPT ![r] = "removal"] /\ out' = [out EXCEPT ![r] = o]
  BY DEF CloseConnection, Goto
<1>6. o \in [msgs : SUBSET Msg, to : (SUBSET Requests) \cup {None}] /\ o.msgs = Removal(r) /\ o.to = None
  BY <1>4
<1> HIDE DEF o
<1>7. /\ \A p \in Requests \ {r} : pc'[p] = pc[p] /\ out'[p] = out[p] /\ session'[p] = session[p]
      /\ session'[r] = Unknown
      /\ \/ Removal(r) = {} /\ pc'[r] = "release" /\ out'[r] = out[r]
         \/ Removal(r) # {} /\ pc'[r] = "removal" /\ out'[r] = o
  BY <1>0, <1>1, <1>5 DEF TypedAwareness
<1>8. TypedAwareness'
  <2>1. session' \in [Requests -> Entry] BY <1>0, <1>1 DEF TypedAwareness, Entry
  <2>2. out' \in [Requests -> [msgs : SUBSET Msg, to : (SUBSET Requests) \cup {None}]]
    BY <1>0, <1>5, <1>6 DEF TypedAwareness
  <2> QED BY <1>0, <1>1, <2>1, <2>2 DEF TypedAwareness
<1>9. OwnMessages' BY <1>1, <1>4, <1>6, <1>7 DEF GhostInv, OwnMessages
<1>10. EarlyBlank'
  <2>1. \A p \in Requests : pc'[p] \in Early => p # r /\ pc[p] \in Early BY <1>7 DEF Early
  <2> QED BY <1>1, <1>6, <1>7, <2>1 DEF GhostInv, EarlyBlank
<1>11. ASSUME NEW q \in Requests, NEW c \in Clients \ echoed, NEW k \in Nat, Listening(q)',
              Shows(q, c, k)' \/ Pending(q, c, k)'
       PROVE  Listening(q) /\ q # r /\ (Shows(q, c, k) \/ Pending(q, c, k))
  <2>1. q # r BY <1>7, <1>11 DEF Listening, Live
  <2> QED BY <1>1, <1>7, <1>11, <2>1 DEF Listening, Shows, Pending
<1>12. ASSUME NEW p \in Requests, NEW q \in Requests, NEW k \in Nat, Listening(q), q # r, Vouches(p, q, k)
       PROVE  Vouches(p, q, k)'
  <2>1. CASE p # r BY <1>3, <1>7, <1>12, <2>1 DEF Vouches
  <2>2. CASE p = r
    <3>1. session[r].clock >= k BY <1>1, <1>12, <2>2 DEF Vouches
    <3>2. session[r].clock \in Int BY <1>4, EntryFields
    <3>3. HasMeta(session[r]) BY <3>1, <3>2 DEF HasMeta
    <3>4. pc'[r] = "removal" /\ out'[r] = o BY <1>4, <1>7, <3>3
    <3>5. \A m \in Removal(r) : m.clock >= k
      <4>1. \A m \in Removal(r) : m.clock \in Nat BY <1>4 DEF Msg
      <4> QED BY <1>4, <3>1, <3>2, <4>1
    <3>6. IdOf[q] # IdOf[r]
      <4>1. q \in Members BY <1>12 DEF Listening, Live, Structure, MembersInside, Inside
      <4> QED BY <1>2, <1>12, <4>1 DEF Structure, MembersDistinct
    <3> QED BY <1>6, <2>2, <3>4, <3>5, <3>6 DEF Vouches
  <2> QED BY <2>1, <2>2
<1>13. ViewsEvident' BY <1>1, <1>11, <1>12 DEF GhostInv, ViewsEvident, Evident
<1> QED BY <1>8, <1>9, <1>10, <1>13 DEF GhostInv

\* The deferred calls: the goroutine vouches for nothing any more.
LEMMA GhostRelease ==
  ASSUME Structure, GhostInv, NEW r \in Requests, Release(r)
  PROVE  GhostInv'
<1>0. pc \in [Requests -> PCs] /\ TypedAwareness /\ socket \in [Requests -> {"none", "open", "closed"}]
  BY DEF Structure, TypedServer, GhostInv
<1>1. /\ pc[r] = "release" /\ pc' = [pc EXCEPT ![r] = "done"]
      /\ view' = [view EXCEPT ![r] = [c \in Clients |-> Unknown]]
      /\ socket' = [socket EXCEPT ![r] = "closed"]
      /\ UNCHANGED <<session, out, echoed, registry, room>>
  BY DEF Release, Goto
<1>2. /\ pc'[r] = "done" /\ socket'[r] = "closed"
      /\ \A p \in Requests \ {r} : pc'[p] = pc[p] /\ view'[p] = view[p] /\ socket'[p] = socket[p]
  BY <1>0, <1>1 DEF TypedAwareness
<1>3. TypedAwareness' BY <1>0, <1>1 DEF TypedAwareness, Entry
<1>4. OwnMessages' BY <1>1, <1>2 DEF GhostInv, OwnMessages
<1>5. EarlyBlank' BY <1>1, <1>2 DEF GhostInv, EarlyBlank, Early
<1>6. Members' = Members BY <1>1 DEF Members
<1>7. ASSUME NEW p \in Requests, NEW q \in Requests, NEW k \in Nat, Vouches(p, q, k)
      PROVE  Vouches(p, q, k)'
  <2>1. CASE p # r BY <1>1, <1>2, <1>6, <1>7, <2>1 DEF Vouches
  <2>2. CASE p = r BY <1>1, <1>6, <1>7, <2>2 DEF Vouches
  <2> QED BY <2>1, <2>2
<1>8. ASSUME NEW q \in Requests, NEW c \in Clients \ echoed, NEW k \in Nat, Listening(q)',
              Shows(q, c, k)' \/ Pending(q, c, k)'
       PROVE  Listening(q) /\ (Shows(q, c, k) \/ Pending(q, c, k))
  <2>1. q # r BY <1>2, <1>8 DEF Listening
  <2> QED BY <1>1, <1>2, <1>8, <2>1 DEF Listening, Shows, Pending
<1>9. ViewsEvident' BY <1>1, <1>7, <1>8 DEF GhostInv, ViewsEvident, Evident
<1> QED BY <1>3, <1>4, <1>5, <1>9 DEF GhostInv

\* Every step keeps the evidence.
LEMMA GhostStep == ASSUME Structure, GhostInv, Next PROVE GhostInv'
<1>1. CASE LoseLease
  <2>1. UNCHANGED <<pc, session, out, view, echoed, registry, room, socket>>
    BY <1>1 DEF LoseLease, server, browser
  <2>2. Members' = Members BY <2>1 DEF Members
  <2> QED BY <2>1, <2>2, GhostQuiet DEF Listening
<1>2. ASSUME NEW r \in Requests, OpenQuota(r) \/ Admission(r) \/ Revalidator(r)
                                 \/ RevalidateDocumentAuthority(r) \/ BrowserLeaves(r)
      PROVE  GhostInv'
  BY <1>2, QuietGhosts DEF Admission
<1>3. ASSUME NEW r \in Requests, Serve(r) PROVE GhostInv'
  <2>1. CASE Bootstrap(r) BY <2>1, QuietGhosts, GhostBootstrap
  <2>2. CASE ReadFails(r) \/ Unregister(r) BY <2>2, QuietGhosts
  <2> QED
    BY <1>3, <2>1, <2>2, GhostBootstrapWrite, GhostFanoutPeers, GhostFanoutWrite, GhostClose,
       GhostRelease DEF Serve
<1>4. ASSUME NEW r \in Requests, NEW msgs \in Envelopes, Handle(r, msgs) PROVE GhostInv'
  BY <1>4, QuietGhosts, GhostHandle
<1> QED BY <1>1, <1>2, <1>3, <1>4 DEF Next

-----------------------------------------------------------------------------
(* The theorems.                                                           *)

\* Before the first request nothing is counted, in a room, or shown.
LEMMA InvInit == ASSUME Init PROVE Inv
<1>1. Members = {} BY DEF Init, Members
<1>2. Structure
  <2>1. TypedServer BY DEF Init, TypedServer, PCs
  <2>2. MembersInside /\ MembersDistinct /\ ServingIsRegistered
    BY <1>1 DEF Init, MembersInside, MembersDistinct, ServingIsRegistered, Inside
  <2> QED BY <2>1, <2>2 DEF Structure
<1>3. Balanced
  <2>1. HasQuota = {} /\ HasHandle = {} BY DEF Init, HasQuota, HasHandle
  <2> QED BY <2>1, FS_EmptySet, ServerAssumption DEF Init, Balanced
<1>4. TypedAwareness
  <2>1. Unknown \in Entry BY DEF Entry
  <2>2. [r \in Requests |-> NoOut] \in [Requests -> [msgs : SUBSET Msg, to : (SUBSET Requests) \cup {None}]]
    BY BlankOut
  <2>3. echoed \in SUBSET Clients BY DEF Init
  <2> QED BY <2>1, <2>2, <2>3 DEF Init, TypedAwareness
<1>5. OwnMessages BY DEF Init, OwnMessages
<1>6. EarlyBlank BY BlankOut, ServerAssumption DEF Init, EarlyBlank
<1>7. ViewsEvident BY DEF Init, ViewsEvident, Listening, Live
<1> QED BY <1>2, <1>3, <1>4, <1>5, <1>6, <1>7 DEF Inv, GhostInv

\* Every step of a request, of the browsers or of the lease keeps the invariant.
LEMMA InvStep == ASSUME Inv, [Next]_vars PROVE Inv'
<1>1. CASE Next
  <2>1. TypedServer BY DEF Inv, Structure
  <2> QED BY <1>1, <2>1, StructureStep, CountsStep, GhostStep DEF Inv
<1>2. CASE UNCHANGED vars
  <2>1. UNCHANGED <<pc, socket, quota, handles, room, session, out, registry, sessions, held, epoch,
                    view, echoed>>
    BY <1>2 DEF vars, server, cluster, browser
  <2>2. Members' = Members BY <2>1 DEF Members
  <2>3. Structure'
    BY <2>1, <2>2 DEF Inv, Structure, TypedServer, MembersInside, MembersDistinct, ServingIsRegistered
  <2>4. Balanced' BY <2>1 DEF Inv, Balanced, HasQuota, HasHandle
  <2>5. GhostInv' BY <2>1, <2>2, GhostQuiet DEF Inv, Listening
  <2> QED BY <2>3, <2>4, <2>5 DEF Inv
<1> QED BY <1>1, <1>2

\* The server's structure, its accounts and the evidence for every entry a browser
\* shows hold in every state, whatever the requests, ids, clients and limits.
THEOREM Invariance == Spec => []Inv
BY InvInit, InvStep, PTL DEF Spec

\* Whatever way a request ends, its quota and its ownership handle have been
\* given back exactly once, and the limit is never exceeded; a room in the
\* provider's map has a member.
THEOREM AccountsBalance == Spec => []ResourcesBalanced
<1>1. Inv => ResourcesBalanced
  <2> SUFFICES ASSUME Inv PROVE ResourcesBalanced OBVIOUS
  <2>1. quota \in Nat /\ handles \in Nat BY FS_CardinalityType DEF Inv, Balanced
  <2>2. room # None => room.members # {} /\ room.members \subseteq Requests
    BY DEF Inv, Structure, TypedServer, Rooms
  <2>3. TypeOK BY <2>1, <2>2 DEF TypeOK, Inv, Structure, TypedServer
  <2> QED BY <2>3 DEF ResourcesBalanced, Inv, Balanced
<1> QED BY <1>1, Invariance, PTL

\* A session that serves is the peer registered under its connection id: the room
\* admits no second connection of that id before the first has unregistered and
\* left, so no late cleanup can unregister a reconnect.
THEOREM ServingRegistered == Spec => []ServingIsRegistered
<1>1. Inv => ServingIsRegistered BY DEF Inv, Structure
<1> QED BY <1>1, Invariance, PTL

\* A browser that is served shows a client, for which no connection of another
\* client spoke, only while a connection of that client is in the room, or its
\* removal is still to be written to that browser: whatever clocks it sends.
THEOREM NoGhostsShown == Spec => []NoGhosts
<1>1. Inv => NoGhosts
  <2> SUFFICES ASSUME Inv, NEW q \in Requests, NEW c \in Clients \ echoed, pc[q] = "serving",
                      socket[q] = "open", HasState(view[q][c])
               PROVE  \E r \in Requests :
                        /\ ClientOf[r] = c
                        /\ \/ r \in Members
                           \/ pc[r] = "removal" /\ (out[r].to = None \/ q \in out[r].to)
    BY DEF NoGhosts
  <2>1. view[q][c] \in Entry BY DEF Inv, GhostInv, TypedAwareness
  <2>2. PICK k \in Nat : view[q][c].clock = k BY <2>1, EntryFields
  <2>3. Listening(q) /\ Shows(q, c, k) BY <2>2 DEF Listening, Live, Shows
  <2>4. PICK r \in Requests : ClientOf[r] = c /\ Vouches(r, q, k)
    BY <2>3 DEF Inv, GhostInv, ViewsEvident, Evident
  <2> QED BY <2>4 DEF Vouches
<1> QED BY <1>1, Invariance, PTL
=============================================================================
