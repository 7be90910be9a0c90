-------------------------- MODULE OwnershipRuntime --------------------------
(***************************************************************************)
(* DocumentOwnershipRuntime (pkg/ycluster) of one node: callers share, by  *)
(* reference counting, one run of ownership per document, while the lease  *)
(* a run keeps alive belongs to the document's shard and may be shared by  *)
(* several documents.  Every run is a goroutine: claim (adopt or acquire   *)
(* the lease, save the placement), renew until cancelled or failed,        *)
(* release, finish.                                                        *)
(*                                                                         *)
(* Time is abstracted: a lease may lapse at any step (if Lapses), and a    *)
(* renewal may come at any step.  A generation of a lease is named by its  *)
(* fencing token, and a token nobody holds any more names a later one.     *)
(***************************************************************************)
EXTENDS Integers, FiniteSets

CONSTANTS
  Docs,     \* documents
  ShardOf,  \* ShardOf[d]: the shard of a document (ShardResolver)
  Callers,  \* goroutines that acquire and release ownership
  Entries,  \* identities of documentOwnershipRuntimeEntry values
  Tokens,   \* fencing tokens, each of which names a generation of a lease
  None,     \* no entry, no document, no lease
  Lapses,   \* whether leases may lapse
  Faults    \* whether calls of the store and of a caller's context may fail

Shards == {ShardOf[d] : d \in Docs}

ASSUME RuntimeAssumption ==
  /\ None \notin Entries
  /\ None \notin Tokens
  /\ Lapses \in BOOLEAN /\ Faults \in BOOLEAN

VARIABLES
  held,     \* held[s]: the token of the lease stored for shard s, or None
  entries,  \* DocumentOwnershipRuntime.entries
  entry,    \* entry[e]: an entry and the goroutine that runs it
  caller,   \* caller[c]: where a caller is, and its entry
  closed    \* DocumentOwnershipRuntime.closed

vars == <<held, entries, entry, caller, closed>>

-----------------------------------------------------------------------------
\* at: the step of the entry's goroutine; owned: entry.ownership is set;
\* acquired: the claim acquired its lease and did not adopt it; lease: the token
\* of the lease its LeaseManager caches.
Steps == {"none", "claim", "acquire", "place", "run", "release", "finish", "done"}

Entry == [doc : Docs \cup {None}, at : Steps, refs : Nat, cancelled : BOOLEAN,
          ready : BOOLEAN, owned : BOOLEAN, acquired : BOOLEAN, lease : Tokens \cup {None}]

NoEntry == [doc |-> None, at |-> "none", refs |-> 0, cancelled |-> FALSE,
            ready |-> FALSE, owned |-> FALSE, acquired |-> FALSE, lease |-> None]

Idle == [at |-> "idle", entry |-> None]

TypeOK ==
  /\ held \in [Shards -> Tokens \cup {None}]
  /\ entries \in [Docs -> Entries \cup {None}]
  /\ entry \in [Entries -> Entry]
  /\ caller \in [Callers -> [at : {"idle", "waiting", "holding", "draining"},
                             entry : Entries \cup {None}]]
  /\ closed \in BOOLEAN

Init ==
  /\ held = [s \in Shards |-> None]
  /\ entries = [d \in Docs |-> None]
  /\ entry = [e \in Entries |-> NoEntry]
  /\ caller = [c \in Callers |-> Idle]
  /\ closed = FALSE

-----------------------------------------------------------------------------
ShardOfEntry(e) == ShardOf[entry[e].doc]

Stored(e) == held[ShardOfEntry(e)]

\* Nothing refers to the entry any more.
Free(e) ==
  /\ entry[e].at \in {"none", "done"}
  /\ \A c \in Callers : caller[c].entry # e

Goto(e, step) == entry' = [entry EXCEPT ![e].at = step]

Running(e) == entry[e].at \notin {"none", "done"}

\* A token no record and no run's manager holds.
NewToken(t) ==
  /\ \A s \in Shards : held[s] # t
  /\ \A e \in Entries : Running(e) => entry[e].lease # t

-----------------------------------------------------------------------------
(* AcquireDocumentOwnership, DocumentOwnershipHandle.Release and Close.    *)

\* Fault: a cancelled entry is replaced by a new one.
EntryUncancelled(d) == entries[d] # None /\ ~entry[entries[d]].cancelled

\* The map has an entry, in whatever state it is.
EntryExists(d) == entries[d] # None

\* Fault: joining takes no reference.
SharedRef(rec) == rec

Joined(rec) == [rec EXCEPT !.refs = @ + 1]

\* acquireEntry: join the document's entry, whatever state it is in, or start
\* one.  A closed runtime refuses, which changes nothing.
AcquireEntry(c, d) ==
  /\ caller[c].at = "idle"
  /\ ~closed
  /\ \/ /\ EntryExists(d)
        /\ entry' = [entry EXCEPT ![entries[d]] = Joined(@)]
        /\ caller' = [caller EXCEPT ![c] = [at |-> "waiting", entry |-> entries[d]]]
        /\ UNCHANGED entries
     \/ /\ ~EntryExists(d)
        /\ \E e \in Entries :
             /\ Free(e)
             /\ entry' = [entry EXCEPT ![e] = [NoEntry EXCEPT !.doc = d, !.at = "claim", !.refs = 1]]
             /\ entries' = [entries EXCEPT ![d] = e]
             /\ caller' = [caller EXCEPT ![c] = [at |-> "waiting", entry |-> e]]
  /\ UNCHANGED <<held, closed>>

\* releaseEntry under its lock: the last reference cancels the run.
Dropped(rec) ==
  LET refs == IF rec.refs > 0 THEN rec.refs - 1 ELSE 0
  IN [rec EXCEPT !.refs = refs, !.cancelled = @ \/ refs = 0]

Drop(e) == entry' = [entry EXCEPT ![e] = Dropped(@)]

\* waitEntryReady: the claim succeeded.
WaitReady(c) ==
  /\ caller[c].at = "waiting"
  /\ entry[caller[c].entry].ready /\ entry[caller[c].entry].owned
  /\ caller' = [caller EXCEPT ![c].at = "holding"]
  /\ UNCHANGED <<held, entries, entry, closed>>

\* ... or it failed, or the caller's context ended: the reference is dropped
\* without waiting for the run to end.
WaitFails(c) ==
  /\ caller[c].at = "waiting"
  /\ \/ Faults
     \/ entry[caller[c].entry].ready /\ ~entry[caller[c].entry].owned
  /\ Drop(caller[c].entry)
  /\ caller' = [caller EXCEPT ![c] = Idle]
  /\ UNCHANGED <<held, entries, closed>>

\* Release: the last reference waits for the run to end.
Release(c) ==
  /\ caller[c].at = "holding"
  /\ Drop(caller[c].entry)
  /\ caller' = [caller EXCEPT ![c] = IF Dropped(entry[caller[c].entry]).refs = 0
                                     THEN [@ EXCEPT !.at = "draining"] ELSE Idle]
  /\ UNCHANGED <<held, entries, closed>>

\* waitEntryDone, or the timeout of the caller's context.
Drained(c) ==
  /\ caller[c].at = "draining"
  /\ entry[caller[c].entry].at = "done" \/ Faults
  /\ caller' = [caller EXCEPT ![c] = Idle]
  /\ UNCHANGED <<held, entries, entry, closed>>

\* Close cancels every entry of the map and refuses new ones; it then waits for
\* the entries it cancelled, which changes nothing.
Close ==
  /\ ~closed
  /\ closed' = TRUE
  /\ entry' = [e \in Entries |-> IF \E d \in Docs : entries[d] = e
                                 THEN [entry[e] EXCEPT !.refs = 0, !.cancelled = TRUE]
                                 ELSE entry[e]]
  /\ UNCHANGED <<held, entries, caller>>

-----------------------------------------------------------------------------
(* runEntry: RunDocumentOwnership over ClaimDocument and LeaseManager.Run. *)
(* A store call under a cancelled context fails.                           *)

\* acquireAction loads the shard's lease: it is adopted, or the next one is to be
\* acquired.
ClaimLease(e) ==
  /\ entry[e].at = "claim" /\ ~entry[e].cancelled
  /\ IF Stored(e) # None
       THEN entry' = [entry EXCEPT ![e].at = "place", ![e].lease = Stored(e)]
       ELSE Goto(e, "acquire")
  /\ UNCHANGED <<held, entries, caller, closed>>

\* AcquireLease, in a claim or for a run that lost its lease; a run's cached
\* lease, and its entry's, follow (updateEntryLease).
AcquireLease(e) ==
  /\ entry[e].at = "acquire" /\ ~entry[e].cancelled
  /\ Stored(e) = None
  /\ \E t \in Tokens :
       /\ NewToken(t)
       /\ held' = [held EXCEPT ![ShardOfEntry(e)] = t]
       /\ entry' = [entry EXCEPT ![e].at = IF entry[e].ready THEN "run" ELSE "place",
                                 ![e].acquired = TRUE,
                                 ![e].lease = t]
  /\ UNCHANGED <<entries, caller, closed>>

\* Another run of the shard was faster, the store fails (the lease is another
\* node's), or the run was cancelled: the claim, or the run, ends.
AcquireFails(e) ==
  /\ entry[e].at \in {"claim", "acquire"}
  /\ \/ entry[e].at = "acquire" /\ Stored(e) # None
     \/ Faults \/ entry[e].cancelled
  /\ Goto(e, IF entry[e].ready THEN "release" ELSE "finish")
  /\ UNCHANGED <<held, entries, caller, closed>>

\* SavePlacement, then OnClaimed: markEntryReady.
PlaceDocument(e) ==
  /\ entry[e].at = "place" /\ ~entry[e].cancelled
  /\ entry' = [entry EXCEPT ![e].at = "run", ![e].ready = TRUE, ![e].owned = TRUE]
  /\ UNCHANGED <<held, entries, caller, closed>>

\* SavePlacement fails: a lease the claim acquired is released, with the run's
\* own context, so not when its end is what failed.
PlaceFails(e) ==
  /\ entry[e].at = "place"
  /\ Faults \/ entry[e].cancelled
  /\ held' = [held EXCEPT ![ShardOfEntry(e)] =
                IF entry[e].acquired /\ ~entry[e].cancelled /\ @ = entry[e].lease THEN None ELSE @]
  /\ Goto(e, "finish")
  /\ UNCHANGED <<entries, caller, closed>>

\* LeaseManager.Ensure finds that the cached lease is gone: it is dropped and the
\* next one acquired, or the one stored meanwhile adopted when the cached one
\* has expired.  A renewal of the stored lease changes nothing here.
RunReacquires(e) ==
  /\ entry[e].at = "run" /\ ~entry[e].cancelled
  /\ \/ /\ Stored(e) = None
        /\ entry' = [entry EXCEPT ![e].at = "acquire", ![e].lease = None]
     \/ /\ Lapses /\ Stored(e) # None /\ Stored(e) # entry[e].lease
        /\ entry' = [entry EXCEPT ![e].lease = Stored(e)]
  /\ UNCHANGED <<held, entries, caller, closed>>

\* Fault: ReleaseOnStop is not set.
RunJustStops(e) ==
  /\ entry[e].at = "run"
  /\ entry[e].cancelled \/ Faults \/ Stored(e) # entry[e].lease
  /\ Goto(e, "finish")
  /\ UNCHANGED <<held, entries, caller, closed>>

\* Run returns: its context was cancelled, the store failed, or the renewal met
\* another token, or lost its record between its load and its save.
RunStops(e) ==
  /\ entry[e].at = "run"
  /\ entry[e].cancelled \/ Faults \/ Stored(e) # entry[e].lease
  /\ Goto(e, "release")
  /\ UNCHANGED <<held, entries, caller, closed>>

\* releaseDocumentOwnership, by the cached token and with a context of its own.
ReleaseLease(e) ==
  /\ entry[e].at = "release"
  /\ held' = [held EXCEPT ![ShardOfEntry(e)] = IF @ = entry[e].lease THEN None ELSE @]
  /\ Goto(e, "finish")
  /\ UNCHANGED <<entries, caller, closed>>

\* ... or its timeout ends it.
ReleaseFails(e) ==
  /\ Faults
  /\ entry[e].at = "release"
  /\ Goto(e, "finish")
  /\ UNCHANGED <<held, entries, caller, closed>>

\* Faults: an entry is kept while it is referred to; an entry that never got ready
\* wakes nobody.
FinishUnused(e) ==
  /\ entry[e].at = "finish" /\ entry[e].refs = 0
  /\ entry' = [entry EXCEPT ![e].at = "done", ![e].ready = TRUE]
  /\ entries' = [d \in Docs |-> IF d = entry[e].doc /\ entries[d] = e THEN None ELSE entries[d]]
  /\ UNCHANGED <<held, caller, closed>>

FinishSilently(e) ==
  /\ entry[e].at = "finish"
  /\ entry' = [entry EXCEPT ![e].at = "done"]
  /\ entries' = [d \in Docs |-> IF d = entry[e].doc /\ entries[d] = e THEN None ELSE entries[d]]
  /\ UNCHANGED <<held, caller, closed>>

\* finishEntry
Finish(e) ==
  /\ entry[e].at = "finish"
  /\ entry' = [entry EXCEPT ![e].at = "done", ![e].ready = TRUE]
  /\ entries' = [d \in Docs |-> IF d = entry[e].doc /\ entries[d] = e THEN None ELSE entries[d]]
  /\ UNCHANGED <<held, caller, closed>>

\* The stored lease expires.
Lapse(s) ==
  /\ Lapses
  /\ held[s] # None
  /\ held' = [held EXCEPT ![s] = None]
  /\ UNCHANGED <<entries, entry, caller, closed>>

-----------------------------------------------------------------------------
RunStep(e) ==
  \/ ClaimLease(e) \/ AcquireLease(e) \/ AcquireFails(e)
  \/ PlaceDocument(e) \/ PlaceFails(e)
  \/ RunReacquires(e) \/ RunStops(e)
  \/ ReleaseLease(e) \/ ReleaseFails(e) \/ Finish(e)

CallerStep(c) ==
  \/ \E d \in Docs : AcquireEntry(c, d)
  \/ WaitReady(c) \/ WaitFails(c) \/ Release(c) \/ Drained(c)

Next ==
  \/ Close
  \/ \E s \in Shards : Lapse(s)
  \/ \E c \in Callers : CallerStep(c)
  \/ \E e \in Entries : RunStep(e)

Spec == Init /\ [][Next]_vars

\* A run's goroutine is scheduled and its store calls return, with a result or with
\* an error; Run looks at its context in every round; a waiting caller is woken.
Fairness ==
  /\ \A e \in Entries :
       /\ WF_vars(RunStep(e) /\ entry[e].at # "run")
       /\ WF_vars(RunStops(e) /\ entry[e].cancelled)
  /\ \A c \in Callers :
       /\ WF_vars((WaitReady(c) \/ WaitFails(c)) /\ entry[caller[c].entry].ready)
       /\ WF_vars(Drained(c) /\ entry[caller[c].entry].at = "done")

FairSpec == Spec /\ Fairness

-----------------------------------------------------------------------------
(* Properties.                                                             *)

\* One run of ownership per document, however callers come, go and give up.
SingleRun ==
  \A e, f \in Entries :
    /\ Running(e) /\ Running(f)
    /\ entry[e].doc = entry[f].doc
    => e = f

\* Until Close, an entry counts the callers that refer to it and have not
\* dropped their reference: no run is cancelled under a caller, or kept alive
\* by one that left.
RefsCounted ==
  ~closed =>
    \A e \in Entries :
      entry[e].at # "none" =>
        entry[e].refs = Cardinality({c \in Callers : /\ caller[c].entry = e
                                                     /\ caller[c].at \in {"waiting", "holding"}})

\* A handle is a reference to active ownership: while runs do not fail, leases
\* do not lapse and the runtime is open, the run of every handle goes on.
HandleActive ==
  ~closed =>
    \A c \in Callers :
      caller[c].at = "holding" => ~entry[caller[c].entry].cancelled

\* The lease a run caches is the stored one, so writes under its fence succeed.
LeaseActive ==
  \A e \in Entries :
    entry[e].at = "run" /\ ~entry[e].cancelled => Stored(e) = entry[e].lease

\* Until Close, and when nothing fails, a stored lease is some run's: the last run
\* that knows of a lease gives it back.
LeaseAccounted ==
  ~closed =>
    \A s \in Shards :
      held[s] # None =>
        \E e \in Entries : /\ entry[e].at \in {"place", "run", "release"}
                           /\ ShardOfEntry(e) = s
                           /\ entry[e].lease = held[s]

\* A cancelled run ends, whatever step it was at: its entry leaves the map.
CancelledEnds ==
  \A e \in Entries : entry[e].cancelled ~> entry[e].at = "done"

\* Every caller that waits, for ownership or for the end of its run, goes on.
CallersAnswered ==
  \A c \in Callers : caller[c].at \in {"waiting", "draining"} ~> caller[c].at \in {"idle", "holding"}
=============================================================================
