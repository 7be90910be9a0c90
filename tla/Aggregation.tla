----------------------------- MODULE Aggregation -----------------------------
(* aggregatePayloadsInParallel: the payloads of an update log are taken    *)
(* from a queue of jobs by workers, and their results are collected and    *)
(* reduced when all workers have returned.  A log goes through it twice,   *)
(* once to detect the format of its payloads and once to decode and merge  *)
(* them.  A worker that fails cancels the context the others look at, and  *)
(* so may the caller at any time.  Few payloads are taken one by one.      *)
EXTENDS Integers, Sequences, FiniteSets

CONSTANTS
  Workers,        \* the goroutines of one aggregation (resolveWorkerCount)
  SequentialMax,  \* sequentialUpdateAggregateMaxUpdates
  Logs            \* the update logs recovery may find: sequences of payloads

Formats == {"v1", "v2", "none", "torn", "bad"}

ASSUME AggregationAssumption ==
  /\ IsFiniteSet(Workers) /\ Workers # {}
  /\ SequentialMax \in Nat
  /\ \A payloads \in Logs :
       /\ payloads \in Seq({payloads[i] : i \in DOMAIN payloads})
       /\ \A i \in DOMAIN payloads : payloads[i].fmt \in Formats

VARIABLES
  stage,     \* "detect", "merge", "merged" or "failed"; "serving" comes after "merged"
  log,       \* the payloads being aggregated
  agg        \* the aggregation under way

aggVars == <<stage, log, agg>>

Idle == [pc |-> "idle", task |-> 0]
NewAgg == [next |-> 1, worker |-> [w \in Workers |-> Idle], sent |-> {}, errs |-> {},
           cancelled |-> FALSE]

\* The merge pass leaves payloads of no bytes out.
FilledUpTo(payloads) ==
  LET upTo[i \in 0..Len(payloads)] ==
        IF i = 0 THEN <<>>
        ELSE IF payloads[i].fmt = "none" THEN upTo[i - 1]
        ELSE Append(upTo[i - 1], payloads[i])
  IN upTo

Filled(payloads) == FilledUpTo(payloads)[Len(payloads)]

\* What detection makes of a payload: "torn" ones look like V2 and fail to
\* decode, "bad" ones fail detection.
FormatOf(p) == IF p.fmt = "torn" THEN "v2" ELSE p.fmt
ExtractFails(p) == IF stage = "detect" THEN p.fmt = "bad" ELSE p.fmt \in {"bad", "torn"}

AggInit ==
  /\ stage = "detect"
  /\ log \in Logs
  /\ agg = NewAgg

Aggregating == stage \in {"detect", "merge"}
Sequential == Cardinality(Workers) = 1 \/ Len(log) <= SequentialMax

\* A worker takes the next job, or returns when the jobs have run out or the
\* context is done.
Take(w) ==
  /\ Aggregating /\ ~Sequential
  /\ agg.worker[w].pc = "idle"
  /\ IF agg.next > Len(log)
     THEN agg' = [agg EXCEPT !.worker[w].pc = "done"]
     ELSE agg' = [agg EXCEPT !.next = @ + 1,
                             !.worker[w] = IF agg.cancelled THEN [pc |-> "done", task |-> 0]
                                           ELSE [pc |-> "busy", task |-> agg.next]]
  /\ UNCHANGED <<stage, log>>

\* The results channel has room for every job; a context that is done may
\* win the select all the same.
Send(w) ==
  /\ agg.worker[w].pc = "busy"
  /\ LET task == agg.worker[w].task
         fails == ExtractFails(log[task])
     IN agg' = [agg EXCEPT !.sent = @ \cup {task},
                           !.errs = IF fails THEN @ \cup {task} ELSE @,
                           !.worker[w] = [pc |-> IF fails THEN "cancel" ELSE "idle", task |-> 0]]
  /\ UNCHANGED <<stage, log>>

GiveUp(w) ==
  /\ agg.worker[w].pc = "busy"
  /\ agg.cancelled
  /\ agg' = [agg EXCEPT !.worker[w] = [pc |-> "done", task |-> 0]]
  /\ UNCHANGED <<stage, log>>

\* A fault: the worker that failed does not report that it returned.
CancelNoDone(w) ==
  /\ agg.worker[w].pc = "cancel"
  /\ agg' = [agg EXCEPT !.cancelled = TRUE, !.worker[w].pc = "lost"]
  /\ UNCHANGED <<stage, log>>

\* After an error the worker cancels the others and returns.
Cancel(w) ==
  /\ agg.worker[w].pc = "cancel"
  /\ agg' = [agg EXCEPT !.cancelled = TRUE, !.worker[w].pc = "done"]
  /\ UNCHANGED <<stage, log>>

\* The caller's context ends.
CallerCancels ==
  /\ Aggregating
  /\ ~agg.cancelled
  /\ agg' = [agg EXCEPT !.cancelled = TRUE]
  /\ UNCHANGED <<stage, log>>

\* A fault: a done context is not looked at again before the reduction.
CollectedAnyway == agg.errs = {}

\* The results are complete when there is no error and the context is alive.
Collected == agg.errs = {} /\ ~agg.cancelled

\* A fault: a payload of no bytes makes the format before it forgotten.
FormatOfNeighbours ==
  \A i \in 1..(Len(log) - 1) :
    log[i].fmt # "none" /\ log[i + 1].fmt # "none" => FormatOf(log[i]) = FormatOf(log[i + 1])

\* The reducer of the detect pass: one format, or only payloads of no bytes.
OneFormat ==
  \A i, j \in DOMAIN log :
    log[i].fmt # "none" /\ log[j].fmt # "none" => FormatOf(log[i]) = FormatOf(log[j])

Fail == stage' = "failed" /\ agg' = NewAgg /\ log' = <<>>

Reduce ==
  IF stage = "detect"
  THEN IF ~OneFormat THEN Fail
       ELSE /\ stage' = "merge"
            /\ log' = Filled(log)
            /\ agg' = [NewAgg EXCEPT !.cancelled = agg.cancelled]
  ELSE stage' = "merged" /\ UNCHANGED <<log, agg>>

\* All workers have returned: the caller looks at the errors, at the context,
\* and reduces.
Collect ==
  /\ Aggregating /\ ~Sequential
  /\ \A w \in Workers : agg.worker[w].pc = "done"
  /\ IF Collected THEN Reduce ELSE Fail

\* aggregatePayloadsSequentially: one payload after another.
TakeSequentially ==
  /\ Aggregating /\ Sequential
  /\ agg.next <= Len(log)
  /\ IF agg.cancelled \/ ExtractFails(log[agg.next]) THEN Fail
     ELSE /\ agg' = [agg EXCEPT !.next = @ + 1, !.sent = @ \cup {agg.next}]
          /\ UNCHANGED <<stage, log>>

\* With nothing to aggregate the context is not looked at.
ReduceSequentially ==
  /\ Aggregating /\ Sequential
  /\ agg.next > Len(log)
  /\ IF Collected \/ log = <<>> THEN Reduce ELSE Fail

AggNext ==
  \/ \E w \in Workers : Take(w) \/ Send(w) \/ GiveUp(w) \/ Cancel(w)
  \/ CallerCancels
  \/ Collect
  \/ TakeSequentially
  \/ ReduceSequentially

\* The goroutines of an aggregation and its caller keep running; contexts
\* need not end.
AggFairness ==
  /\ \A w \in Workers : WF_aggVars(Take(w)) /\ WF_aggVars(Send(w)) /\ WF_aggVars(Cancel(w))
  /\ WF_aggVars(Collect) /\ WF_aggVars(TakeSequentially) /\ WF_aggVars(ReduceSequentially)

AggSpec == AggInit /\ [][AggNext]_aggVars /\ AggFairness

-----------------------------------------------------------------------------
(* Properties.                                                             *)

\* Every variable has its type; no worker works once the passes are over.
AggTypeOK ==
  /\ stage \in {"detect", "merge", "merged", "serving", "failed"}
  /\ log \in Seq({log[i] : i \in DOMAIN log}) /\ \A i \in DOMAIN log : log[i].fmt \in Formats
  /\ agg \in [next : 1..(Len(log) + 1),
              worker : [Workers -> [pc : {"idle", "busy", "cancel", "done"}, task : 0..Len(log)]],
              sent : SUBSET (1..Len(log)), errs : SUBSET (1..Len(log)), cancelled : BOOLEAN]
  /\ ~Aggregating => \A w \in Workers : agg.worker[w].pc \in {"idle", "done"}

\* What was merged decodes, holds no payload of no bytes, and is of one
\* format: the log's first pass settled it for the second
\* (detectAggregateUpdateFormatSkippingEmptyContext, mergeUpdateFormats).
MergedUniform ==
  stage = "merged" =>
    \A i, j \in DOMAIN log : log[i].fmt \in {"v1", "v2"} /\ log[i].fmt = log[j].fmt

\* A pass goes on only with the result of every payload and without a failed
\* one, whichever workers gave up and whenever the context ended
\* (aggregatePayloadsInParallel: a job that was dropped leaves a zero entry,
\* which the reducer could not tell from an empty update); the second pass
\* ends with payloads of one format.
PassesComplete ==
  [][Aggregating /\ stage' \in {"merge", "merged"} /\ stage' # stage =>
       /\ agg.sent = DOMAIN log
       /\ \A i \in DOMAIN log : ~ExtractFails(log[i])
       /\ MergedUniform']_aggVars

\* Every aggregation ends, whichever worker fails and whenever the caller
\* cancels.
AggregationEnds == <>(~Aggregating)
=============================================================================
